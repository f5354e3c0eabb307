------------------------- MODULE LinxMemory_proofs -------------------------
(***************************************************************************)
(* Proofs about the parts of the Sail model that use memory in several steps *)
(* or from several contexts.  They share no state.                           *)
(*                                                                           *)
(* The atomic operations of LinxAtomics, for every set of cells and lines    *)
(* and every number of handlers: types, that a blind SC alone loses          *)
(* additions, that an undisturbed SC succeeds and that a lock has one        *)
(* holder.  The vector queues of VecQueue, for every set of rings and number *)
(* of lanes: they are the bounded queues of Fifo.                            *)
(*                                                                           *)
(* The templates of LinxTemplates, for every width of a register, number of  *)
(* registers, size of the stack, list of ranges and set of immediates:       *)
(* FENTRY, FEXIT, MCOPY and MSET on bytes of memory implement CallFrames,     *)
(* where a call keeps registers and locals as values.  They are loops over   *)
(* memory; each is a function of the number of iterations, and what it       *)
(* leaves is shown by Loop and LoopsEnd: the value after k iterations        *)
(* follows from the value after k - 1, and UpTo carries that to the last.    *)
(***************************************************************************)
EXTENDS MCLinxMemory, FiniteSetTheorems, WellFoundedInduction, TLAPS


(* Reservations: a valid one is that of the latest LR, whose context knows   *)
(* of every store to its cell that is no SC.                                 *)
ReservationInv ==
  /\ excl_valid => latest # NoOne
  /\ \A l \in 0 .. MaxLevel :
       ctx[l].doing = "reserved" /\ ~ctx[l].stored /\ latest = l =>
         cells[ctx[l].cell] = ctx[l].old

LevelsInv ==
  \A l \in 0 .. MaxLevel :
    /\ l < level => ~ctx[l].undisturbed
    /\ l > level => ctx[l].doing = "nothing"

AtomicInv ==
  /\ AtomicTypeOK /\ LevelsInv /\ ReservationInv
  /\ NoUpdateIsLost /\ UndisturbedSucceeds /\ LockHasOneHolder

(* Remainders stay below the modulus, and numbers below it are their own.   *)
LEMMA Remainder ==
  ASSUME NEW W \in Nat \ {0}, NEW x \in Nat
  PROVE  x % W \in 0 .. W - 1 /\ (x < W => x % W = x)
  BY SMT

(* What the assumptions say of the constants that types mention. *)
LEMMA Constants ==
  /\ MaxLevel \in Nat /\ WordMod \in Nat \ {0, 1}
  /\ 0 \in 0 .. WordMod - 1 /\ 1 \in 0 .. WordMod - 1
  /\ Counter \subseteq Cell /\ Lock \subseteq Cell /\ Counter \cap Lock = {}
  /\ Idle \in Contexts /\ Idle.doing = "nothing"
<1>1. MaxLevel \in Nat /\ WordMod \in Nat \ {0, 1}
  BY AtomicsAssumption
<1>2. 0 \in 0 .. WordMod - 1 /\ 1 \in 0 .. WordMod - 1
  BY <1>1
<1>3. Idle \in Contexts /\ Idle.doing = "nothing"
  BY <1>2 DEF Idle, Contexts
<1> QED
  BY <1>1, <1>2, <1>3, AtomicsAssumption

(* What is added to a word is a word. *)
LEMMA AddedType ==
  ASSUME NEW v \in 0 .. WordMod - 1
  PROVE  Added(v) \in 0 .. WordMod - 1
<1>1. v + 1 \in Nat /\ WordMod \in Nat \ {0}
  BY Constants
<1> QED
  BY <1>1, Remainder DEF Added

(* A context after a load. *)
LEMMA LoadedContext ==
  ASSUME AtomicTypeOK, NEW c \in Counter, NEW doing \in {"reserved", "loaded"}
  PROVE  /\ AfterLoad(doing, c) \in Contexts
         /\ AfterLoad(doing, c).doing = doing /\ AfterLoad(doing, c).cell = c
         /\ AfterLoad(doing, c).old = cells[c]
         /\ AfterLoad(doing, c).undisturbed /\ ~AfterLoad(doing, c).stored
<1>1. cells[c] \in 0 .. WordMod - 1 /\ c \in Cell
  BY Constants DEF AtomicTypeOK
<1> QED
  BY <1>1 DEF AfterLoad, Contexts

(* A store to c is noted by those that reserved c, and changes nothing else. *)
LEMMA NoticedContexts ==
  ASSUME AtomicTypeOK, NEW c
  PROVE  /\ Noticed(c) \in [0 .. MaxLevel -> Contexts]
         /\ \A l \in 0 .. MaxLevel :
              /\ Noticed(c)[l].doing = ctx[l].doing
              /\ Noticed(c)[l].cell = ctx[l].cell
              /\ Noticed(c)[l].old = ctx[l].old
              /\ Noticed(c)[l].undisturbed = ctx[l].undisturbed
              /\ Noticed(c)[l].stored <=>
                   ctx[l].stored \/ (ctx[l].doing = "reserved" /\ ctx[l].cell = c)
<1>1. \A k \in Contexts : LET n == [k EXCEPT !.stored = TRUE]
                          IN  /\ n \in Contexts /\ n.doing = k.doing /\ n.cell = k.cell
                              /\ n.old = k.old /\ n.undisturbed = k.undisturbed /\ n.stored
  BY DEF Contexts
<1> SUFFICES ASSUME NEW l \in 0 .. MaxLevel
             PROVE  LET n == Noticed(c)[l]
                    IN  /\ n \in Contexts /\ n.doing = ctx[l].doing /\ n.cell = ctx[l].cell
                        /\ n.old = ctx[l].old /\ n.undisturbed = ctx[l].undisturbed
                        /\ n.stored <=> ctx[l].stored
                             \/ (ctx[l].doing = "reserved" /\ ctx[l].cell = c)
  BY DEF Noticed
<1>2. ctx[l] \in Contexts
  BY DEF AtomicTypeOK
<1>3. CASE ctx[l].doing = "reserved" /\ ctx[l].cell = c
  <2>1. Noticed(c)[l] = [ctx[l] EXCEPT !.stored = TRUE]
    BY <1>3 DEF Noticed
  <2> QED
    BY <1>1, <1>2, <1>3, <2>1
<1>4. CASE ~(ctx[l].doing = "reserved" /\ ctx[l].cell = c)
  <2>1. Noticed(c)[l] = ctx[l]
    BY <1>4 DEF Noticed
  <2> QED
    BY <1>2, <1>4, <2>1
<1> QED
  BY <1>3, <1>4

(* What a step makes of the context of each level. *)
LEMMA OneContext ==
  ASSUME AtomicTypeOK, NEW c, MyContext(c)
  PROVE  /\ \A l \in 0 .. MaxLevel : ctx'[l] = IF l = level THEN c ELSE ctx[l]
         /\ c \in Contexts => ctx' \in [0 .. MaxLevel -> Contexts]
BY DEF AtomicTypeOK, MyContext

LEMMA Interrupted ==
  ASSUME AtomicTypeOK, Interrupt
  PROVE  /\ level' = level + 1 /\ level + 1 \in 0 .. MaxLevel
         /\ ctx' \in [0 .. MaxLevel -> Contexts]
         /\ \A l \in 0 .. MaxLevel :
              /\ ctx'[l].doing = ctx[l].doing /\ ctx'[l].cell = ctx[l].cell
              /\ ctx'[l].old = ctx[l].old /\ ctx'[l].stored = ctx[l].stored
              /\ ctx'[l].undisturbed <=> l # level /\ ctx[l].undisturbed
<1>1. level \in 0 .. MaxLevel /\ level + 1 \in 0 .. MaxLevel
  BY Constants DEF AtomicTypeOK, Interrupt
<1>2. \A k \in Contexts : LET n == [k EXCEPT !.undisturbed = FALSE]
                          IN  /\ n \in Contexts /\ n.doing = k.doing /\ n.cell = k.cell
                              /\ n.old = k.old /\ n.stored = k.stored /\ ~n.undisturbed
  BY DEF Contexts
<1>3. /\ ctx' = [ctx EXCEPT ![level] = [ctx[level] EXCEPT !.undisturbed = FALSE]]
      /\ level' = level + 1
  BY <1>1 DEF Interrupt, AtomicTypeOK
<1>4. ctx \in [0 .. MaxLevel -> Contexts]
  BY DEF AtomicTypeOK
<1>5. ctx' \in [0 .. MaxLevel -> Contexts]
  BY <1>1, <1>2, <1>3, <1>4
<1> SUFFICES ASSUME NEW l \in 0 .. MaxLevel
             PROVE  /\ ctx'[l].doing = ctx[l].doing /\ ctx'[l].cell = ctx[l].cell
                    /\ ctx'[l].old = ctx[l].old /\ ctx'[l].stored = ctx[l].stored
                    /\ ctx'[l].undisturbed <=> l # level /\ ctx[l].undisturbed
  BY <1>1, <1>3, <1>5
<1>6. CASE l = level
  BY <1>1, <1>2, <1>3, <1>4, <1>6
<1>7. CASE l # level
  BY <1>3, <1>4, <1>7
<1> QED
  BY <1>6, <1>7

(* Four kinds of steps change what a context says: the running one loads,   *)
(* or is done with its load or returns, a store is noted, an interrupt is.   *)
Begins(l) == \E c \in Counter, doing \in {"reserved", "loaded"} : ctx'[l] = AfterLoad(doing, c)

Goes(l) ==
  /\ ctx'[l].doing = ctx[l].doing /\ ctx'[l].cell = ctx[l].cell /\ ctx'[l].old = ctx[l].old
  /\ ctx'[l].undisturbed => ctx[l].undisturbed
  /\ ctx[l].stored => ctx'[l].stored

LEMMA ContextsStep ==
  ASSUME AtomicTypeOK, AtomicNext
  PROVE  /\ ctx' \in [0 .. MaxLevel -> Contexts]
         /\ \A l \in 0 .. MaxLevel :
              \/ Goes(l)
              \/ l = level /\ ctx'[l] = Idle
              \/ l = level /\ Begins(l) /\ (LoadReserved \/ LoadPlain)
<1>1. level \in 0 .. MaxLevel /\ ctx \in [0 .. MaxLevel -> Contexts]
  BY DEF AtomicTypeOK
<1> DEFINE Goal ==
      /\ ctx' \in [0 .. MaxLevel -> Contexts]
      /\ \A l \in 0 .. MaxLevel :
           \/ Goes(l)
           \/ l = level /\ ctx'[l] = Idle
           \/ l = level /\ Begins(l) /\ (LoadReserved \/ LoadPlain)
<1>2. ASSUME NEW c \in Counter, NEW doing \in {"reserved", "loaded"},
             MyContext(AfterLoad(doing, c)), LoadReserved \/ LoadPlain
      PROVE  Goal
  BY <1>1, <1>2, OneContext, LoadedContext DEF Goes, Begins
<1>3. ASSUME MyContext(Idle) PROVE Goal
  BY <1>1, <1>3, OneContext, Constants DEF Goes
<1>4. ASSUME NEW c, ctx' = Noticed(c) PROVE Goal
  BY <1>1, <1>4, NoticedContexts DEF Goes
<1>5. ASSUME ctx' = ctx PROVE Goal
  BY <1>1, <1>5 DEF Goes
<1>6. CASE LoadReserved \/ LoadPlain
  BY <1>2, <1>6 DEF LoadReserved, LoadPlain
<1>7. CASE StoreConditional \/ Return
  BY <1>3, <1>7 DEF StoreConditional, Return
<1>8. CASE CompareAndSwap
  <2>2. CASE cells[Me.cell] = Me.old
    <3>1. ctx' = [Noticed(Me.cell) EXCEPT ![level] = Idle]
      BY <1>8, <2>2 DEF CompareAndSwap
    <3>2. ctx' \in [0 .. MaxLevel -> Contexts]
      BY <1>1, <3>1, NoticedContexts, Constants
    <3>3. ctx'[level] = Idle /\ \A l \in 0 .. MaxLevel : l # level => ctx'[l] = Noticed(Me.cell)[l]
      BY <1>1, <3>1, NoticedContexts
    <3> QED
      BY <3>2, <3>3, NoticedContexts DEF Goes
  <2>3. CASE cells[Me.cell] # Me.old
    <3>1. MyContext(Idle)
      BY <1>8, <2>3 DEF CompareAndSwap, MyContext
    <3> QED
      BY <1>3, <3>1
  <2> QED
    BY <2>2, <2>3
<1>9. CASE AtomicAdd \/ SetBack
  BY <1>4, <1>9 DEF AtomicAdd, SetBack
<1>10. CASE TryLock \/ Unlock
  BY <1>5, <1>10 DEF TryLock, Unlock
<1>11. CASE Interrupt
  BY <1>11, Interrupted DEF Goes
<1> QED
  BY <1>6, <1>7, <1>8, <1>9, <1>10, <1>11 DEF AtomicNext

(* The type invariant holds at first and every step keeps it. *)
LEMMA TypeInductive ==
  /\ AtomicInit => AtomicTypeOK
  /\ AtomicTypeOK /\ [AtomicNext]_atomicVars => AtomicTypeOK'
<1>1. ASSUME AtomicInit PROVE AtomicTypeOK
  <2>1. level \in 0 .. MaxLevel /\ latest \in NoOne .. MaxLevel
    BY <1>1, Constants DEF AtomicInit, NoOne
  <2>2. ctx \in [0 .. MaxLevel -> Contexts] /\ \A l \in 0 .. MaxLevel : ctx[l].doing = "nothing"
    BY <1>1, Constants DEF AtomicInit
  <2>3. cells \in [Cell -> 0 .. WordMod - 1] /\ due \in [Cell -> 0 .. WordMod - 1]
    BY <1>1, Constants DEF AtomicInit
  <2> QED
    BY <1>1, <2>1, <2>2, <2>3 DEF AtomicInit, AtomicTypeOK
<1>2. ASSUME AtomicTypeOK, AtomicNext PROVE AtomicTypeOK'
  <2>1. /\ level \in 0 .. MaxLevel /\ Me \in Contexts /\ latest \in NoOne .. MaxLevel
        /\ cells \in [Cell -> 0 .. WordMod - 1] /\ due \in [Cell -> 0 .. WordMod - 1]
        /\ excl_valid \in BOOLEAN /\ excl_line \in {NoLine} \cup {LineOf[c] : c \in Cell}
        /\ holds \in [0 .. MaxLevel -> SUBSET Lock]
        /\ MaxLevel \in Nat
    BY <1>2, Constants DEF AtomicTypeOK, Me
  <2>2. Me.doing # "nothing" => Me.cell \in Counter /\ Me.old \in 0 .. WordMod - 1
    BY <1>2, <2>1 DEF AtomicTypeOK, Me, Contexts
  <2>3. ctx' \in [0 .. MaxLevel -> Contexts]
    BY <1>2, ContextsStep
  <2>4. \A l \in 0 .. MaxLevel : ctx'[l].doing # "nothing" => ctx'[l].cell \in Counter
    <3> SUFFICES ASSUME NEW l \in 0 .. MaxLevel, ctx'[l].doing # "nothing"
                 PROVE  ctx'[l].cell \in Counter
      OBVIOUS
    <3>1. CASE Goes(l)
      BY <1>2, <3>1 DEF Goes, AtomicTypeOK
    <3>2. CASE Begins(l)
      BY <1>2, <3>2, LoadedContext DEF Begins
    <3> QED
      BY <1>2, <3>1, <3>2, ContextsStep, Constants
  <2>5. ASSUME NEW c \in Cell, NEW v \in 0 .. WordMod - 1
        PROVE  /\ [cells EXCEPT ![c] = v] \in [Cell -> 0 .. WordMod - 1]
               /\ [due EXCEPT ![c] = v] \in [Cell -> 0 .. WordMod - 1]
    BY <2>1
  <2>6. \A c \in Counter : /\ c \in Cell /\ cells[c] \in 0 .. WordMod - 1
                           /\ Added(cells[c]) \in 0 .. WordMod - 1
                           /\ Added(due[c]) \in 0 .. WordMod - 1
    BY <2>1, AddedType, Constants
  <2> DEFINE Words == cells' \in [Cell -> 0 .. WordMod - 1] /\ due' \in [Cell -> 0 .. WordMod - 1]
  <2> DEFINE Rest == /\ excl_valid' \in BOOLEAN
                     /\ excl_line' \in {NoLine} \cup {LineOf[c] : c \in Cell}
                     /\ level' \in 0 .. MaxLevel /\ latest' \in NoOne .. MaxLevel
                     /\ holds' \in [0 .. MaxLevel -> SUBSET Lock]
  <2>7. CASE LoadReserved
    <3>1. PICK c \in Counter : Reserve(c)
      BY <2>7 DEF LoadReserved
    <3>2. UNCHANGED <<cells, due, level, holds>> /\ latest' = level
      BY <2>7 DEF LoadReserved
    <3>3. latest' \in NoOne .. MaxLevel
      BY <2>1, <3>2 DEF NoOne
    <3> QED
      BY <2>1, <2>3, <2>4, <2>6, <3>1, <3>2, <3>3 DEF Reserve, AtomicTypeOK
  <2>8. CASE StoreConditional
    <3>1. Me.cell \in Counter /\ Added(Me.old) \in 0 .. WordMod - 1
      BY <2>2, <2>8, AddedType DEF StoreConditional
    <3>2. Words
      <4>1. CASE Matches(Me.cell)
        <5>1. PICK v \in {Added(Me.old), Added(due[Me.cell])} :
                /\ cells' = [cells EXCEPT ![Me.cell] = Added(Me.old)]
                /\ due' = [due EXCEPT ![Me.cell] = v]
          <6>1. CASE Blind
            BY <2>8, <4>1, <6>1 DEF StoreConditional
          <6>2. CASE ~Blind
            BY <2>1, <2>6, <2>8, <3>1, <4>1, <6>2 DEF StoreConditional
          <6> QED
            BY <6>1, <6>2
        <5> QED
          BY <2>5, <2>6, <3>1, <5>1
      <4>2. CASE ~Matches(Me.cell)
        BY <2>1, <2>8, <4>2 DEF StoreConditional
      <4> QED
        BY <4>1, <4>2
    <3>3. latest' = NoOne /\ NoOne \in NoOne .. MaxLevel
      BY <2>1, <2>8 DEF StoreConditional, NoOne
    <3>4. excl_valid' = FALSE /\ UNCHANGED <<excl_line, level, holds>>
      BY <2>8 DEF StoreConditional, ClearAfter
    <3>5. Rest
      BY <2>1, <3>3, <3>4
    <3> QED
      BY <2>3, <2>4, <3>2, <3>5 DEF AtomicTypeOK
  <2>9. CASE CompareAndSwap
    <3>1. Me.cell \in Counter /\ Added(Me.old) \in 0 .. WordMod - 1
      BY <2>2, <2>9, AddedType DEF CompareAndSwap
    <3>2. Words
      <4>1. CASE cells[Me.cell] = Me.old
        <5>1. /\ cells' = [cells EXCEPT ![Me.cell] = Added(Me.old)]
              /\ due' = [due EXCEPT ![Me.cell] = Added(due[Me.cell])]
          BY <2>9, <4>1 DEF CompareAndSwap, Swapped
        <5> QED
          BY <2>5, <2>6, <3>1, <5>1
      <4>2. CASE cells[Me.cell] # Me.old
        BY <2>1, <2>9, <4>2 DEF CompareAndSwap, Swapped
      <4> QED
        BY <4>1, <4>2
    <3> QED
      BY <2>1, <2>3, <2>4, <2>9, <3>2 DEF AtomicTypeOK, CompareAndSwap
  <2>10. CASE AtomicAdd \/ SetBack
    <3>1. Words
      <4>1. ASSUME NEW c \in Counter,
                   /\ cells' = [cells EXCEPT ![c] = Added(@)]
                   /\ due' = [due EXCEPT ![c] = Added(@)]
            PROVE  Words
        <5>1. cells' = [cells EXCEPT ![c] = Added(cells[c])] /\ due' = [due EXCEPT ![c] = Added(due[c])]
          BY <4>1
        <5> QED
          BY <2>5, <2>6, <5>1
      <4>2. ASSUME NEW c \in Counter,
                   cells' = [cells EXCEPT ![c] = 0] /\ due' = [due EXCEPT ![c] = 0]
            PROVE  Words
        BY <2>5, <2>6, <4>2, Constants
      <4> QED
        BY <2>10, <4>1, <4>2 DEF AtomicAdd, SetBack
    <3>2. Rest
      BY <2>1, <2>10 DEF AtomicAdd, SetBack
    <3> QED
      BY <2>3, <2>4, <3>1, <3>2 DEF AtomicTypeOK
  <2>11. CASE TryLock
    <3>1. cells' \in [Cell -> 0 .. WordMod - 1] /\ holds' \in [0 .. MaxLevel -> SUBSET Lock]
      BY <2>1, <2>11, Constants DEF TryLock
    <3> QED
      BY <2>1, <2>3, <2>4, <2>11, <3>1 DEF AtomicTypeOK, TryLock
  <2>12. CASE Unlock
    <3>1. cells' \in [Cell -> 0 .. WordMod - 1] /\ holds' \in [0 .. MaxLevel -> SUBSET Lock]
      BY <2>1, <2>12, Constants DEF Unlock
    <3> QED
      BY <2>1, <2>3, <2>4, <2>12, <3>1 DEF AtomicTypeOK, Unlock
  <2>13. CASE LoadPlain \/ Interrupt \/ Return
    <3>1. UNCHANGED <<cells, excl_valid, excl_line, holds, due, latest>>
      BY <2>13 DEF LoadPlain, Interrupt, Return
    <3>2. level' \in 0 .. MaxLevel
      BY <2>1, <2>13 DEF LoadPlain, Interrupt, Return
    <3> QED
      BY <2>1, <2>3, <2>4, <3>1, <3>2 DEF AtomicTypeOK
  <2> QED
    BY <1>2, <2>7, <2>8, <2>9, <2>10, <2>11, <2>12, <2>13 DEF AtomicNext
<1>3. ASSUME AtomicTypeOK, UNCHANGED atomicVars PROVE AtomicTypeOK'
  BY <1>3 DEF AtomicTypeOK, atomicVars
<1> QED
  BY <1>1, <1>2, <1>3

(* The contexts below the running one know that they were interrupted, and  *)
(* those above it have nothing under way.                                   *)
LEMMA LevelsStep ==
  ASSUME AtomicTypeOK, LevelsInv, AtomicNext
  PROVE  LevelsInv'
<1>1. level \in 0 .. MaxLevel /\ MaxLevel \in Nat
  BY Constants DEF AtomicTypeOK
<1>2. CASE Interrupt
  BY <1>1, <1>2, Interrupted DEF LevelsInv
<1>3. CASE Return
  BY <1>1, <1>3, OneContext, Constants DEF LevelsInv, Return
<1>4. CASE level' = level
  <2> SUFFICES ASSUME NEW l \in 0 .. MaxLevel
               PROVE  /\ l < level => ~ctx'[l].undisturbed
                      /\ l > level => ctx'[l].doing = "nothing"
    BY <1>4 DEF LevelsInv
  <2>1. CASE Goes(l)
    BY <2>1 DEF Goes, LevelsInv
  <2>2. CASE l = level
    BY <1>1, <2>2
  <2> QED
    BY <2>1, <2>2, ContextsStep
<1> QED
  BY <1>2, <1>3, <1>4
  DEF AtomicNext, LoadReserved, StoreConditional, LoadPlain, CompareAndSwap, AtomicAdd, SetBack,
      TryLock, Unlock

(* Whose LR was the latest holds the value it read until something other    *)
(* than an SC stores to its cell, which it notes.                           *)
LEMMA ReservationStep ==
  ASSUME AtomicTypeOK, ReservationInv, AtomicNext
  PROVE  ReservationInv'
<1>1. /\ level \in 0 .. MaxLevel /\ cells \in [Cell -> 0 .. WordMod - 1]
      /\ \A l \in 0 .. MaxLevel : ctx[l].doing # "nothing" => ctx[l].cell \in Counter
  BY DEF AtomicTypeOK
<1>2. CASE LoadReserved
  <2>1. PICK c \in Counter : MyContext(AfterLoad("reserved", c))
    BY <1>2 DEF LoadReserved
  <2>2. ctx'[level].cell = c /\ ctx'[level].old = cells[c]
    BY <1>1, <2>1, OneContext, LoadedContext
  <2>3. latest' = level /\ cells' = cells /\ level # NoOne
    BY <1>1, <1>2 DEF LoadReserved, NoOne
  <2> QED
    BY <2>2, <2>3 DEF ReservationInv
<1>3. CASE StoreConditional
  <2>1. ~excl_valid' /\ latest' = NoOne /\ \A l \in 0 .. MaxLevel : l # NoOne
    BY <1>3 DEF StoreConditional, ClearAfter, NoOne
  <2> QED
    BY <2>1 DEF ReservationInv
<1>4. ASSUME UNCHANGED <<excl_valid, latest>>,
             \A l \in 0 .. MaxLevel :
               ctx'[l].doing = "reserved" /\ ~ctx'[l].stored =>
                 /\ ctx[l].doing = "reserved" /\ ~ctx[l].stored
                 /\ ctx'[l].cell = ctx[l].cell /\ ctx'[l].old = ctx[l].old
                 /\ cells'[ctx[l].cell] = cells[ctx[l].cell]
      PROVE  ReservationInv'
  BY <1>4 DEF ReservationInv
<1>5. ASSUME NEW c \in Counter, NEW v,
             cells' = [cells EXCEPT ![c] = v],
             \A l \in 0 .. MaxLevel : ctx'[l] = Noticed(c)[l] \/ ctx'[l] = Idle,
             UNCHANGED <<excl_valid, latest>>
      PROVE  ReservationInv'
  <2>1. \A d \in Cell : d # c => cells'[d] = cells[d]
    BY <1>1, <1>5
  <2> SUFFICES ASSUME NEW l \in 0 .. MaxLevel, ctx'[l].doing = "reserved", ~ctx'[l].stored
               PROVE  /\ ctx[l].doing = "reserved" /\ ~ctx[l].stored
                      /\ ctx'[l].cell = ctx[l].cell /\ ctx'[l].old = ctx[l].old
                      /\ cells'[ctx[l].cell] = cells[ctx[l].cell]
    BY <1>4, <1>5
  <2>2. ctx'[l] = Noticed(c)[l]
    BY <1>5, Constants
  <2>3. ctx[l].doing = "reserved" /\ ~ctx[l].stored /\ ctx[l].cell # c
    BY <2>2, NoticedContexts
  <2>4. ctx[l].cell \in Cell
    BY <1>1, <2>3, Constants
  <2> QED
    BY <2>1, <2>2, <2>3, <2>4, NoticedContexts
<1>6. CASE AtomicAdd \/ SetBack
  <2>1. PICK c \in Counter :
          /\ \E v \in {0, Added(cells[c])} : cells' = [cells EXCEPT ![c] = v]
          /\ ctx' = Noticed(c)
    BY <1>1, <1>6 DEF AtomicAdd, SetBack
  <2> QED
    BY <1>5, <1>6, <2>1 DEF AtomicAdd, SetBack
<1>7. CASE CompareAndSwap
  <2>1. Me.cell \in Counter /\ UNCHANGED <<excl_valid, latest>>
    BY <1>1, <1>7 DEF CompareAndSwap, Me
  <2>2. CASE cells[Me.cell] = Me.old
    <3>1. /\ cells' = [cells EXCEPT ![Me.cell] = Added(Me.old)]
          /\ ctx' = [Noticed(Me.cell) EXCEPT ![level] = Idle]
      BY <1>7, <2>2 DEF CompareAndSwap, Swapped
    <3>2. \A l \in 0 .. MaxLevel : ctx'[l] = Noticed(Me.cell)[l] \/ ctx'[l] = Idle
      BY <1>1, <3>1, NoticedContexts
    <3> QED
      BY <1>5, <2>1, <3>1, <3>2
  <2>3. CASE cells[Me.cell] # Me.old
    <3>1. cells' = cells /\ MyContext(Idle)
      BY <1>7, <2>3 DEF CompareAndSwap, Swapped, MyContext
    <3> QED
      BY <1>4, <2>1, <3>1, OneContext, Constants
  <2> QED
    BY <2>2, <2>3
<1>8. CASE LoadPlain
  <2>1. PICK c \in Counter : MyContext(AfterLoad("loaded", c))
    BY <1>8 DEF LoadPlain
  <2>2. \A l \in 0 .. MaxLevel : ctx'[l] = ctx[l] \/ ctx'[l].doing = "loaded"
    BY <2>1, OneContext, LoadedContext
  <2> QED
    BY <1>4, <1>8, <2>2 DEF LoadPlain
<1>9. CASE Return
  BY <1>4, <1>9, OneContext, Constants DEF Return
<1>10. CASE Interrupt
  BY <1>4, <1>10, Interrupted DEF Interrupt
<1>11. CASE TryLock \/ Unlock
  <2>1. ctx' = ctx /\ UNCHANGED <<excl_valid, latest>> /\ holds[level] \subseteq Lock
    BY <1>1, <1>11 DEF TryLock, Unlock, AtomicTypeOK
  <2>2. PICK c \in Lock, v \in {0, 1} : cells' = [cells EXCEPT ![c] = v]
    BY <1>11, <2>1 DEF TryLock, Unlock
  <2>3. \A d \in Counter : cells'[d] = cells[d]
    BY <1>1, <2>2, Constants
  <2> QED
    BY <1>1, <1>4, <2>1, <2>3
<1> QED
  BY <1>2, <1>3, <1>6, <1>7, <1>8, <1>9, <1>10, <1>11 DEF AtomicNext

(* A successful SC that is not Blind adds to what its LR has read, and CAS   *)
(* to what it expects.                                                      *)
LEMMA CountStep ==
  ASSUME AtomicTypeOK, ReservationInv, NoUpdateIsLost, AtomicNext
  PROVE  NoUpdateIsLost'
<1>1. /\ level \in 0 .. MaxLevel /\ Counter \subseteq Cell
      /\ cells \in [Cell -> 0 .. WordMod - 1] /\ due \in [Cell -> 0 .. WordMod - 1]
      /\ Me.doing # "nothing" => Me.cell \in Counter
  BY Constants DEF AtomicTypeOK, Me
<1>2. ASSUME NEW c \in Cell, NEW v,
             cells' = [cells EXCEPT ![c] = v] /\ due' = [due EXCEPT ![c] = v]
      PROVE  NoUpdateIsLost'
  BY <1>1, <1>2 DEF NoUpdateIsLost
<1>3. ASSUME UNCHANGED <<cells, due>> PROVE NoUpdateIsLost'
  BY <1>3 DEF NoUpdateIsLost
<1>4. CASE StoreConditional
  <2>1. Me.cell \in Counter /\ Me.cell \in Cell
    BY <1>1, <1>4 DEF StoreConditional
  <2>2. CASE Matches(Me.cell) /\ Blind
    BY <1>2, <1>4, <2>1, <2>2 DEF StoreConditional
  <2>3. CASE Matches(Me.cell) /\ ~Blind
    <3>1. latest = level /\ ~Me.stored
      BY <2>3 DEF Blind, Matches, ReservationInv
    <3>2. cells[Me.cell] = Me.old /\ due[Me.cell] = Me.old
      BY <1>1, <1>4, <2>1, <3>1 DEF StoreConditional, ReservationInv, Me, NoUpdateIsLost
    <3>3. /\ cells' = [cells EXCEPT ![Me.cell] = Added(Me.old)]
          /\ due' = [due EXCEPT ![Me.cell] = Added(due[Me.cell])]
      BY <1>4, <2>3 DEF StoreConditional
    <3> QED
      BY <1>2, <2>1, <3>2, <3>3
  <2>4. CASE ~Matches(Me.cell)
    BY <1>3, <1>4, <2>4 DEF StoreConditional
  <2> QED
    BY <2>2, <2>3, <2>4
<1>5. CASE CompareAndSwap
  <2>1. Me.cell \in Counter /\ Me.cell \in Cell
    BY <1>1, <1>5 DEF CompareAndSwap
  <2>2. CASE cells[Me.cell] = Me.old
    <3>1. /\ cells' = [cells EXCEPT ![Me.cell] = Added(Me.old)]
          /\ due' = [due EXCEPT ![Me.cell] = Added(due[Me.cell])]
      BY <1>5, <2>2 DEF CompareAndSwap, Swapped
    <3>2. due[Me.cell] = Me.old
      BY <2>1, <2>2 DEF NoUpdateIsLost
    <3> QED
      BY <1>2, <2>1, <3>1, <3>2
  <2>3. CASE cells[Me.cell] # Me.old
    BY <1>3, <1>5, <2>3 DEF CompareAndSwap, Swapped
  <2> QED
    BY <2>2, <2>3
<1>6. CASE AtomicAdd
  <2>1. PICK c \in Counter : /\ cells' = [cells EXCEPT ![c] = Added(cells[c])]
                             /\ due' = [due EXCEPT ![c] = Added(due[c])]
    BY <1>6 DEF AtomicAdd
  <2> QED
    BY <1>1, <1>2, <2>1 DEF NoUpdateIsLost
<1>7. CASE SetBack
  BY <1>1, <1>2, <1>7 DEF SetBack
<1>8. CASE TryLock \/ Unlock
  <2>1. due' = due /\ holds[level] \subseteq Lock
    BY <1>1, <1>8 DEF TryLock, Unlock, AtomicTypeOK
  <2>2. PICK c \in Lock, v \in {0, 1} : cells' = [cells EXCEPT ![c] = v]
    BY <1>8, <2>1 DEF TryLock, Unlock
  <2>3. \A d \in Counter : cells'[d] = cells[d]
    BY <1>1, <2>2, Constants
  <2> QED
    BY <2>1, <2>3 DEF NoUpdateIsLost
<1>9. CASE LoadReserved \/ LoadPlain \/ Interrupt \/ Return
  BY <1>3, <1>9 DEF LoadReserved, LoadPlain, Interrupt, Return
<1> QED
  BY <1>4, <1>5, <1>6, <1>7, <1>8, <1>9 DEF AtomicNext

(* Only SC clears a reservation, and then its own context has none left.    *)
LEMMA UndisturbedStep ==
  ASSUME AtomicTypeOK, LevelsInv, UndisturbedSucceeds, AtomicNext
  PROVE  UndisturbedSucceeds'
<1>1. level \in 0 .. MaxLevel /\ MaxLevel \in Nat
  BY Constants DEF AtomicTypeOK
<1>2. CASE LoadReserved
  <2>1. PICK c \in Counter : MyContext(AfterLoad("reserved", c)) /\ Reserve(c)
    BY <1>2 DEF LoadReserved
  <2>2. \A l \in 0 .. MaxLevel : l # level => ~ctx'[l].undisturbed \/ ctx'[l].doing = "nothing"
    BY <1>1, <2>1, OneContext DEF LevelsInv
  <2>3. ctx'[level].cell = c
    BY <1>1, <2>1, OneContext, LoadedContext
  <2> QED
    BY <2>1, <2>2, <2>3 DEF Reserve, UndisturbedSucceeds
<1>3. CASE StoreConditional
  <2>1. \A l \in 0 .. MaxLevel : ~ctx'[l].undisturbed \/ ctx'[l].doing = "nothing"
    BY <1>1, <1>3, OneContext, Constants DEF StoreConditional, LevelsInv
  <2> QED
    BY <2>1 DEF UndisturbedSucceeds
<1>4. ASSUME UNCHANGED <<excl_valid, excl_line>>,
             \A l \in 0 .. MaxLevel : Goes(l) \/ ctx'[l].doing # "reserved"
      PROVE  UndisturbedSucceeds'
  BY <1>4 DEF Goes, UndisturbedSucceeds
<1>5. CASE ~LoadReserved /\ ~StoreConditional
  <2>1. UNCHANGED <<excl_valid, excl_line>>
    BY <1>5 DEF AtomicNext, LoadPlain, CompareAndSwap, AtomicAdd, SetBack, TryLock, Unlock,
                Interrupt, Return
  <2>2. CASE LoadPlain
    <3>1. PICK c \in Counter : MyContext(AfterLoad("loaded", c))
      BY <2>2 DEF LoadPlain
    <3> QED
      BY <1>4, <2>1, <3>1, OneContext, LoadedContext DEF Goes
  <2>3. CASE ~LoadPlain
    <3>1. \A l \in 0 .. MaxLevel : Goes(l) \/ ctx'[l] = Idle
      BY <1>5, <2>3, ContextsStep
    <3> QED
      BY <1>4, <2>1, <3>1, Constants
  <2> QED
    BY <2>2, <2>3
<1> QED
  BY <1>2, <1>3, <1>5

(* A swap that brings back 0 found the lock free. *)
LEMMA LockStep ==
  ASSUME AtomicTypeOK, LockHasOneHolder, AtomicNext
  PROVE  LockHasOneHolder'
<1>1. level \in 0 .. MaxLevel /\ Lock \subseteq Cell
  BY Constants DEF AtomicTypeOK
<1>2. CASE TryLock
  <2>1. PICK c \in Lock :
          /\ cells' = [cells EXCEPT ![c] = 1]
          /\ holds' = [holds EXCEPT ![level] = IF cells[c] = 0 THEN @ \cup {c} ELSE @]
    BY <1>2 DEF TryLock, SwapResult
  <2>2. \A d \in Lock : cells'[d] = IF d = c THEN 1 ELSE cells[d]
    BY <1>1, <2>1 DEF AtomicTypeOK
  <2>3. \A l \in 0 .. MaxLevel, d \in Lock :
          d \in holds'[l] <=> d \in holds[l] \/ (l = level /\ d = c /\ cells[c] = 0)
    BY <1>1, <2>1 DEF AtomicTypeOK
  <2> QED
    BY <1>1, <2>2, <2>3 DEF LockHasOneHolder
<1>3. CASE Unlock
  <2>1. PICK c \in holds[level] :
          /\ cells' = [cells EXCEPT ![c] = 0]
          /\ holds' = [holds EXCEPT ![level] = @ \ {c}]
    BY <1>3 DEF Unlock
  <2>2. c \in Lock
    BY <1>1 DEF AtomicTypeOK
  <2>3. \A d \in Lock : cells'[d] = IF d = c THEN 0 ELSE cells[d]
    BY <1>1, <2>1 DEF AtomicTypeOK
  <2>4. \A l \in 0 .. MaxLevel, d \in Lock :
          d \in holds'[l] <=> d \in holds[l] /\ ~(l = level /\ d = c)
    BY <1>1, <2>1 DEF AtomicTypeOK
  <2> QED
    BY <1>1, <2>2, <2>3, <2>4 DEF LockHasOneHolder
<1>4. CASE LoadReserved \/ LoadPlain \/ Interrupt \/ Return
  BY <1>4 DEF LoadReserved, LoadPlain, Interrupt, Return, LockHasOneHolder
<1>5. CASE StoreConditional \/ CompareAndSwap \/ AtomicAdd \/ SetBack
  <2>1. holds' = holds /\ \A c \in Lock : cells'[c] = cells[c]
    <3>1. Me.doing # "nothing" => Me.cell \in Counter
      BY <1>1 DEF AtomicTypeOK, Me
    <3> QED
      BY <1>1, <1>5, <3>1, AtomicsAssumption
      DEF AtomicTypeOK, StoreConditional, CompareAndSwap, Swapped, AtomicAdd, SetBack
  <2> QED
    BY <2>1 DEF LockHasOneHolder
<1> QED
  BY <1>2, <1>3, <1>4, <1>5 DEF AtomicNext

(* The inductive invariant holds at first. *)
LEMMA AtomicBegins == AtomicInit => AtomicInv
<1> SUFFICES ASSUME AtomicInit PROVE AtomicInv
  OBVIOUS
<1>1. level = 0 /\ \A l \in 0 .. MaxLevel : ctx[l] = Idle /\ holds[l] = {}
  BY DEF AtomicInit
<1>2. \A l \in 0 .. MaxLevel : ctx[l].doing = "nothing"
  BY <1>1, Constants
<1>3. LevelsInv /\ ReservationInv /\ UndisturbedSucceeds
  BY <1>1, <1>2, Constants
  DEF AtomicInit, LevelsInv, ReservationInv, UndisturbedSucceeds
<1>4. NoUpdateIsLost /\ LockHasOneHolder
  BY <1>1, Constants DEF AtomicInit, NoUpdateIsLost, LockHasOneHolder
<1> QED
  BY <1>3, <1>4, TypeInductive DEF AtomicInv

(* Every step keeps it. *)
LEMMA AtomicKeeps == AtomicInv /\ [AtomicNext]_atomicVars => AtomicInv'
<1>1. ASSUME AtomicInv, AtomicNext PROVE AtomicInv'
  BY <1>1, TypeInductive, LevelsStep, ReservationStep, CountStep, UndisturbedStep, LockStep
  DEF AtomicInv
<1>2. ASSUME AtomicInv, UNCHANGED atomicVars PROVE AtomicInv'
  <2>1. AtomicTypeOK'
    BY <1>2, TypeInductive DEF AtomicInv
  <2> QED
    BY <1>2, <2>1
    DEF AtomicInv, atomicVars, LevelsInv, ReservationInv, NoUpdateIsLost,
        UndisturbedSucceeds, LockHasOneHolder
<1> QED
  BY <1>1, <1>2

(* Every reachable state satisfies the inductive invariant. *)
LEMMA AtomicInductive == AtomicSpec => []AtomicInv
  BY AtomicBegins, AtomicKeeps, PTL DEF AtomicSpec

(* The variables keep their types, whatever the contexts interrupt. *)
THEOREM AtomicTypesHold == AtomicSpec => []AtomicTypeOK
<1>1. AtomicInv => AtomicTypeOK
  BY DEF AtomicInv
<1> QED
  BY <1>1, AtomicInductive, PTL

(* For any number of handlers that interrupt one another, and for LR and SC, *)
(* CAS, LW.ADD and stores on the same cells in any order: an addition is      *)
(* lost by a Blind SC alone, one that follows a store without SC to the cell  *)
(* or finds the reservation of an LR that another has left behind.  That      *)
(* these do lose additions is what ExclusiveIsAtomic shows.                   *)
THEOREM UpdatesAreCounted == AtomicSpec => []NoUpdateIsLost
<1>1. AtomicInv => NoUpdateIsLost
  BY DEF AtomicInv
<1> QED
  BY <1>1, AtomicInductive, PTL

(* An LR that nothing interrupts until its SC makes it succeed. *)
THEOREM UndisturbedStoresSucceed == AtomicSpec => []UndisturbedSucceeds
<1>1. AtomicInv => UndisturbedSucceeds
  BY DEF AtomicInv
<1> QED
  BY <1>1, AtomicInductive, PTL

(* SWAP gives a lock to one of task and handlers at a time. *)
THEOREM LocksExclude == AtomicSpec => []LockHasOneHolder
<1>1. AtomicInv => LockHasOneHolder
  BY DEF AtomicInv
<1> QED
  BY <1>1, AtomicInductive, PTL

-----------------------------------------------------------------------------
(* Vector queues: numbers.                                                  *)

(* Multiples of m are m apart.                                              *)
LEMMA MultiplesAreApart ==
  ASSUME NEW m \in Nat \ {0}, NEW a \in Int, NEW b \in Int
  PROVE  /\ m * a \in Int /\ m * b \in Int
         /\ a < b => m * a + m <= m * b
<1>1. m * a \in Int /\ m * b \in Int
  OBVIOUS
<1>2. ASSUME a < b PROVE m * a + m <= m * b
  <2>1. PICK k \in Nat : b = a + 1 + k
    <3>1. b - a - 1 \in Nat /\ b = a + 1 + (b - a - 1)
      BY <1>2
    <3> QED
      BY <3>1
  <2>2. m * b = m * a + m + m * k
    BY <2>1
  <2>3. m * k \in Nat
    OBVIOUS
  <2> QED
    BY <1>1, <2>2, <2>3
<1> QED
  BY <1>1, <1>2

(* Quotient and remainder.                                                  *)
LEMMA Divided ==
  ASSUME NEW m \in Nat \ {0}, NEW n \in Nat
  PROVE  /\ n \div m \in Nat /\ n % m \in 0 .. m - 1
         /\ n = m * (n \div m) + (n % m)
OBVIOUS

(* A number below m that is congruent to n is its remainder.                *)
LEMMA RemainderIsUnique ==
  ASSUME NEW m \in Nat \ {0}, NEW n \in Nat, NEW q \in Int, NEW r \in 0 .. m - 1, n = m * q + r
  PROVE  n % m = r
<1>1. PICK d \in Nat, s \in 0 .. m - 1 : n % m = s /\ n = m * d + s
  BY Divided
<1> DEFINE left == m * d
           right == m * q
<1>2. /\ left \in Int /\ right \in Int
      /\ d < q => left + m <= right
      /\ q < d => right + m <= left
  BY <1>1, MultiplesAreApart
<1>3. n = left + s /\ n = right + r
  BY <1>1
<1>4. d = q => left = right
  OBVIOUS
<1> HIDE DEF left, right
<1>5. ~(d < q)
  BY <1>1, <1>2, <1>3
<1>6. ~(q < d)
  BY <1>1, <1>2, <1>3
<1>7. d \in Int /\ q \in Int
  BY <1>1
<1>8. d = q
  BY <1>5, <1>6, <1>7
<1> QED
  BY <1>1, <1>2, <1>3, <1>4, <1>8

(* The slot that x names in a ring of c slots, when it is less than two     *)
(* rounds from the first.                                                   *)
Slot(x, c) == IF x < c THEN x ELSE x - c

(* Below two rounds, the remainder is a subtraction.                        *)
LEMMA WrapsOnce ==
  ASSUME NEW c \in Nat \ {0}, NEW x \in 0 .. 2 * c - 1
  PROVE  x % c = Slot(x, c) /\ Slot(x, c) \in 0 .. c - 1
<1>1. CASE x < c
  <2>1. x = c * 0 + x /\ x \in 0 .. c - 1 /\ x \in Nat
    BY <1>1
  <2> QED
    BY <1>1, <2>1, RemainderIsUnique DEF Slot
<1>2. CASE ~(x < c)
  <2>1. x = c * 1 + (x - c) /\ x - c \in 0 .. c - 1 /\ x \in Nat
    BY <1>2
  <2> QED
    BY <1>2, <2>1, RemainderIsUnique DEF Slot
<1> QED
  BY <1>1, <1>2

(* Reducing one term of a sum does not change its remainder.                *)
LEMMA SumReduced ==
  ASSUME NEW c \in Nat \ {0}, NEW a \in Nat, NEW b \in Nat
  PROVE  (a + b) % c = ((a % c) + b) % c
<1>1. PICK d \in Nat, s \in 0 .. c - 1 : a % c = s /\ a = c * d + s
  BY Divided
<1>2. s + b \in Nat
  OBVIOUS
<1>3. PICK e \in Nat, t \in 0 .. c - 1 : (s + b) % c = t /\ s + b = c * e + t
  BY <1>2, Divided
<1>4. a + b = c * (d + e) + t
  <2>1. c * (d + e) = c * d + c * e
    OBVIOUS
  <2>2. c * d \in Int /\ c * e \in Int
    OBVIOUS
  <2> QED
    BY <1>1, <1>3, <2>1, <2>2
<1>5. a + b \in Nat /\ d + e \in Int
  OBVIOUS
<1>6. (a + b) % c = t
  BY <1>4, <1>5, RemainderIsUnique
<1> QED
  BY <1>1, <1>3, <1>6

(* A ring in memory: any words in its header, and words in the slots that   *)
(* were written.                                                            *)
RingType == [head : Nat, tail : Nat, cap : Nat, data : UNION {[S -> Word] : S \in SUBSET Nat}]

(* How many elements lie between two slots.                                 *)
Between(h, t, c) == IF t < h THEN t - h + c ELSE t - h

(* A slot holds a word, written or not.                                     *)
LEMMA DataAreWords ==
  ASSUME NEW r \in RingType, NEW slot
  PROVE  At(r, slot) \in Word
<1>1. PICK S \in SUBSET Nat : r.data \in [S -> Word]
  BY DEF RingType
<1>2. 0 \in Word
  BY QueueAssumption
<1> QED
  BY <1>1, <1>2 DEF At

(* The elements of a ring, whatever words its header had. *)
LEMMA ElementsOf ==
  ASSUME NEW r \in RingType, NEW c \in Nat \ {0}, r.cap = c
  PROVE  \E h, t \in 0 .. c - 1 :
           /\ h = r.head % c /\ t = r.tail % c
           /\ Used(r) = Between(h, t, c)
           /\ Between(h, t, c) \in 0 .. c - 1
           /\ ContentsOf(r) = [n \in 1 .. Between(h, t, c) |-> At(r, Slot(h + n - 1, c))]
           /\ Full(r) <=> Slot(t + 1, c) = h
           /\ NextTail(r) = Slot(t + 1, c)
           /\ Empty(r) <=> h = t
           /\ (r.head + 1) % c = Slot(h + 1, c)
<1>1. r.head \in Nat /\ r.tail \in Nat
  BY DEF RingType
<1>2. PICK h \in 0 .. c - 1, t \in 0 .. c - 1 : h = r.head % c /\ t = r.tail % c
  BY <1>1, Divided
<1> DEFINE x == (t - h) + c
<1>3. x \in 0 .. 2 * c - 1 /\ Slot(x, c) = Between(h, t, c)
  BY DEF Slot, Between
<1>4. x % c = Between(h, t, c) /\ Between(h, t, c) \in 0 .. c - 1
  BY <1>3, WrapsOnce
<1>5. Used(r) = Between(h, t, c)
  BY <1>2, <1>4 DEF Used
<1>6. ASSUME NEW n \in 1 .. Between(h, t, c)
      PROVE  (r.head + n - 1) % c = Slot(h + n - 1, c)
  <2>1. n - 1 \in Nat /\ n <= c - 1 /\ n \in Int
    BY <1>4
  <2>2. r.head + n - 1 = r.head + (n - 1) /\ h + n - 1 = h + (n - 1)
    BY <1>1, <2>1
  <2>3. (r.head + (n - 1)) % c = (h + (n - 1)) % c
    BY <1>1, <1>2, <2>1, SumReduced
  <2>4. h + (n - 1) \in 0 .. 2 * c - 1
    BY <2>1
  <2> QED
    BY <2>2, <2>3, <2>4, WrapsOnce
<1>7. ContentsOf(r) = [n \in 1 .. Between(h, t, c) |-> At(r, Slot(h + n - 1, c))]
  <2>1. \A n \in 1 .. Between(h, t, c) : At(r, (r.head + n - 1) % r.cap) = At(r, Slot(h + n - 1, c))
    BY <1>6
  <2> QED
    BY <1>5, <2>1 DEF ContentsOf
<1>8. NextTail(r) = Slot(t + 1, c) /\ (r.head + 1) % c = Slot(h + 1, c)
  <2>1. (r.tail + 1) % c = (t + 1) % c /\ (r.head + 1) % c = (h + 1) % c
    BY <1>1, <1>2, SumReduced
  <2>2. t + 1 \in 0 .. 2 * c - 1 /\ h + 1 \in 0 .. 2 * c - 1
    OBVIOUS
  <2> QED
    BY <2>1, <2>2, WrapsOnce DEF NextTail
<1>9. (Full(r) <=> Slot(t + 1, c) = h) /\ (Empty(r) <=> h = t)
  BY <1>2, <1>8 DEF Full, Empty
<1> QED
  BY <1>2, <1>4, <1>5, <1>7, <1>8, <1>9

Capacity(r) == IF r.cap = 0 THEN 0 ELSE r.cap - 1

(* The elements are words, at most as many as the capacity allows; Full and *)
(* Empty say when there are as many as that and none.                       *)
LEMMA ContentsAreWords ==
  ASSUME NEW r \in RingType
  PROVE  /\ ContentsOf(r) \in Seq(Word)
         /\ Len(ContentsOf(r)) <= Capacity(r) /\ Capacity(r) \in Nat
         /\ Full(r) <=> Len(ContentsOf(r)) = Capacity(r)
         /\ Empty(r) <=> Len(ContentsOf(r)) = 0
<1>1. r.cap \in Nat
  BY DEF RingType
<1>2. \A n \in Nat : \A f : (f = [k \in 1 .. n |-> f[k]] /\ \A k \in 1 .. n : f[k] \in Word)
        => f \in Seq(Word) /\ Len(f) = n
  OBVIOUS
<1>3. CASE r.cap = 0
  <2>1. Used(r) = 0 /\ Full(r) /\ Empty(r) /\ Capacity(r) = 0
    BY <1>3 DEF Used, Full, Empty, Capacity
  <2>2. ContentsOf(r) = << >>
    BY <2>1 DEF ContentsOf
  <2> QED
    BY <2>1, <2>2
<1>4. CASE r.cap # 0
  <2>1. PICK c \in Nat \ {0} : r.cap = c
    BY <1>1, <1>4
  <2>2. PICK h \in 0 .. c - 1, t \in 0 .. c - 1 :
           /\ Between(h, t, c) \in 0 .. c - 1
           /\ ContentsOf(r) = [n \in 1 .. Between(h, t, c) |-> At(r, Slot(h + n - 1, c))]
           /\ Full(r) <=> Slot(t + 1, c) = h
           /\ Empty(r) <=> h = t
    BY <2>1, ElementsOf
  <2>3. PICK u \in Nat : u = Between(h, t, c) /\ u <= c - 1
    BY <2>2
  <2>4. ContentsOf(r) \in Seq(Word) /\ Len(ContentsOf(r)) = u
    <3>1. ContentsOf(r) = [n \in 1 .. u |-> At(r, Slot(h + n - 1, c))]
      BY <2>2, <2>3
    <3>2. \A n \in 1 .. u : At(r, Slot(h + n - 1, c)) \in Word
      BY DataAreWords
    <3> QED
      BY <3>1, <3>2
  <2>5. Capacity(r) = c - 1
    BY <2>1 DEF Capacity
  <2>6. Slot(t + 1, c) = h <=> u = c - 1
    BY <2>3 DEF Slot, Between
  <2>7. h = t <=> u = 0
    BY <2>3 DEF Between
  <2> QED
    BY <2>2, <2>3, <2>4, <2>5, <2>6, <2>7
<1> QED
  BY <1>3, <1>4

(* A tail that advances, a head that does, and the slots between.           *)
LEMMA TailAdvances ==
  ASSUME NEW c \in Nat \ {0}, NEW h \in 0 .. c - 1, NEW t \in 0 .. c - 1, Slot(t + 1, c) # h
  PROVE  /\ Slot(t + 1, c) \in 0 .. c - 1
         /\ Between(h, Slot(t + 1, c), c) = Between(h, t, c) + 1
         /\ Slot(h + Between(h, t, c), c) = t
         /\ \A n \in 1 .. Between(h, t, c) : Slot(h + n - 1, c) # t
BY DEF Slot, Between

(* A head that advances leaves the slots behind it as they were numbered.   *)
LEMMA HeadAdvances ==
  ASSUME NEW c \in Nat \ {0}, NEW h \in 0 .. c - 1, NEW t \in 0 .. c - 1, h # t
  PROVE  /\ Slot(h + 1, c) \in 0 .. c - 1
         /\ Between(Slot(h + 1, c), t, c) = Between(h, t, c) - 1
         /\ Between(h, t, c) - 1 \in Nat
         /\ \A n \in 1 .. Between(h, t, c) - 1 :
              Slot(Slot(h + 1, c) + n - 1, c) = Slot(h + (n + 1) - 1, c)
BY DEF Slot, Between

(* Sequences with the same elements are one.                                *)
LEMMA SameSequence ==
  ASSUME NEW S, NEW a \in Seq(S), NEW b \in Seq(S), NEW n \in Nat, Len(a) = n, Len(b) = n,
         \A i \in 1 .. n : a[i] = b[i]
  PROVE  a = b
OBVIOUS

(* A sequence with one element more.                                        *)
LEMMA AppendedSequence ==
  ASSUME NEW S, NEW a \in Seq(S), NEW b \in Seq(S), NEW v \in S, NEW n \in Nat,
         Len(a) = n, Len(b) = n + 1,
         \A i \in 1 .. n : b[i] = a[i], b[n + 1] = v
  PROVE  b = Append(a, v)
<1>1. /\ Append(a, v) \in Seq(S) /\ Len(Append(a, v)) = n + 1
      /\ Append(a, v)[n + 1] = v /\ \A i \in 1 .. n : Append(a, v)[i] = a[i]
  OBVIOUS
<1>2. \A i \in 1 .. n + 1 : b[i] = Append(a, v)[i]
  BY <1>1
<1> QED
  BY <1>1, <1>2, SameSequence

(* A sequence without its first element.                                    *)
LEMMA TailSequence ==
  ASSUME NEW S, NEW a \in Seq(S), NEW b \in Seq(S), NEW n \in Nat \ {0},
         Len(a) = n, Len(b) = n - 1,
         \A i \in 1 .. n - 1 : b[i] = a[i + 1]
  PROVE  b = Tail(a)
<1>1. /\ Tail(a) \in Seq(S) /\ Len(Tail(a)) = n - 1
      /\ \A i \in 1 .. n - 1 : Tail(a)[i] = a[i + 1]
  OBVIOUS
<1>2. n - 1 \in Nat
  OBVIOUS
<1> QED
  BY <1>1, <1>2, SameSequence

(* A sequence of the elements of r from slot h on.                          *)
Elem(r, h, c, k) == At(r, Slot(h + k - 1, c))
IsFrom(f, r, h, c, n) == f = [k \in 1 .. n |-> Elem(r, h, c, k)]

(* Its length and elements.                                                 *)
LEMMA ElementsFrom ==
  ASSUME NEW r, NEW h \in Int, NEW c \in Int, NEW n \in Nat, NEW f \in Seq(Word), IsFrom(f, r, h, c, n)
  PROVE  Len(f) = n /\ \A k \in 1 .. n : f[k] = Elem(r, h, c, k)
BY DEF IsFrom

(* One slot of a ring written, and its tail advanced. *)
Written(r, slot, v, tail) == [r EXCEPT !.data = Put(r, slot, v), !.tail = tail]

Overwrites(s, r, slot, v) ==
  At(s, slot) = v /\ \A x \in Int : x # slot => At(s, x) = At(r, x)

(* Only the slot written changes.                                           *)
LEMMA PushedRing ==
  ASSUME NEW r \in RingType, NEW v \in Word, NEW slot \in Nat, NEW tail \in Nat,
         NEW s, s = Written(r, slot, v, tail)
  PROVE  /\ s \in RingType /\ s.cap = r.cap /\ s.head = r.head /\ s.tail = tail
         /\ Overwrites(s, r, slot, v)
<1>1. PICK S \in SUBSET Nat : r.data \in [S -> Word]
  BY DEF RingType
<1> DEFINE T == S \cup {slot}
           d == Put(r, slot, v)
<1>2. d \in [T -> Word] /\ T \in SUBSET Nat /\ DOMAIN d = T /\ d[slot] = v
      /\ \A x \in S : x # slot => d[x] = r.data[x]
  BY <1>1 DEF Put
<1>3. d \in UNION {[X -> Word] : X \in SUBSET Nat}
  BY <1>2
<1> HIDE DEF d, T
<1>4. s = [r EXCEPT !.data = d, !.tail = tail]
  BY DEF d, Written
<1>5. s \in RingType /\ s.cap = r.cap /\ s.head = r.head /\ s.tail = tail /\ s.data = d
  BY <1>3, <1>4 DEF RingType
<1>6. At(s, slot) = v
  BY <1>2, <1>5 DEF At, T
<1>7. \A x \in Int : x # slot => At(s, x) = At(r, x)
  BY <1>1, <1>2, <1>5 DEF At, T
<1> QED
  BY <1>5, <1>6, <1>7 DEF Overwrites

(* A lane that finds room appends its word (exec_v_qpush).                  *)
LEMMA PushAppends ==
  ASSUME NEW r \in RingType, NEW v \in Word, ~Full(r)
  PROVE  /\ LanePush(r, v).told = 1
         /\ LanePush(r, v).ring \in RingType /\ LanePush(r, v).ring.cap = r.cap
         /\ ContentsOf(LanePush(r, v).ring) = Append(ContentsOf(r), v)
<1>1. PICK c \in Nat \ {0} : r.cap = c
  BY DEF Full, RingType
<1>2. PICK h \in 0 .. c - 1, t \in 0 .. c - 1 :
           /\ h = r.head % c /\ t = r.tail % c
           /\ Between(h, t, c) \in 0 .. c - 1
           /\ IsFrom(ContentsOf(r), r, h, c, Between(h, t, c))
           /\ Full(r) <=> Slot(t + 1, c) = h
           /\ NextTail(r) = Slot(t + 1, c)
  BY <1>1, ElementsOf DEF IsFrom, Elem
<1>3. PICK u \in Nat : u = Between(h, t, c) /\ u <= c - 1
  BY <1>2
<1>4. PICK w \in 0 .. c - 1 : w = Slot(t + 1, c) /\ Between(h, w, c) = u + 1
  BY <1>2, <1>3, TailAdvances
<1> DEFINE s == LanePush(r, v).ring
<1>5. s = Written(r, t, v, w) /\ LanePush(r, v).told = 1
  BY <1>1, <1>2, <1>4 DEF LanePush, Written
<1> HIDE DEF s
<1>6. /\ s \in RingType /\ s.cap = c /\ s.head = r.head /\ s.tail = w
      /\ Overwrites(s, r, t, v)
  <2>1. PICK slot \in Nat, tail \in Nat : slot = t /\ tail = w
    OBVIOUS
  <2>2. s = Written(r, slot, v, tail)
    BY <1>5, <2>1
  <2>3. /\ s \in RingType /\ s.cap = r.cap /\ s.head = r.head /\ s.tail = tail
        /\ Overwrites(s, r, slot, v)
    BY <2>2, PushedRing
  <2> QED
    BY <1>1, <2>1, <2>3
<1>7. w % c = w
  <2>1. w \in 0 .. 2 * c - 1 /\ Slot(w, c) = w
    BY DEF Slot
  <2> QED
    BY <2>1, WrapsOnce
<1>8. IsFrom(ContentsOf(s), s, h, c, u + 1)
  <2>1. PICK a \in 0 .. c - 1, b \in 0 .. c - 1 :
          /\ a = s.head % c /\ b = s.tail % c
          /\ IsFrom(ContentsOf(s), s, a, c, Between(a, b, c))
    BY <1>6, ElementsOf DEF IsFrom, Elem
  <2>2. a = h /\ b = w
    BY <1>2, <1>6, <1>7, <2>1
  <2> QED
    BY <1>4, <2>1, <2>2
<1>9. \A n \in 1 .. u : Elem(s, h, c, n) = Elem(r, h, c, n)
  <2> TAKE n \in 1 .. u
  <2>1. PICK x \in Int : x = Slot(h + n - 1, c) /\ x # t
    <3>1. Slot(h + n - 1, c) # t
      BY <1>2, <1>3, TailAdvances
    <3>2. Slot(h + n - 1, c) \in Int
      BY DEF Slot
    <3> QED
      BY <3>1, <3>2
  <2>2. At(s, x) = At(r, x)
    BY <1>6, <2>1 DEF Overwrites
  <2> QED
    BY <2>1, <2>2 DEF Elem
<1>10. Elem(s, h, c, u + 1) = v
  <2>1. Slot(h + u, c) = t /\ h + (u + 1) - 1 = h + u
    BY <1>2, <1>3, TailAdvances
  <2>2. At(s, t) = v
    BY <1>6 DEF Overwrites
  <2> QED
    BY <2>1, <2>2 DEF Elem
<1> DEFINE old == ContentsOf(r)
           new == ContentsOf(s)
<1>11. old \in Seq(Word) /\ Len(old) = u /\ \A n \in 1 .. u : old[n] = Elem(r, h, c, n)
  <2>1. IsFrom(old, r, h, c, u)
    BY <1>2, <1>3
  <2>2. old \in Seq(Word)
    BY ContentsAreWords
  <2> HIDE DEF old
  <2> QED
    BY <2>1, <2>2, ElementsFrom
<1>12. new \in Seq(Word) /\ Len(new) = u + 1
       /\ \A n \in 1 .. u + 1 : new[n] = Elem(s, h, c, n)
  <2>1. new \in Seq(Word) /\ IsFrom(new, s, h, c, u + 1)
    BY <1>6, <1>8, ContentsAreWords
  <2> HIDE DEF new
  <2> QED
    BY <2>1, ElementsFrom
<1> HIDE DEF old, new
<1>13. \A n \in 1 .. u : new[n] = old[n]
  BY <1>9, <1>11, <1>12
<1>14. new[u + 1] = v
  BY <1>10, <1>12
<1>15. new = Append(old, v)
  BY <1>11, <1>12, <1>13, <1>14, AppendedSequence
<1> QED
  BY <1>1, <1>5, <1>6, <1>15 DEF s, old, new

(* A lane that finds an element takes the oldest (exec_v_qpop).             *)
LEMMA PopTakesHead ==
  ASSUME NEW r \in RingType, ~Empty(r)
  PROVE  /\ LanePop(r).told = ContentsOf(r)[1]
         /\ LanePop(r).ring \in RingType /\ LanePop(r).ring.cap = r.cap
         /\ ContentsOf(LanePop(r).ring) = Tail(ContentsOf(r))
<1>1. PICK c \in Nat \ {0} : r.cap = c
  BY DEF Empty, RingType
<1>2. PICK h \in 0 .. c - 1, t \in 0 .. c - 1 :
           /\ h = r.head % c /\ t = r.tail % c
           /\ Between(h, t, c) \in 0 .. c - 1
           /\ IsFrom(ContentsOf(r), r, h, c, Between(h, t, c))
           /\ Empty(r) <=> h = t
           /\ (r.head + 1) % c = Slot(h + 1, c)
  BY <1>1, ElementsOf DEF IsFrom, Elem
<1>3. PICK u \in Nat : u = Between(h, t, c) /\ u <= c - 1
  BY <1>2
<1>4. PICK g \in 0 .. c - 1 : g = Slot(h + 1, c) /\ Between(g, t, c) = u - 1 /\ u - 1 \in Nat
  BY <1>2, <1>3, HeadAdvances
<1> DEFINE s == LanePop(r).ring
<1>5. s = [r EXCEPT !.head = g] /\ LanePop(r).told = At(r, h)
  BY <1>1, <1>2, <1>4 DEF LanePop
<1> HIDE DEF s
<1>6. /\ s \in RingType /\ s.cap = c /\ s.head = g /\ s.tail = r.tail
      /\ \A x \in Int : At(s, x) = At(r, x)
  BY <1>1, <1>5 DEF RingType, At
<1>7. g % c = g
  <2>1. g \in 0 .. 2 * c - 1 /\ Slot(g, c) = g
    BY DEF Slot
  <2> QED
    BY <2>1, WrapsOnce
<1>8. IsFrom(ContentsOf(s), s, g, c, u - 1)
  <2>1. PICK a \in 0 .. c - 1, b \in 0 .. c - 1 :
          /\ a = s.head % c /\ b = s.tail % c
          /\ IsFrom(ContentsOf(s), s, a, c, Between(a, b, c))
    BY <1>6, ElementsOf DEF IsFrom, Elem
  <2>2. a = g /\ b = t
    BY <1>2, <1>6, <1>7, <2>1
  <2> QED
    BY <1>4, <2>1, <2>2
<1>9. \A n \in 1 .. u - 1 : Slot(g + n - 1, c) = Slot(h + (n + 1) - 1, c)
  <2>1. \A n \in 1 .. Between(h, t, c) - 1 :
          Slot(Slot(h + 1, c) + n - 1, c) = Slot(h + (n + 1) - 1, c)
    BY <1>2, <1>4, HeadAdvances
  <2> QED
    BY <1>3, <1>4, <2>1
<1> DEFINE old == ContentsOf(r)
           new == ContentsOf(s)
<1>11. old \in Seq(Word) /\ Len(old) = u /\ \A n \in 1 .. u : old[n] = Elem(r, h, c, n)
  <2>1. IsFrom(old, r, h, c, u)
    BY <1>2, <1>3
  <2>2. old \in Seq(Word)
    BY ContentsAreWords
  <2> HIDE DEF old
  <2> QED
    BY <2>1, <2>2, ElementsFrom
<1>12. new \in Seq(Word) /\ Len(new) = u - 1
       /\ \A n \in 1 .. u - 1 : new[n] = Elem(s, g, c, n)
  <2>1. new \in Seq(Word) /\ IsFrom(new, s, g, c, u - 1) /\ u - 1 \in Nat
    BY <1>4, <1>6, <1>8, ContentsAreWords
  <2> HIDE DEF new
  <2> QED
    BY <2>1, ElementsFrom
<1> HIDE DEF old, new
<1>13. \A n \in 1 .. u - 1 : new[n] = old[n + 1]
  <2> TAKE n \in 1 .. u - 1
  <2>1. n + 1 \in 1 .. u
    OBVIOUS
  <2>2. Elem(s, g, c, n) = Elem(r, h, c, n + 1)
    <3>1. PICK x \in Int : x = Slot(g + n - 1, c) /\ x = Slot(h + (n + 1) - 1, c)
      <4>1. Slot(g + n - 1, c) \in Int
        BY DEF Slot
      <4> QED
        BY <1>9, <4>1
    <3>2. At(s, x) = At(r, x)
      BY <1>6
    <3> QED
      BY <3>1, <3>2 DEF Elem
  <2> QED
    BY <1>11, <1>12, <2>1, <2>2
<1>14. new = Tail(old)
  <2>1. u \in Nat \ {0}
    BY <1>4
  <2> QED
    BY <1>11, <1>12, <1>13, <2>1, TailSequence
<1>15. At(r, h) = old[1]
  <2>1. 1 \in 1 .. u /\ h + 1 - 1 = h /\ Slot(h, c) = h
    BY <1>4 DEF Slot
  <2>2. Elem(r, h, c, 1) = At(r, h)
    BY <2>1 DEF Elem
  <2> QED
    BY <1>11, <2>1, <2>2
<1> QED
  BY <1>1, <1>5, <1>6, <1>14, <1>15 DEF s, old, new

(* A set of numbers that is not empty has a least one.                      *)
LEMMA LeastNatural ==
  ASSUME NEW T \in SUBSET Nat, T # {}
  PROVE  \E x \in T : \A y \in T : ~(y < x)
<1>1. PICK x \in T : \A y \in T : ~(<<y, x>> \in OpToRel(<, Nat))
  BY NatLessThanWellFounded, WFMin
<1>2. ASSUME NEW y \in T PROVE ~(y < x)
  BY <1>1, <1>2 DEF OpToRel
<1> QED
  BY <1>1, <1>2

(* The lanes before n that name queue q. *)
Before(at, q, n) == {j \in DOMAIN at : j < n /\ at[j] = q}
Count(at, q, n) == Cardinality(Before(at, q, n))

(* The lanes of an instruction, numbered from 0. *)
Aims(at) == \E p \in Nat : DOMAIN at \subseteq 0 .. p

(* One more lane.                                                           *)
LEMMA CountNext ==
  ASSUME NEW at, Aims(at), NEW q, NEW n \in Nat
  PROVE  /\ Count(at, q, n) \in Nat
         /\ Count(at, q, n + 1) =
              IF n \in DOMAIN at /\ at[n] = q THEN Count(at, q, n) + 1 ELSE Count(at, q, n)
<1>1. PICK p \in Nat : DOMAIN at \subseteq 0 .. p
  BY DEF Aims
<1>2. IsFiniteSet(0 .. p)
  BY FS_Interval
<1>3. IsFiniteSet(Before(at, q, n)) /\ n \notin Before(at, q, n)
  <2>1. Before(at, q, n) \subseteq 0 .. p
    BY <1>1 DEF Before
  <2> QED
    BY <1>2, <2>1, FS_Subset DEF Before
<1>4. CASE n \in DOMAIN at /\ at[n] = q
  <2>1. Before(at, q, n + 1) = Before(at, q, n) \cup {n}
    BY <1>1, <1>4 DEF Before
  <2> QED
    BY <1>3, <1>4, <2>1, FS_AddElement, FS_CardinalityType DEF Count
<1>5. CASE ~(n \in DOMAIN at /\ at[n] = q)
  <2>1. Before(at, q, n + 1) = Before(at, q, n)
    BY <1>1, <1>5 DEF Before
  <2> QED
    BY <1>3, <1>5, <2>1, FS_CardinalityType DEF Count
<1> QED
  BY <1>4, <1>5

(* No lane comes before the first.                                          *)
LEMMA CountOfNone ==
  ASSUME NEW at, Aims(at), NEW q
  PROVE  Count(at, q, 0) = 0
<1>1. Before(at, q, 0) = {}
  BY DEF Before, Aims
<1> QED
  BY <1>1, FS_EmptySet DEF Count

(* A lane counts for those after it.                                        *)
LEMMA CountGrows ==
  ASSUME NEW at, Aims(at), NEW q, NEW i \in Nat, NEW k \in Nat, i < k, i \in DOMAIN at, at[i] = q
  PROVE  Count(at, q, i) < Count(at, q, k)
<1>1. PICK p \in Nat : DOMAIN at \subseteq 0 .. p
  BY DEF Aims
<1>2. IsFiniteSet(Before(at, q, k))
  <2>1. Before(at, q, k) \subseteq 0 .. p
    BY <1>1 DEF Before
  <2>2. IsFiniteSet(0 .. p)
    BY FS_Interval
  <2> QED
    BY <2>1, <2>2, FS_Subset
<1>3. Before(at, q, i + 1) \subseteq Before(at, q, k)
  BY <1>1 DEF Before
<1>4. Count(at, q, i + 1) <= Count(at, q, k)
  BY <1>2, <1>3, FS_Subset DEF Count
<1>5. Count(at, q, i + 1) = Count(at, q, i) + 1 /\ Count(at, q, i) \in Nat
  BY CountNext
<1>6. Count(at, q, k) \in Nat
  BY CountNext
<1> QED
  BY <1>4, <1>5, <1>6

(* The number of lanes ahead of it tells a lane from the others that name   *)
(* its queue.                                                               *)
LEMMA LaneOfCount ==
  ASSUME NEW at, Aims(at), NEW i \in DOMAIN at, NEW q, at[i] = q
  PROVE  (CHOOSE j \in DOMAIN at : at[j] = q /\ Count(at, at[j], j) = Count(at, q, i)) = i
<1> DEFINE Is(j) == at[j] = q /\ Count(at, at[j], j) = Count(at, q, i)
<1>1. \A j \in DOMAIN at : j \in Nat
  BY DEF Aims
<1>2. ASSUME NEW j \in DOMAIN at, Is(j) PROVE j = i
  <2>1. Count(at, q, j) = Count(at, q, i) /\ Count(at, q, i) \in Nat
    BY <1>1, <1>2, CountNext
  <2>2. ~(i < j) /\ ~(j < i)
    BY <1>1, <1>2, <2>1, CountGrows
  <2> QED
    BY <1>1, <2>2
<1>3. Is(i)
  OBVIOUS
<1> HIDE DEF Is
<1>4. (CHOOSE j \in DOMAIN at : Is(j)) = i
  BY <1>2, <1>3
<1> QED
  BY <1>4 DEF Is
-----------------------------------------------------------------------------
(* A sequence after room for so many more.                                  *)
Fewer(a, b) == IF a < b THEN a ELSE b
Grown(old, m, f) == old \o [k \in 1 .. m |-> f[k]]

(* One more element.                                                        *)
LEMMA GrownStep ==
  ASSUME NEW old \in Seq(Word), NEW m \in Nat, NEW f, \A k \in 1 .. m + 1 : f[k] \in Word
  PROVE  /\ Grown(old, m, f) \in Seq(Word) /\ Len(Grown(old, m, f)) = Len(old) + m
         /\ Grown(old, m + 1, f) = Append(Grown(old, m, f), f[m + 1])
<1> DEFINE a == [k \in 1 .. m |-> f[k]]
           b == [k \in 1 .. m + 1 |-> f[k]]
<1>1. /\ a \in Seq(Word) /\ Len(a) = m /\ \A k \in 1 .. m : a[k] = f[k]
      /\ b \in Seq(Word) /\ Len(b) = m + 1 /\ \A k \in 1 .. m + 1 : b[k] = f[k]
  OBVIOUS
<1>2. Grown(old, m, f) = old \o a /\ Grown(old, m + 1, f) = old \o b
  BY DEF Grown
<1> HIDE DEF a, b
<1>3. f[m + 1] \in Word
  OBVIOUS
<1>4. b = Append(a, f[m + 1])
  BY <1>1, <1>3, AppendedSequence
<1>5. old \o Append(a, f[m + 1]) = Append(old \o a, f[m + 1])
  <2>1. \A x \in Seq(Word), y \in Seq(Word), v \in Word : x \o Append(y, v) = Append(x \o y, v)
    OBVIOUS
  <2> QED
    BY <1>1, <1>3, <2>1
<1>6. old \o a \in Seq(Word) /\ Len(old \o a) = Len(old) + m
  BY <1>1
<1>7. Grown(old, m + 1, f) = Append(old \o a, f[m + 1])
  BY <1>2, <1>4, <1>5, Zenon
<1> QED
  BY <1>2, <1>6, <1>7, Zenon

(* None.                                                                    *)
LEMMA GrownByNone ==
  ASSUME NEW old \in Seq(Word), NEW f
  PROVE  Grown(old, 0, f) = old
<1>1. [k \in 1 .. 0 |-> f[k]] = << >>
  OBVIOUS
<1> QED
  BY <1>1 DEF Grown

(* A sequence without its first elements. *)
Dropped(old, m) == SubSeq(old, 1 + m, Len(old))

(* One element less.                                                        *)
LEMMA DroppedStep ==
  ASSUME NEW old \in Seq(Word), NEW m \in Nat, m <= Len(old)
  PROVE  /\ Dropped(old, m) \in Seq(Word) /\ Len(Dropped(old, m)) = Len(old) - m
         /\ m < Len(old) => /\ Dropped(old, m)[1] = old[1 + m]
                            /\ Dropped(old, m + 1) = Tail(Dropped(old, m))
<1>1. /\ Dropped(old, m) \in Seq(Word) /\ Len(Dropped(old, m)) = Len(old) - m
      /\ \A k \in 1 .. Len(old) - m : Dropped(old, m)[k] = old[m + k]
  BY DEF Dropped
<1>2. ASSUME m < Len(old)
      PROVE  Dropped(old, m)[1] = old[1 + m] /\ Dropped(old, m + 1) = Tail(Dropped(old, m))
  <2>1. PICK l \in Nat \ {0} : l = Len(old) - m
    BY <1>2
  <2>2. /\ Dropped(old, m + 1) \in Seq(Word) /\ Len(Dropped(old, m + 1)) = l - 1
        /\ \A k \in 1 .. l - 1 : Dropped(old, m + 1)[k] = old[(m + 1) + k]
    BY <2>1 DEF Dropped
  <2>3. \A k \in 1 .. l - 1 : Dropped(old, m + 1)[k] = Dropped(old, m)[k + 1]
    <3> TAKE k \in 1 .. l - 1
    <3>1. k + 1 \in 1 .. Len(old) - m /\ (m + 1) + k = m + (k + 1)
      BY <2>1
    <3> QED
      BY <1>1, <2>2, <3>1
  <2>4. Dropped(old, m + 1) = Tail(Dropped(old, m))
    BY <1>1, <2>1, <2>2, <2>3, TailSequence
  <2>5. Dropped(old, m)[1] = old[m + 1]
    BY <1>1, <2>1
  <2> QED
    BY <2>4, <2>5
<1> QED
  BY <1>1, <1>2

Inside(r) == DOMAIN r.data \subseteq 0 .. r.cap - 1
SameRing(s, r) == s \in RingType /\ s.cap = r.cap /\ (Inside(r) => Inside(s))

(* A lane keeps the capacity, and the slots inside it.                      *)
LEMMA LaneKeepsRing ==
  ASSUME NEW r \in RingType, NEW v \in Word
  PROVE  SameRing(LanePush(r, v).ring, r) /\ SameRing(LanePop(r).ring, r)
<1>1. SameRing(r, r)
  BY DEF SameRing
<1>2. SameRing(LanePop(r).ring, r)
  <2>1. CASE Empty(r)
    BY <1>1, <2>1 DEF LanePop
  <2>2. CASE ~Empty(r)
    <3>1. LanePop(r).ring = [r EXCEPT !.head = (r.head + 1) % r.cap]
      BY <2>2 DEF LanePop
    <3> HIDE DEF LanePop
    <3>2. LanePop(r).ring.data = r.data
      BY <3>1 DEF RingType
    <3> QED
      BY <2>2, <3>2, PopTakesHead DEF SameRing, Inside
  <2> QED
    BY <2>1, <2>2
<1>3. SameRing(LanePush(r, v).ring, r)
  <2>1. CASE Full(r)
    BY <1>1, <2>1 DEF LanePush
  <2>2. CASE ~Full(r)
    <3>1. PICK c \in Nat \ {0} : r.cap = c
      BY <2>2 DEF Full, RingType
    <3>2. PICK t \in 0 .. c - 1 : t = r.tail % c
      <4>1. r.tail \in Nat
        BY DEF RingType
      <4> QED
        BY <4>1, Divided
    <3>3. LanePush(r, v).ring.data = Put(r, t, v)
      BY <2>2, <3>1, <3>2 DEF LanePush, RingType
    <3>4. DOMAIN LanePush(r, v).ring.data = DOMAIN r.data \cup {t}
      BY <3>3 DEF Put
    <3> QED
      BY <2>2, <3>1, <3>4, PushAppends DEF SameRing, Inside
  <2> QED
    BY <2>1, <2>2
<1> QED
  BY <1>2, <1>3

(* After n lanes that named a ring, one more pushes if there is room.       *)
LEMMA PushLane ==
  ASSUME NEW r \in RingType, NEW v \in Word, NEW old \in Seq(Word), NEW room \in Nat, NEW n \in Nat,
         NEW f, \A k \in 1 .. n + 1 : f[k] \in Word, f[n + 1] = v,
         room = Capacity(r) - Len(old),
         ContentsOf(r) = Grown(old, Fewer(room, n), f)
  PROVE  /\ LanePush(r, v).told = IF n < room THEN 1 ELSE 0
         /\ ContentsOf(LanePush(r, v).ring) = Grown(old, Fewer(room, n + 1), f)
<1> DEFINE m == Fewer(room, n)
<1>1. m \in Nat /\ m <= n /\ (n < room => m = n) /\ (~(n < room) => m = room)
  BY DEF Fewer
<1> HIDE DEF m
<1>2. \A k \in 1 .. m + 1 : f[k] \in Word
  BY <1>1
<1>3. /\ Len(ContentsOf(r)) = Len(old) + m
      /\ Grown(old, m + 1, f) = Append(ContentsOf(r), f[m + 1])
  <2>1. /\ Len(Grown(old, m, f)) = Len(old) + m
        /\ Grown(old, m + 1, f) = Append(Grown(old, m, f), f[m + 1])
    BY <1>1, <1>2, GrownStep
  <2>2. ContentsOf(r) = Grown(old, m, f)
    BY DEF m
  <2> QED
    BY <2>1, <2>2
<1>4. Full(r) <=> m = room
  <2>1. Full(r) <=> Len(ContentsOf(r)) = Capacity(r)
    BY ContentsAreWords
  <2>2. Capacity(r) \in Nat /\ Len(old) \in Nat
    BY ContentsAreWords
  <2> QED
    BY <1>1, <1>3, <2>1, <2>2
<1>5. CASE n < room
  <2>1. ~Full(r) /\ m = n /\ Fewer(room, n + 1) = n + 1
    BY <1>1, <1>4, <1>5 DEF Fewer
  <2>2. ContentsOf(LanePush(r, v).ring) = Append(ContentsOf(r), v) /\ LanePush(r, v).told = 1
    BY <2>1, PushAppends
  <2> QED
    BY <1>3, <1>5, <2>1, <2>2
<1>6. CASE ~(n < room)
  <2>1. Full(r) /\ m = room /\ Fewer(room, n + 1) = room
    BY <1>1, <1>4, <1>6 DEF Fewer
  <2>2. LanePush(r, v).ring = r /\ LanePush(r, v).told = 0
    BY <2>1 DEF LanePush
  <2> QED
    BY <1>6, <2>1, <2>2 DEF m
<1> QED
  BY <1>5, <1>6

(* After n lanes that named a ring, one more pops if an element is left.    *)
LEMMA PopLane ==
  ASSUME NEW r \in RingType, NEW old \in Seq(Word), NEW n \in Nat,
         ContentsOf(r) = Dropped(old, Fewer(Len(old), n))
  PROVE  /\ LanePop(r).told = IF n < Len(old) THEN old[1 + n] ELSE 0
         /\ ContentsOf(LanePop(r).ring) = Dropped(old, Fewer(Len(old), n + 1))
<1> DEFINE m == Fewer(Len(old), n)
<1>1. /\ m \in Nat /\ m <= Len(old)
      /\ (n < Len(old) => m = n) /\ (~(n < Len(old)) => m = Len(old))
  BY DEF Fewer
<1> HIDE DEF m
<1>2. ContentsOf(r) = Dropped(old, m)
  BY DEF m
<1>3. /\ Len(ContentsOf(r)) = Len(old) - m
      /\ m < Len(old) => /\ ContentsOf(r)[1] = old[1 + m]
                         /\ Dropped(old, m + 1) = Tail(ContentsOf(r))
  BY <1>1, <1>2, DroppedStep
<1>4. Empty(r) <=> m = Len(old)
  <2>1. Empty(r) <=> Len(ContentsOf(r)) = 0
    BY ContentsAreWords
  <2> QED
    BY <1>1, <1>3, <2>1
<1>5. CASE n < Len(old)
  <2>1. ~Empty(r) /\ m = n /\ Fewer(Len(old), n + 1) = n + 1
    BY <1>1, <1>4, <1>5 DEF Fewer
  <2>2. ContentsOf(LanePop(r).ring) = Tail(ContentsOf(r)) /\ LanePop(r).told = ContentsOf(r)[1]
    BY <2>1, PopTakesHead
  <2> QED
    BY <1>3, <1>5, <2>1, <2>2
<1>6. CASE ~(n < Len(old))
  <2>1. Empty(r) /\ m = Len(old) /\ Fewer(Len(old), n + 1) = Len(old)
    BY <1>1, <1>4, <1>6 DEF Fewer
  <2>2. LanePop(r).ring = r /\ LanePop(r).told = 0
    BY <2>1 DEF LanePop
  <2> QED
    BY <1>2, <1>6, <2>1, <2>2
<1> QED
  BY <1>5, <1>6
-----------------------------------------------------------------------------
(* The loop over the lanes.                                                 *)
Answers == Word \cup {0, 1, Undefined}
LaneStates == [ring : [Queue -> RingType], dst : [0 .. VLEN - 1 -> Answers]]

Did(at, push, val, was, i) == IF push THEN LanePush(was.ring[at[i]], val[i]) ELSE LanePop(was.ring[at[i]])

Lane(at, push, val, was, i) ==
  IF i \in DOMAIN at
  THEN [ring |-> [was.ring EXCEPT ![at[i]] = Did(at, push, val, was, i).ring],
        dst |-> [was.dst EXCEPT ![i] = Did(at, push, val, was, i).told]]
  ELSE [was EXCEPT !.dst[i] = Undefined]

AreSteps(at, push, val, p, a) ==
  a = [n \in 0 .. p |-> IF n = 0 THEN [ring |-> ring, dst |-> dst]
                        ELSE Lane(at, push, val, a[n - 1], n - 1)]

(* The loop in these terms.                                                 *)
LEMMA OverLanesSteps ==
  ASSUME NEW at, NEW push, NEW val
  PROVE  OverLanes(at, push, val) = (CHOOSE a : AreSteps(at, push, val, LaneNum, a))[LaneNum]
BY DEF OverLanes, AreSteps, Lane, Did

(* The loop has a result for every number of lanes.                         *)
LEMMA StepsExist ==
  ASSUME NEW at, NEW push, NEW val, NEW p \in Nat
  PROVE  \E a : AreSteps(at, push, val, p, a)
<1> DEFINE Bad == {n \in Nat : ~(\E a : AreSteps(at, push, val, n, a))}
           Start == [ring |-> ring, dst |-> dst]
<1>1. SUFFICES Bad = {}
  OBVIOUS
<1>2. ASSUME NEW n \in Bad, \A y \in Bad : ~(y < n) PROVE FALSE
  <2>1. n \in Nat /\ ~(\E a : AreSteps(at, push, val, n, a))
    OBVIOUS
  <2>2. CASE n = 0
    <3>1. AreSteps(at, push, val, n, [k \in 0 .. n |-> Start])
      BY <2>2 DEF AreSteps
    <3> QED
      BY <2>1, <3>1
  <2>3. CASE n # 0
    <3>1. n - 1 \in Nat /\ n - 1 < n
      BY <2>1, <2>3
    <3>2. PICK e : AreSteps(at, push, val, n - 1, e)
      BY <1>2, <3>1
    <3> DEFINE a == [k \in 0 .. n |-> IF k = n THEN Lane(at, push, val, e[n - 1], n - 1) ELSE e[k]]
    <3>3. a[n] = Lane(at, push, val, e[n - 1], n - 1) /\ \A k \in 0 .. n - 1 : a[k] = e[k]
      BY <3>1
    <3>4. \A k \in 0 .. n - 1 :
            e[k] = IF k = 0 THEN Start ELSE Lane(at, push, val, e[k - 1], k - 1)
      BY <3>2 DEF AreSteps
    <3>5. a = [k \in 0 .. n |-> a[k]]
      OBVIOUS
    <3> HIDE DEF a
    <3>6. ASSUME NEW k \in 0 .. n
          PROVE  a[k] = IF k = 0 THEN Start ELSE Lane(at, push, val, a[k - 1], k - 1)
      <4>1. CASE k = n
        <5>1. a[n - 1] = e[n - 1]
          BY <3>1, <3>3
        <5> QED
          BY <2>3, <3>3, <4>1, <5>1
      <4>2. CASE k # n
        <5>1. k \in 0 .. n - 1 /\ a[k] = e[k]
          BY <3>3, <4>2
        <5>2. k = 0 \/ a[k - 1] = e[k - 1]
          BY <3>3, <4>2
        <5> QED
          BY <3>4, <5>1, <5>2
      <4> QED
        BY <4>1, <4>2
    <3>7. a = [k \in 0 .. n |-> IF k = 0 THEN Start ELSE Lane(at, push, val, a[k - 1], k - 1)]
      <4> HIDE DEF Start
      <4> QED
        BY <3>5, <3>6
    <3> QED
      BY <2>1, <3>7 DEF AreSteps
  <2> QED
    BY <2>2, <2>3
<1> HIDE DEF Bad
<1>3. Bad \in SUBSET Nat
  BY DEF Bad
<1> QED
  BY <1>2, <1>3, LeastNatural

(* An answer is never the word of a lane that took no part.                 *)
LEMMA AnswersAre ==
  /\ Undefined \in Answers /\ 0 \in Answers /\ 1 \in Answers /\ Word \subseteq Answers
  /\ Undefined \notin Word /\ Undefined # 0 /\ Undefined # 1
BY QueueAssumption DEF Undefined, Answers

(* One lane: the ring it aims at and its own word change, nothing else.     *)
Changed(s, q, r, i, w) == [ring |-> [s.ring EXCEPT ![q] = r], dst |-> [s.dst EXCEPT ![i] = w]]

(* The ring it aims at and its own word change, nothing else.               *)
LEMMA ActiveLane ==
  ASSUME NEW s \in LaneStates, NEW i \in 0 .. VLEN - 1, NEW q \in Queue,
         NEW r \in RingType, NEW w \in Answers
  PROVE  LET t == Changed(s, q, r, i, w)
         IN /\ t \in LaneStates
            /\ t.ring[q] = r /\ \A p \in Queue \ {q} : t.ring[p] = s.ring[p]
            /\ t.dst[i] = w /\ \A k \in (0 .. VLEN - 1) \ {i} : t.dst[k] = s.dst[k]
<1> DEFINE t == Changed(s, q, r, i, w)
<1>3. s.ring \in [Queue -> RingType] /\ s.dst \in [0 .. VLEN - 1 -> Answers]
  BY DEF LaneStates
<1>4. PICK a \in [Queue -> RingType], b \in [0 .. VLEN - 1 -> Answers] : a = s.ring /\ b = s.dst
  BY <1>3
<1> DEFINE c == [a EXCEPT ![q] = r]
           d == [b EXCEPT ![i] = w]
<1>5. /\ c \in [Queue -> RingType] /\ c[q] = r /\ \A p \in Queue \ {q} : c[p] = a[p]
      /\ d \in [0 .. VLEN - 1 -> Answers] /\ d[i] = w
      /\ \A k \in (0 .. VLEN - 1) \ {i} : d[k] = b[k]
  OBVIOUS
<1>6. t = [ring |-> c, dst |-> d]
  BY <1>4 DEF Changed
<1> HIDE DEF c, d, t
<1>7. t \in LaneStates /\ t.ring = c /\ t.dst = d
  BY <1>5, <1>6 DEF LaneStates
<1> QED
  BY <1>4, <1>5, <1>7 DEF t

(* A lane without its predicate bit changes its own word only.              *)
LEMMA IdleLane ==
  ASSUME NEW at, NEW push, NEW val, NEW s \in LaneStates, NEW i \in 0 .. VLEN - 1,
         i \notin DOMAIN at, NEW t, t = Lane(at, push, val, s, i)
  PROVE  /\ t \in LaneStates /\ t.ring = s.ring
         /\ t.dst[i] = Undefined /\ \A k \in (0 .. VLEN - 1) \ {i} : t.dst[k] = s.dst[k]
<1>1. s.ring \in [Queue -> RingType] /\ s.dst \in [0 .. VLEN - 1 -> Answers]
      /\ s = [ring |-> s.ring, dst |-> s.dst]
  BY DEF LaneStates
<1>2. t = [ring |-> s.ring, dst |-> [s.dst EXCEPT ![i] = Undefined]]
  BY <1>1 DEF Lane
<1>3. PICK a \in [Queue -> RingType], b \in [0 .. VLEN - 1 -> Answers] : a = s.ring /\ b = s.dst
  BY <1>1
<1> DEFINE d == [b EXCEPT ![i] = Undefined]
<1>4. d \in [0 .. VLEN - 1 -> Answers] /\ d[i] = Undefined
      /\ \A k \in (0 .. VLEN - 1) \ {i} : d[k] = b[k]
  BY AnswersAre
<1>5. t = [ring |-> a, dst |-> d]
  BY <1>2, <1>3
<1> HIDE DEF d
<1>6. t \in LaneStates /\ t.ring = a /\ t.dst = d
  BY <1>4, <1>5 DEF LaneStates
<1> QED
  BY <1>3, <1>4, <1>6
-----------------------------------------------------------------------------
(* Rings hold words inside their capacity, and lanes above LaneNum 0.       *)
QueueInv ==
  /\ ring \in [Queue -> RingType] /\ \A q \in Queue : Inside(ring[q])
  /\ lb0 \in LB0
  /\ dst \in [0 .. VLEN - 1 -> Answers]
  /\ \A i \in 0 .. VLEN - 1 : i \notin Lanes => dst[i] = 0

(* LaneNum is at most the vector length.                                    *)
LEMMA NumberOfLanes ==
  ASSUME QueueInv
  PROVE  LaneNum \in Nat /\ LaneNum <= VLEN /\ VLEN \in Nat /\ Lanes \subseteq 0 .. VLEN - 1
BY QueueAssumption DEF QueueInv, LaneNum, Lanes

Old(q) == ContentsOf(ring[q])
RoomOf(q) == Capacity(ring[q]) - Len(Old(q))

(* The elements of a ring before an instruction.                            *)
LEMMA OldQueue ==
  ASSUME QueueInv, NEW q \in Queue
  PROVE  Old(q) \in Seq(Word) /\ Len(Old(q)) \in Nat /\ RoomOf(q) \in Nat
<1>1. ring[q] \in RingType
  BY DEF QueueInv
<1>2. /\ Old(q) \in Seq(Word) /\ Len(Old(q)) <= Capacity(ring[q]) /\ Capacity(ring[q]) \in Nat
  BY <1>1, ContentsAreWords DEF Old
<1> QED
  BY <1>2 DEF RoomOf

(* What lanes that name q push to it, in their order.                       *)
Pushes(at, val, q) ==
  [k \in Nat |-> val[CHOOSE j \in DOMAIN at : at[j] = q /\ Count(at, at[j], j) = k - 1]]

(* After the lanes ahead of it comes lane i.                                *)
LEMMA PushesNext ==
  ASSUME NEW at, Aims(at), NEW val, NEW i \in DOMAIN at, NEW q, at[i] = q
  PROVE  Pushes(at, val, q)[Count(at, q, i) + 1] = val[i]
<1>1. PICK c \in Nat : c = Count(at, q, i)
  BY CountNext DEF Aims
<1>2. (CHOOSE j \in DOMAIN at : at[j] = q /\ Count(at, at[j], j) = c) = i
  BY <1>1, LaneOfCount
<1>3. c + 1 \in Nat /\ (c + 1) - 1 = c
  OBVIOUS
<1> QED
  BY <1>1, <1>2, <1>3 DEF Pushes

(* The first n lanes have pushed, or popped.                                *)
RingAfterPushes(at, val, n, s, q) ==
  /\ SameRing(s.ring[q], ring[q])
  /\ ContentsOf(s.ring[q]) = Grown(Old(q), Fewer(RoomOf(q), Count(at, q, n)), Pushes(at, val, q))
  /\ \A k \in 1 .. Count(at, q, n) : Pushes(at, val, q)[k] \in Word

RingAfterPops(at, n, s, q) ==
  /\ SameRing(s.ring[q], ring[q])
  /\ ContentsOf(s.ring[q]) = Dropped(Old(q), Fewer(Len(Old(q)), Count(at, q, n)))

PushTold(at, i) == IF Count(at, at[i], i) < RoomOf(at[i]) THEN 1 ELSE 0
PopTold(at, i) ==
  IF Count(at, at[i], i) < Len(Old(at[i])) THEN Old(at[i])[1 + Count(at, at[i], i)] ELSE 0

ToldSoFar(at, push, n, s) ==
  /\ \A i \in 0 .. n - 1 :
       s.dst[i] = IF i \in DOMAIN at THEN IF push THEN PushTold(at, i) ELSE PopTold(at, i)
                  ELSE Undefined
  /\ \A i \in n .. VLEN - 1 : s.dst[i] = dst[i]

LanesServed(at, push, val, n, s) ==
  /\ s \in LaneStates
  /\ \A q \in Queue : IF push THEN RingAfterPushes(at, val, n, s, q) ELSE RingAfterPops(at, n, s, q)
  /\ ToldSoFar(at, push, n, s)

(* Before the first lane nothing has changed.                               *)
LEMMA NoLaneYet ==
  ASSUME QueueInv, NEW at, Aims(at), NEW push, NEW val, NEW s, s = [ring |-> ring, dst |-> dst]
  PROVE  LanesServed(at, push, val, 0, s)
<1>1. s \in LaneStates /\ s.ring = ring /\ s.dst = dst
  BY DEF QueueInv, LaneStates
<1>2. ASSUME NEW q \in Queue
      PROVE  RingAfterPushes(at, val, 0, s, q) /\ RingAfterPops(at, 0, s, q)
  <2>1. SameRing(s.ring[q], ring[q]) /\ ContentsOf(s.ring[q]) = Old(q)
    BY <1>1 DEF SameRing, QueueInv, Old
  <2>2. Count(at, q, 0) = 0
    BY CountOfNone
  <2>3. Fewer(RoomOf(q), 0) = 0 /\ Fewer(Len(Old(q)), 0) = 0
    BY OldQueue DEF Fewer
  <2>4. Grown(Old(q), 0, Pushes(at, val, q)) = Old(q)
    BY OldQueue, GrownByNone
  <2>5. Dropped(Old(q), 0) = Old(q)
    <3>1. Old(q) \in Seq(Word)
      BY OldQueue
    <3> QED
      BY <3>1 DEF Dropped
  <2>6. 1 .. 0 = {}
    OBVIOUS
  <2> QED
    BY <2>1, <2>2, <2>3, <2>4, <2>5, <2>6 DEF RingAfterPushes, RingAfterPops
<1>3. ToldSoFar(at, push, 0, s)
  BY <1>1 DEF ToldSoFar
<1> QED
  BY <1>1, <1>2, <1>3 DEF LanesServed

(* Two changes of a ring are one.                                           *)
LEMMA SameRingTwice ==
  ASSUME NEW r, NEW s, NEW t, SameRing(s, r), SameRing(t, s)
  PROVE  SameRing(t, r)
BY DEF SameRing

(* The ring that lane n aims at.                                            *)
LEMMA PushServed ==
  ASSUME QueueInv, NEW at, Aims(at), NEW val, NEW n \in Nat, n \in DOMAIN at, NEW q \in Queue,
         at[n] = q, val[n] \in Word, NEW s \in LaneStates, RingAfterPushes(at, val, n, s, q),
         NEW t, t.ring[q] = LanePush(s.ring[q], val[n]).ring
  PROVE  /\ RingAfterPushes(at, val, n + 1, t, q)
         /\ LanePush(s.ring[q], val[n]).told = PushTold(at, n)
         /\ LanePush(s.ring[q], val[n]).told \in Answers
<1> DEFINE r == s.ring[q]
           f == Pushes(at, val, q)
           c == Count(at, q, n)
<1>1. r \in RingType /\ SameRing(r, ring[q]) /\ ring[q] \in RingType
  BY DEF RingAfterPushes, LaneStates, QueueInv
<1>2. c \in Nat /\ Count(at, q, n + 1) = c + 1
  BY CountNext
<1>3. f[c + 1] = val[n]
  BY PushesNext
<1>4. \A k \in 1 .. c : f[k] \in Word
  BY DEF RingAfterPushes
<1>5. ContentsOf(r) = Grown(Old(q), Fewer(RoomOf(q), c), f)
  BY DEF RingAfterPushes
<1>6. RoomOf(q) = Capacity(r) - Len(Old(q))
  BY <1>1 DEF RoomOf, SameRing, Capacity
<1>7. Old(q) \in Seq(Word) /\ RoomOf(q) \in Nat
  BY OldQueue
<1> HIDE DEF r, f, c
<1>8. \A k \in 1 .. c + 1 : f[k] \in Word
  BY <1>2, <1>3, <1>4
<1>9. /\ LanePush(r, val[n]).told = IF c < RoomOf(q) THEN 1 ELSE 0
      /\ ContentsOf(LanePush(r, val[n]).ring) = Grown(Old(q), Fewer(RoomOf(q), c + 1), f)
  BY <1>1, <1>2, <1>3, <1>5, <1>6, <1>7, <1>8, PushLane
<1>10. SameRing(LanePush(r, val[n]).ring, ring[q])
  BY <1>1, LaneKeepsRing, SameRingTwice
<1>11. RingAfterPushes(at, val, n + 1, t, q)
  BY <1>2, <1>8, <1>9, <1>10 DEF RingAfterPushes, r, f
<1> QED
  BY <1>9, <1>11, AnswersAre DEF PushTold, r, c

(* The ring that lane n pops from.                                          *)
LEMMA PopServed ==
  ASSUME QueueInv, NEW at, Aims(at), NEW n \in Nat, n \in DOMAIN at, NEW q \in Queue,
         at[n] = q, NEW s \in LaneStates, RingAfterPops(at, n, s, q),
         NEW t, t.ring[q] = LanePop(s.ring[q]).ring
  PROVE  /\ RingAfterPops(at, n + 1, t, q)
         /\ LanePop(s.ring[q]).told = PopTold(at, n)
         /\ LanePop(s.ring[q]).told \in Answers
<1> DEFINE r == s.ring[q]
           c == Count(at, q, n)
<1>1. r \in RingType /\ SameRing(r, ring[q])
  BY DEF RingAfterPops, LaneStates
<1>2. c \in Nat /\ Count(at, q, n + 1) = c + 1
  BY CountNext
<1>3. ContentsOf(r) = Dropped(Old(q), Fewer(Len(Old(q)), c))
  BY DEF RingAfterPops
<1>4. Old(q) \in Seq(Word)
  BY OldQueue
<1> HIDE DEF r, c
<1>5. /\ LanePop(r).told = IF c < Len(Old(q)) THEN Old(q)[1 + c] ELSE 0
      /\ ContentsOf(LanePop(r).ring) = Dropped(Old(q), Fewer(Len(Old(q)), c + 1))
  BY <1>1, <1>2, <1>3, <1>4, PopLane
<1>6. SameRing(LanePop(r).ring, ring[q])
  <2>1. 0 \in Word
    BY QueueAssumption
  <2> QED
    BY <1>1, <2>1, LaneKeepsRing, SameRingTwice
<1>7. RingAfterPops(at, n + 1, t, q)
  BY <1>2, <1>5, <1>6 DEF RingAfterPops, r
<1>8. LanePop(r).told \in Answers
  <2>1. c < Len(Old(q)) => Old(q)[1 + c] \in Word
    BY <1>2, <1>4
  <2> QED
    BY <1>5, <2>1, AnswersAre
<1> QED
  BY <1>5, <1>7, <1>8 DEF PopTold, r, c

(* A lane that does not aim at q leaves what is said of it.                 *)
LEMMA OtherRingServed ==
  ASSUME NEW at, Aims(at), NEW val, NEW n \in Nat, NEW q, ~(n \in DOMAIN at /\ at[n] = q),
         NEW s, NEW t, t.ring[q] = s.ring[q]
  PROVE  /\ RingAfterPushes(at, val, n, s, q) => RingAfterPushes(at, val, n + 1, t, q)
         /\ RingAfterPops(at, n, s, q) => RingAfterPops(at, n + 1, t, q)
<1>1. Count(at, q, n + 1) = Count(at, q, n)
  BY CountNext
<1> QED
  BY <1>1 DEF RingAfterPushes, RingAfterPops

(* One iteration of the loop.                                               *)
LEMMA LaneServed ==
  ASSUME QueueInv, NEW at, Aims(at), NEW push \in BOOLEAN, NEW val, NEW n \in 0 .. LaneNum - 1,
         n \in DOMAIN at => at[n] \in Queue /\ (push => val[n] \in Word),
         NEW s, LanesServed(at, push, val, n, s), NEW t, t = Lane(at, push, val, s, n)
  PROVE  LanesServed(at, push, val, n + 1, t)
<1>1. n \in Nat /\ n \in 0 .. VLEN - 1
  BY NumberOfLanes
<1>2. s \in LaneStates
  BY DEF LanesServed
<1>3. ASSUME t \in LaneStates,
             t.dst[n] = IF n \in DOMAIN at THEN IF push THEN PushTold(at, n) ELSE PopTold(at, n)
                        ELSE Undefined,
             \A k \in (0 .. VLEN - 1) \ {n} : t.dst[k] = s.dst[k]
      PROVE  ToldSoFar(at, push, n + 1, t)
  <2>1. ASSUME NEW i \in 0 .. (n + 1) - 1
        PROVE  t.dst[i] = IF i \in DOMAIN at THEN IF push THEN PushTold(at, i) ELSE PopTold(at, i)
                          ELSE Undefined
    <3>1. CASE i = n
      BY <1>3, <3>1
    <3>2. CASE i # n
      <4>1. i \in 0 .. n - 1 /\ i \in (0 .. VLEN - 1) \ {n}
        BY <1>1, <3>2, NumberOfLanes
      <4> QED
        BY <1>3, <4>1 DEF LanesServed, ToldSoFar
    <3> QED
      BY <3>1, <3>2
  <2>2. ASSUME NEW i \in n + 1 .. VLEN - 1 PROVE t.dst[i] = dst[i]
    <3>1. i \in n .. VLEN - 1 /\ i \in (0 .. VLEN - 1) \ {n}
      BY <1>1, NumberOfLanes
    <3> QED
      BY <1>3, <3>1 DEF LanesServed, ToldSoFar
  <2> QED
    BY <2>1, <2>2 DEF ToldSoFar
<1>4. CASE n \notin DOMAIN at
  <2>1. /\ t \in LaneStates /\ t.ring = s.ring
        /\ t.dst[n] = Undefined /\ \A k \in (0 .. VLEN - 1) \ {n} : t.dst[k] = s.dst[k]
    BY <1>1, <1>2, <1>4, IdleLane
  <2>2. ToldSoFar(at, push, n + 1, t)
    BY <1>3, <1>4, <2>1
  <2>3. ASSUME NEW q \in Queue
        PROVE  IF push THEN RingAfterPushes(at, val, n + 1, t, q) ELSE RingAfterPops(at, n + 1, t, q)
    BY <1>1, <1>4, <2>1, OtherRingServed DEF LanesServed
  <2> QED
    BY <2>1, <2>2, <2>3 DEF LanesServed
<1>5. CASE n \in DOMAIN at
  <2>1. PICK q \in Queue : at[n] = q /\ (push => val[n] \in Word)
    BY <1>5
  <2> DEFINE did == IF push THEN LanePush(s.ring[q], val[n]) ELSE LanePop(s.ring[q])
             Served(r, p) == IF push THEN RingAfterPushes(at, val, n + 1, r, p)
                             ELSE RingAfterPops(at, n + 1, r, p)
  <2>2. /\ s.ring[q] \in RingType
        /\ IF push THEN RingAfterPushes(at, val, n, s, q) ELSE RingAfterPops(at, n, s, q)
    BY <1>2 DEF LanesServed, LaneStates
  <2>3. /\ did.ring \in RingType /\ did.told \in Answers
        /\ did.told = IF push THEN PushTold(at, n) ELSE PopTold(at, n)
    <3>1. CASE push
      <4>1. LanePush(s.ring[q], val[n]).ring \in RingType
        BY <2>1, <2>2, <3>1, LaneKeepsRing DEF SameRing
      <4>2. /\ LanePush(s.ring[q], val[n]).told = PushTold(at, n)
            /\ LanePush(s.ring[q], val[n]).told \in Answers
        <5> DEFINE x == [ring |-> [p \in Queue |-> LanePush(s.ring[q], val[n]).ring]]
        <5>1. x.ring[q] = LanePush(s.ring[q], val[n]).ring
          OBVIOUS
        <5> HIDE DEF x
        <5> QED
          BY <1>1, <1>2, <1>5, <2>1, <2>2, <3>1, <5>1, PushServed
      <4> QED
        BY <3>1, <4>1, <4>2
    <3>2. CASE ~push
      <4>1. LanePop(s.ring[q]).ring \in RingType
        <5>1. 0 \in Word
          BY QueueAssumption
        <5> QED
          BY <2>2, <5>1, LaneKeepsRing DEF SameRing
      <4>2. /\ LanePop(s.ring[q]).told = PopTold(at, n)
            /\ LanePop(s.ring[q]).told \in Answers
        <5> DEFINE x == [ring |-> [p \in Queue |-> LanePop(s.ring[q]).ring]]
        <5>1. x.ring[q] = LanePop(s.ring[q]).ring
          OBVIOUS
        <5> HIDE DEF x
        <5> QED
          BY <1>1, <1>2, <1>5, <2>1, <2>2, <3>2, <5>1, PopServed
      <4> QED
        BY <3>2, <4>1, <4>2
    <3> QED
      BY <3>1, <3>2
  <2>4. /\ t \in LaneStates
        /\ t.ring[q] = did.ring /\ \A p \in Queue \ {q} : t.ring[p] = s.ring[p]
        /\ t.dst[n] = did.told /\ \A k \in (0 .. VLEN - 1) \ {n} : t.dst[k] = s.dst[k]
    <3>1. did = Did(at, push, val, s, n)
      BY <2>1 DEF Did
    <3> HIDE DEF did
    <3>2. PICK r \in RingType, w \in Answers : r = did.ring /\ w = did.told
      BY <2>3
    <3>3. PICK i \in 0 .. VLEN - 1 : i = n
      BY <1>1
    <3>4. t = Changed(s, q, r, i, w)
      BY <1>5, <2>1, <3>1, <3>2, <3>3 DEF Lane, Changed
    <3>5. /\ t \in LaneStates
          /\ t.ring[q] = r /\ \A p \in Queue \ {q} : t.ring[p] = s.ring[p]
          /\ t.dst[i] = w /\ \A k \in (0 .. VLEN - 1) \ {i} : t.dst[k] = s.dst[k]
      BY <1>2, <3>4, ActiveLane
    <3> QED
      BY <3>2, <3>3, <3>5
  <2>5. ToldSoFar(at, push, n + 1, t)
    BY <1>3, <1>5, <2>3, <2>4
  <2>6. Served(t, q)
    <3>1. CASE push
      BY <1>1, <1>2, <1>5, <2>1, <2>2, <2>4, <3>1, PushServed
    <3>2. CASE ~push
      BY <1>1, <1>2, <1>5, <2>1, <2>2, <2>4, <3>2, PopServed
    <3> QED
      BY <3>1, <3>2
  <2>7. \A p \in Queue \ {q} : Served(t, p)
    BY <1>1, <1>5, <2>1, <2>4, OtherRingServed DEF LanesServed
  <2> QED
    BY <2>4, <2>5, <2>6, <2>7 DEF LanesServed
<1> QED
  BY <1>4, <1>5

(* The whole loop.                                                          *)
LEMMA AllLanesServed ==
  ASSUME QueueInv, NEW active \in SUBSET Lanes, NEW at \in [active -> Queue],
         NEW push \in BOOLEAN, NEW val, push => val \in [active -> Word]
  PROVE  Aims(at) /\ LanesServed(at, push, val, LaneNum, OverLanes(at, push, val))
<1>1. LaneNum \in Nat /\ DOMAIN at = active /\ active \subseteq 0 .. LaneNum
  BY NumberOfLanes DEF Lanes
<1>2. Aims(at)
  BY <1>1 DEF Aims
<1>3. PICK a : AreSteps(at, push, val, LaneNum, a) /\ OverLanes(at, push, val) = a[LaneNum]
  <2>1. \E a : AreSteps(at, push, val, LaneNum, a)
    BY <1>1, StepsExist
  <2> QED
    BY <2>1, OverLanesSteps
<1> DEFINE Bad == {n \in 0 .. LaneNum : ~LanesServed(at, push, val, n, a[n])}
<1>4. SUFFICES Bad = {}
  BY <1>1, <1>2, <1>3
<1>5. ASSUME NEW n \in Bad, \A y \in Bad : ~(y < n) PROVE FALSE
  <2>1. n \in 0 .. LaneNum /\ ~LanesServed(at, push, val, n, a[n])
    OBVIOUS
  <2>2. CASE n = 0
    <3>1. a[0] = [ring |-> ring, dst |-> dst]
      BY <1>3, <2>1, <2>2 DEF AreSteps
    <3> QED
      BY <1>2, <2>1, <2>2, <3>1, NoLaneYet
  <2>3. CASE n # 0
    <3>1. n - 1 \in 0 .. LaneNum - 1 /\ n - 1 < n /\ n - 1 \in 0 .. LaneNum /\ (n - 1) + 1 = n
      BY <1>1, <2>1, <2>3
    <3>2. LanesServed(at, push, val, n - 1, a[n - 1])
      BY <1>5, <3>1
    <3>3. a[n] = Lane(at, push, val, a[n - 1], n - 1)
      BY <1>3, <2>1, <2>3 DEF AreSteps
    <3>4. n - 1 \in DOMAIN at => at[n - 1] \in Queue /\ (push => val[n - 1] \in Word)
      BY <1>1
    <3>5. LanesServed(at, push, val, (n - 1) + 1, a[n])
      BY <1>2, <3>1, <3>2, <3>3, <3>4, LaneServed
    <3> QED
      BY <2>1, <3>1, <3>5
  <2> QED
    BY <2>2, <2>3
<1> HIDE DEF Bad
<1>6. Bad \in SUBSET Nat
  BY <1>1 DEF Bad
<1> QED
  BY <1>5, <1>6, LeastNatural

-----------------------------------------------------------------------------
(* Fifo's Cardinality is the one of FiniteSets.                             *)
LEMMA SameCardinality ==
  ASSUME NEW S
  PROVE  Queues!Cardinality(S) = Cardinality(S)
BY DEF Queues!Cardinality, Cardinality

(* Fifo's count of the lanes ahead, its room and its choice of the n-th     *)
(* lane.                                                                    *)
LEMMA FifoTerms ==
  ASSUME QueueInv, NEW at, NEW val
  PROVE  /\ \A i : Queues!Ahead(at, i) = Count(at, at[i], i)
         /\ \A q \in Queue : Queues!Room(q) = RoomOf(q)
         /\ \A a, b : Queues!Least(a, b) = Fewer(a, b)
         /\ \A q : \A n \in Nat : Queues!Nth(at, val, q, n) = Pushes(at, val, q)[n]
<1>1. \A i : Queues!Ahead(at, i) = Count(at, at[i], i)
  BY SameCardinality DEF Queues!Ahead, Count, Before
<1>2. \A q \in Queue : Queues!Room(q) = RoomOf(q)
  BY DEF Queues!Room, RoomOf, Old, Capacity
<1>3. \A a, b : Queues!Least(a, b) = Fewer(a, b)
  BY DEF Queues!Least, Fewer
<1>4. \A q : \A n \in Nat : Queues!Nth(at, val, q, n) = Pushes(at, val, q)[n]
  BY DEF Queues!Nth, Queues!Ahead, Queues!Cardinality, Cardinality, Count, Before, Pushes
<1> QED
  BY <1>1, <1>2, <1>3, <1>4

(* Its count of all lanes that name a queue.                                *)
LEMMA FifoAim ==
  ASSUME QueueInv, NEW active \in SUBSET Lanes, NEW at \in [active -> Queue], NEW q
  PROVE  Queues!Aim(at, q) = Count(at, q, LaneNum) /\ Count(at, q, LaneNum) \in Nat
<1>1. LaneNum \in Nat /\ DOMAIN at = active /\ active \subseteq 0 .. LaneNum - 1
  BY NumberOfLanes DEF Lanes
<1>2. {i \in DOMAIN at : at[i] = q} = Before(at, q, LaneNum)
  <2>1. \A i \in DOMAIN at : i < LaneNum
    BY <1>1
  <2> QED
    BY <2>1 DEF Before
<1>3. Aims(at)
  <2>1. DOMAIN at \subseteq 0 .. LaneNum
    BY <1>1
  <2> QED
    BY <1>1, <2>1 DEF Aims
<1>4. Queues!Aim(at, q) = Cardinality(Before(at, q, LaneNum))
  BY <1>2, SameCardinality DEF Queues!Aim
<1>5. Count(at, q, LaneNum) \in Nat
  BY <1>1, <1>3, CountNext
<1> QED
  BY <1>4, <1>5 DEF Count

(* What an instruction leaves of rings and lanes.                           *)
LEMMA InstructionKeeps ==
  ASSUME QueueInv, NEW active \in SUBSET Lanes, NEW at \in [active -> Queue],
         NEW push \in BOOLEAN, NEW val, push => val \in [active -> Word],
         RingsBecome(OverLanes(at, push, val))
  PROVE  /\ QueueInv' /\ Lanes' = Lanes
         /\ \A q \in Queue : ring[q].cap = ring'[q].cap
         /\ Told' = [i \in active |-> IF push THEN PushTold(at, i) ELSE PopTold(at, i)]
<1> DEFINE s == OverLanes(at, push, val)
<1>1. /\ Aims(at) /\ LanesServed(at, push, val, LaneNum, s)
      /\ ring' = s.ring /\ dst' = s.dst /\ lb0' = lb0
  BY AllLanesServed DEF RingsBecome
<1> HIDE DEF s
<1>2. /\ LaneNum \in Nat /\ LaneNum <= VLEN /\ VLEN \in Nat /\ Lanes = 0 .. LaneNum - 1
      /\ DOMAIN at = active
  BY NumberOfLanes DEF Lanes
<1>3. LaneNum' = LaneNum /\ Lanes' = Lanes
  BY <1>1 DEF LaneNum, Lanes
<1>4. ring' \in [Queue -> RingType] /\ dst' \in [0 .. VLEN - 1 -> Answers]
  BY <1>1 DEF LanesServed, LaneStates
<1>5. \A q \in Queue : SameRing(ring'[q], ring[q])
  BY <1>1 DEF LanesServed, RingAfterPushes, RingAfterPops
<1>6. /\ \A i \in 0 .. LaneNum - 1 :
           dst'[i] = IF i \in active THEN IF push THEN PushTold(at, i) ELSE PopTold(at, i)
                     ELSE Undefined
      /\ \A i \in LaneNum .. VLEN - 1 : dst'[i] = dst[i]
  BY <1>1, <1>2 DEF LanesServed, ToldSoFar
<1>7. QueueInv'
  <2>1. \A q \in Queue : Inside(ring'[q])
    BY <1>5 DEF SameRing, QueueInv
  <2>2. ASSUME NEW i \in 0 .. VLEN - 1, i \notin Lanes PROVE dst'[i] = 0
    <3>1. i \in LaneNum .. VLEN - 1
      BY <1>2, <2>2
    <3> QED
      BY <1>6, <2>2, <3>1 DEF QueueInv
  <2>3. lb0' \in LB0
    BY <1>1 DEF QueueInv
  <2> QED
    BY <1>3, <1>4, <2>1, <2>2, <2>3 DEF QueueInv
<1>8. ASSUME NEW i \in active
      PROVE  (IF push THEN PushTold(at, i) ELSE PopTold(at, i)) # Undefined
  <2>1. i \in Nat /\ at[i] \in Queue
    BY <1>2
  <2>2. /\ Old(at[i]) \in Seq(Word) /\ Len(Old(at[i])) \in Nat
        /\ Count(at, at[i], i) \in Nat
    BY <1>1, <2>1, OldQueue, CountNext
  <2>3. PushTold(at, i) # Undefined
    BY AnswersAre DEF PushTold
  <2>4. PopTold(at, i) # Undefined
    <3>1. Count(at, at[i], i) < Len(Old(at[i])) => Old(at[i])[1 + Count(at, at[i], i)] \in Word
      BY <2>2
    <3> QED
      BY <3>1, AnswersAre DEF PopTold
  <2> QED
    BY <2>3, <2>4
<1>9. Told' = [i \in active |-> IF push THEN PushTold(at, i) ELSE PopTold(at, i)]
  <2>1. {j \in Lanes' : dst'[j] # Undefined} = active
    BY <1>2, <1>3, <1>6, <1>8
  <2>2. \A i \in active : dst'[i] = IF push THEN PushTold(at, i) ELSE PopTold(at, i)
    BY <1>2, <1>6
  <2>3. Told' = [i \in {j \in Lanes' : dst'[j] # Undefined} |-> dst'[i]]
    BY DEF Told
  <2> QED
    BY <2>1, <2>2, <2>3
<1> QED
  BY <1>3, <1>5, <1>7, <1>9 DEF SameRing

(* V.QPUSH is a push of bounded queues.                                     *)
LEMMA QPushPushes == QueueInv /\ QPush => QueueInv' /\ Queues!Next
<1> SUFFICES ASSUME QueueInv, QPush PROVE QueueInv' /\ Queues!Next
  OBVIOUS
<1>1. PICK active \in SUBSET Lanes : \E a \in [active -> Queue], v \in [active -> Word] :
        RingsBecome(OverLanes(a, TRUE, v))
  BY DEF QPush
<1>2. PICK at \in [active -> Queue], val \in [active -> Word] : RingsBecome(OverLanes(at, TRUE, val))
  BY <1>1
<1>3. /\ QueueInv' /\ Lanes' = Lanes
      /\ \A q \in Queue : ring[q].cap = ring'[q].cap
      /\ Told' = [i \in active |-> PushTold(at, i)]
  BY <1>2, InstructionKeeps
<1>4. /\ LanesServed(at, TRUE, val, LaneNum, OverLanes(at, TRUE, val))
      /\ ring' = OverLanes(at, TRUE, val).ring
  BY <1>2, AllLanesServed DEF RingsBecome
<1>5. \A q \in Queue : ContentsOf(ring'[q]) =
        Grown(Old(q), Fewer(RoomOf(q), Count(at, q, LaneNum)), Pushes(at, val, q))
  BY <1>4 DEF LanesServed, RingAfterPushes
<1>6. \A q \in Queue : ContentsOf(ring'[q]) = ContentsOf(ring[q]) \o
        [n \in 1 .. Queues!Least(Queues!Room(q), Queues!Aim(at, q)) |-> Queues!Nth(at, val, q, n)]
  <2> TAKE q \in Queue
  <2>1. Queues!Least(Queues!Room(q), Queues!Aim(at, q)) = Fewer(RoomOf(q), Count(at, q, LaneNum))
    BY FifoTerms, FifoAim
  <2>2. PICK m \in Nat : m = Fewer(RoomOf(q), Count(at, q, LaneNum))
    BY FifoAim, OldQueue DEF Fewer
  <2>3. \A n \in 1 .. m : Queues!Nth(at, val, q, n) = Pushes(at, val, q)[n]
    BY FifoTerms
  <2>4. ContentsOf(ring'[q]) = Grown(Old(q), m, Pushes(at, val, q))
    BY <1>5, <2>2
  <2> QED
    BY <2>1, <2>2, <2>3, <2>4 DEF Grown, Old
<1>7. \A i \in active : PushTold(at, i) = IF Queues!Ahead(at, i) < Queues!Room(at[i]) THEN 1 ELSE 0
  <2> TAKE i \in active
  <2>1. at[i] \in Queue
    OBVIOUS
  <2>2. Queues!Ahead(at, i) = Count(at, at[i], i) /\ Queues!Room(at[i]) = RoomOf(at[i])
    BY <2>1, FifoTerms
  <2> QED
    BY <2>2 DEF PushTold
<1>8. Queues!Push
  BY <1>3, <1>6, <1>7 DEF Queues!Push
<1> QED
  BY <1>3, <1>8 DEF Queues!Next

(* V.QPOP is a pop.                                                         *)
LEMMA QPopPops == QueueInv /\ QPop => QueueInv' /\ Queues!Next
<1> SUFFICES ASSUME QueueInv, QPop PROVE QueueInv' /\ Queues!Next
  OBVIOUS
<1>1. PICK active \in SUBSET Lanes : \E a \in [active -> Queue] :
        RingsBecome(OverLanes(a, FALSE, << >>))
  BY DEF QPop
<1>2. PICK at \in [active -> Queue] : RingsBecome(OverLanes(at, FALSE, << >>))
  BY <1>1
<1>3. /\ QueueInv' /\ Lanes' = Lanes
      /\ \A q \in Queue : ring[q].cap = ring'[q].cap
      /\ Told' = [i \in active |-> PopTold(at, i)]
  <2>1. PICK push \in BOOLEAN : push = FALSE
    OBVIOUS
  <2>2. RingsBecome(OverLanes(at, push, << >>)) /\ (push => << >> \in [active -> Word])
    BY <1>2, <2>1
  <2>3. /\ QueueInv' /\ Lanes' = Lanes
        /\ \A q \in Queue : ring[q].cap = ring'[q].cap
        /\ Told' = [i \in active |-> IF push THEN PushTold(at, i) ELSE PopTold(at, i)]
    BY <2>1, <2>2, InstructionKeeps
  <2> QED
    BY <2>1, <2>3
<1>4. /\ LanesServed(at, FALSE, << >>, LaneNum, OverLanes(at, FALSE, << >>))
      /\ ring' = OverLanes(at, FALSE, << >>).ring
  BY <1>2, AllLanesServed DEF RingsBecome
<1>5. \A q \in Queue : ContentsOf(ring'[q]) =
        Dropped(Old(q), Fewer(Len(Old(q)), Count(at, q, LaneNum)))
  BY <1>4 DEF LanesServed, RingAfterPops
<1>6. \A q \in Queue : ContentsOf(ring'[q]) =
        SubSeq(ContentsOf(ring[q]),
               1 + Queues!Least(Len(ContentsOf(ring[q])), Queues!Aim(at, q)), Len(ContentsOf(ring[q])))
  BY <1>5, FifoTerms, FifoAim DEF Dropped, Old
<1>7. \A i \in active : PopTold(at, i) =
        IF Queues!Ahead(at, i) < Len(ContentsOf(ring[at[i]]))
        THEN ContentsOf(ring[at[i]])[1 + Queues!Ahead(at, i)] ELSE 0
  <2> TAKE i \in active
  <2>1. Queues!Ahead(at, i) = Count(at, at[i], i)
    BY FifoTerms
  <2> QED
    BY <2>1 DEF PopTold, Old
<1>8. Queues!Pop
  BY <1>3, <1>6, <1>7 DEF Queues!Pop
<1> QED
  BY <1>3, <1>8 DEF Queues!Next

(* Rings with any words in their headers are queues from the beginning.     *)
LEMMA InitIsFifo == QueueInit => QueueInv /\ Queues!Init
<1> SUFFICES ASSUME QueueInit PROVE QueueInv /\ Queues!Init
  OBVIOUS
<1>1. PICK w \in Prepared :
        ring = [q \in Queue |-> [head |-> w[q].head, tail |-> w[q].tail, cap |-> w[q].cap,
                                 data |-> [s \in {} |-> 0]]]
  BY DEF QueueInit
<1>2. \A q \in Queue : w[q].head \in Nat /\ w[q].tail \in Nat /\ w[q].cap \in Nat
  BY QueueAssumption
<1>3. [s \in {} |-> 0] \in UNION {[S -> Word] : S \in SUBSET Nat} /\ DOMAIN [s \in {} |-> 0] = {}
  <2>1. [s \in {} |-> 0] \in [{} -> Word] /\ {} \in SUBSET Nat
    OBVIOUS
  <2> QED
    BY <2>1
<1>4. ring \in [Queue -> RingType] /\ \A q \in Queue : Inside(ring[q])
  <2> DEFINE none == [s \in {} |-> 0]
  <2>1. none \in UNION {[S -> Word] : S \in SUBSET Nat} /\ DOMAIN none = {}
    BY <1>3
  <2>2. ring = [q \in Queue |-> [head |-> w[q].head, tail |-> w[q].tail, cap |-> w[q].cap, data |-> none]]
    BY <1>1
  <2> HIDE DEF none
  <2>3. \A q \in Queue : ring[q] \in RingType /\ ring[q].data = none
    BY <1>2, <2>1, <2>2 DEF RingType
  <2> QED
    BY <2>1, <2>2, <2>3 DEF Inside
<1>5. dst = [i \in 0 .. VLEN - 1 |-> 0] /\ lb0 \in LB0
  BY DEF QueueInit
<1>6. QueueInv
  BY <1>4, <1>5, AnswersAre DEF QueueInv
<1>7. \A q \in Queue : /\ ContentsOf(ring[q]) \in Seq(Word)
                       /\ Len(ContentsOf(ring[q])) <= Capacity(ring[q]) /\ Capacity(ring[q]) \in Nat
  BY <1>4, ContentsAreWords
<1>8. Told = [i \in Lanes |-> 0]
  <2>1. \A i \in Lanes : dst[i] = 0 /\ dst[i] # Undefined
    BY <1>5, <1>6, NumberOfLanes, AnswersAre
  <2> QED
    BY <2>1 DEF Told
<1>9. Queues!Init
  BY <1>7, <1>8 DEF Queues!Init, Capacity
<1> QED
  BY <1>6, <1>9

(* Every step keeps the types and is one of Fifo, or none.                  *)
LEMMA QueueSteps ==
  /\ QueueInv /\ [QueueNext]_queueVars
       => QueueInv'
  /\ QueueInv /\ [QueueNext]_queueVars
       => [Queues!Next]_<<Lanes,
            [q \in Queue |-> IF ring[q].cap = 0 THEN 0 ELSE ring[q].cap - 1],
            [q \in Queue |-> ContentsOf(ring[q])], Told>>
<1> SUFFICES ASSUME QueueInv, [QueueNext]_queueVars
             PROVE  /\ QueueInv'
                    /\ [Queues!Next]_<<Lanes,
                         [q \in Queue |-> IF ring[q].cap = 0 THEN 0 ELSE ring[q].cap - 1],
                         [q \in Queue |-> ContentsOf(ring[q])], Told>>
  OBVIOUS
<1>1. CASE QueueNext
  BY <1>1, QPushPushes, QPopPops DEF QueueNext
<1>2. CASE UNCHANGED queueVars
  BY <1>2 DEF queueVars, QueueInv, Lanes, LaneNum, Told
<1> QED
  BY <1>1, <1>2

(* From any state that is one of bounded queues, steps of the lanes are      *)
(* steps of them.                                                           *)
LEMMA QueuesFrom ==
  QueueInv /\ Queues!Init /\ [][QueueNext]_queueVars => QueuesAreFifos
<1>1. QueueInv /\ [QueueNext]_queueVars => QueueInv'
  BY QueueSteps
<1>2. QueueInv /\ [QueueNext]_queueVars
       => [Queues!Next]_<<Lanes,
            [q \in Queue |-> IF ring[q].cap = 0 THEN 0 ELSE ring[q].cap - 1],
            [q \in Queue |-> ContentsOf(ring[q])], Told>>
  BY QueueSteps
<1> QED
  BY <1>1, <1>2, PTL DEF QueuesAreFifos, Queues!Spec

(* Lanes that share rings are served first come, first served, each ring is *)
(* a bounded queue with one slot kept free, whatever words its header began *)
(* with (exec_v_qpush, exec_v_qpop): for every set of rings, capacity,      *)
(* vector length and number of lanes.                                       *)
THEOREM QueuesImplementFifos == QueueSpec => QueuesAreFifos
<1>1. QueueInit => QueueInv /\ Queues!Init
  BY InitIsFifo
<1> QED
  BY <1>1, QueuesFrom, PTL DEF QueueSpec

(* Rings are words inside their capacity, and lanes above LaneNum keep      *)
(* theirs, for every set of rings and words.                                *)
THEOREM QueueTypesHold == QueueSpec => []QueueTypeOK
<1>1. QueueInit => QueueInv
  BY InitIsFifo
<1>2. QueueInv /\ [QueueNext]_queueVars => QueueInv'
  BY QueueSteps
<1>3. QueueInv => QueueTypeOK
  BY DEF QueueInv, QueueTypeOK, RingType, Inside, Answers
<1> QED
  BY <1>1, <1>2, <1>3, PTL DEF QueueSpec

-----------------------------------------------------------------------------
(* What holds of 0 and of a number after one of which it holds, holds of    *)
(* every number up to n.                                                    *)
LEMMA UpTo ==
  ASSUME NEW n \in Nat, NEW T, 0 \in T, \A k \in 1 .. n : k - 1 \in T => k \in T
  PROVE  \A k \in 0 .. n : k \in T
<1> DEFINE bad == {k \in 0 .. n : k \notin T}
<1>1. SUFFICES ASSUME bad # {} PROVE FALSE
  OBVIOUS
<1>2. bad \in SUBSET Nat
  OBVIOUS
<1>3. PICK k \in bad : \A j \in bad : ~(j < k)
  BY <1>1, <1>2, LeastNatural
<1>4. k \in 1 .. n
  BY <1>3
<1>5. k - 1 \in 0 .. n /\ k - 1 < k
  BY <1>4
<1>6. k - 1 \in T
  BY <1>3, <1>5
<1> QED
  BY <1>3, <1>4, <1>6

(* A loop: its value at first is v, and its k-th turn makes the value step[k] of *)
(* the one before.                                                          *)
Loop(a, v, n, step) == a[0] = v /\ \A k \in 1 .. n : a[k] = step[k][a[k - 1]]

(* Every loop has its values.                                               *)
LEMMA LoopsEnd ==
  ASSUME NEW V, NEW v \in V, NEW n \in Nat, NEW step \in [1 .. n -> [V -> V]]
  PROVE  \E a \in [0 .. n -> V] : Loop(a, v, n, step)
<1> DEFINE T == {k \in 0 .. n : \E a \in [0 .. k -> V] : Loop(a, v, k, step)}
<1>1. 0 \in T
  <2> DEFINE a == [i \in 0 .. 0 |-> v]
  <2>1. a \in [0 .. 0 -> V] /\ Loop(a, v, 0, step)
    BY DEF Loop
  <2> QED
    BY <2>1
<1>2. ASSUME NEW k \in 1 .. n, k - 1 \in T PROVE k \in T
  <2>1. PICK a \in [0 .. k - 1 -> V] : Loop(a, v, k - 1, step)
    BY <1>2
  <2> DEFINE b == [i \in 0 .. k |-> IF i = k THEN step[k][a[k - 1]] ELSE a[i]]
  <2>2. b \in [0 .. k -> V]
    OBVIOUS
  <2>3. b[0] = v
    BY <2>1 DEF Loop
  <2>4. ASSUME NEW i \in 1 .. k PROVE b[i] = step[i][b[i - 1]]
    <3>1. CASE i = k
      BY <3>1
    <3>2. CASE i # k
      <4>1. i \in 1 .. k - 1 /\ i - 1 \in 0 .. k - 1
        BY <3>2
      <4>2. b[i] = a[i] /\ b[i - 1] = a[i - 1]
        BY <4>1
      <4> QED
        BY <2>1, <4>1, <4>2 DEF Loop
    <3> QED
      BY <3>1, <3>2
  <2>5. Loop(b, v, k, step)
    BY <2>3, <2>4 DEF Loop
  <2> QED
    BY <2>2, <2>5
<1> HIDE DEF T
<1>3. \A k \in 0 .. n : k \in T
  <2>1. \A k \in 1 .. n : k - 1 \in T => k \in T
    BY <1>2
  <2> QED
    BY <1>1, <2>1, UpTo
<1>4. n \in T
  BY <1>3
<1> QED
  BY <1>4 DEF T

(* The constants of the templates.                                          *)
LEMMA Sizes ==
  /\ RegBytes \in Nat \ {0} /\ ByteMod \in Nat \ {0, 1} /\ NumRegs \in Nat \ {0, 1}
  /\ MaxDepth \in Nat
  BY TemplateAssumption

PowersAre(f) == f = [n \in 0 .. RegBytes |-> IF n = 0 THEN 1 ELSE ByteMod * f[n - 1]]

(* Powers of the base of a byte.                                            *)
LEMMA Powers ==
  /\ Pow \in [0 .. RegBytes -> Nat \ {0}]
  /\ Pow[0] = 1 /\ \A k \in 1 .. RegBytes : Pow[k] = ByteMod * Pow[k - 1]
<1> DEFINE V == Nat \ {0}
           step == [k \in 1 .. RegBytes |-> [x \in V |-> ByteMod * x]]
<1>1. \A x \in V : ByteMod * x \in V
  BY Sizes
<1>2. step \in [1 .. RegBytes -> [V -> V]] /\ 1 \in V /\ RegBytes \in Nat
  BY <1>1, Sizes
<1>3. PICK a \in [0 .. RegBytes -> V] : Loop(a, 1, RegBytes, step)
  <2> HIDE DEF V, step
  <2> QED
    BY <1>2, LoopsEnd
<1>4. a = [n \in 0 .. RegBytes |-> IF n = 0 THEN 1 ELSE ByteMod * a[n - 1]]
  <2>1. ASSUME NEW n \in 0 .. RegBytes PROVE a[n] = IF n = 0 THEN 1 ELSE ByteMod * a[n - 1]
    <3>1. CASE n = 0
      BY <1>3, <3>1 DEF Loop
    <3>2. CASE n # 0
      <4>1. n \in 1 .. RegBytes /\ n - 1 \in 0 .. RegBytes
        BY <3>2, Sizes
      <4>2. a[n - 1] \in V
        BY <4>1
      <4> QED
        BY <1>3, <3>2, <4>1, <4>2 DEF Loop
    <3> QED
      BY <3>1, <3>2
  <2> HIDE DEF V
  <2> QED
    BY <2>1
<1>5. PowersAre(a)
  BY <1>4 DEF PowersAre
<1>6. PowersAre(Pow)
  <2>1. Pow = CHOOSE f : PowersAre(f)
    BY DEF Pow, PowersAre
  <2> QED
    BY <1>5, <2>1
<1>7. Pow[0] = 1 /\ \A k \in 1 .. RegBytes : Pow[k] = ByteMod * Pow[k - 1]
  BY <1>6, Sizes DEF PowersAre
<1>8. DOMAIN Pow = 0 .. RegBytes
  BY <1>6 DEF PowersAre
<1> DEFINE T == {k \in 0 .. RegBytes : Pow[k] \in Nat \ {0}}
<1>9. \A k \in 0 .. RegBytes : k \in T
  <2>1. 0 \in T
    BY <1>7, Sizes
  <2>2. ASSUME NEW k \in 1 .. RegBytes, k - 1 \in T PROVE k \in T
    <3>1. Pow[k - 1] \in V
      BY <2>2
    <3>2. Pow[k] \in V
      BY <1>1, <1>7, <3>1
    <3> QED
      BY <3>2
  <2> HIDE DEF T
  <2> QED
    BY <2>1, <2>2, Sizes, UpTo
<1>10. Pow = [k \in 0 .. RegBytes |-> Pow[k]]
  BY <1>6 DEF PowersAre
<1> QED
  BY <1>7, <1>9, <1>10

(* A remainder by D * m, from those by m and by D.                          *)
LEMMA OneMoreDigit ==
  ASSUME NEW m \in Nat \ {0}, NEW D \in Nat \ {0}, NEW v \in Nat
  PROVE  v % (D * m) = (v % m) + ((v \div m) % D) * m
<1>1. PICK c \in Nat, r \in 0 .. m - 1 : v \div m = c /\ v % m = r /\ v = m * c + r
  BY Divided
<1>2. PICK e \in Nat, d \in 0 .. D - 1 : c % D = d /\ c = D * e + d
  BY Divided
<1>3. v = (D * m) * e + (d * m + r)
  <2>1. m * c = m * (D * e) + m * d
    BY <1>2
  <2>2. m * (D * e) = (D * m) * e /\ m * d = d * m
    OBVIOUS
  <2>3. m * (D * e) \in Int /\ m * d \in Int
    OBVIOUS
  <2> QED
    BY <1>1, <2>1, <2>2, <2>3
<1>4. d * m + r \in 0 .. D * m - 1
  <2>1. m * d + m <= m * D /\ m * d \in Int /\ m * D \in Int
    BY MultiplesAreApart
  <2>2. m * 0 + 0 <= m * d
    OBVIOUS
  <2>3. m * d = d * m /\ m * D = D * m /\ m * 0 = 0
    OBVIOUS
  <2> QED
    BY <1>1, <2>1, <2>2, <2>3
<1>5. D * m \in Nat \ {0}
  OBVIOUS
<1>6. v % (D * m) = d * m + r
  <2>1. PICK M \in Nat \ {0} : M = D * m
    BY <1>5
  <2>2. PICK w \in 0 .. M - 1 : w = d * m + r
    BY <1>4, <2>1
  <2>3. e \in Int /\ v = M * e + w
    BY <1>3, <2>1, <2>2
  <2>4. v % M = w
    BY <2>3, RemainderIsUnique
  <2> QED
    BY <2>1, <2>2, <2>4
<1>7. d * m \in Int
  OBVIOUS
<1> QED
  BY <1>1, <1>2, <1>6, <1>7

Byte == 0 .. ByteMod - 1

(* The bytes of a register.                                                 *)
LEMMA BytesOf ==
  ASSUME NEW v \in Nat, NEW k \in 0 .. RegBytes
  PROVE  ByteOf(v, k) \in Byte
<1>1. Pow[k] \in Nat \ {0} /\ ByteMod \in Nat \ {0}
  BY Powers, Sizes
<1>2. v \div Pow[k] \in Nat
  BY <1>1, Divided
<1> QED
  BY <1>1, <1>2, Divided DEF ByteOf, Byte

Term(m, ea, k) == m[ea + k - 1] * Pow[k - 1]

SumsAre(m, ea, f) ==
  f = [k \in 0 .. RegBytes |-> IF k = 0 THEN 0 ELSE f[k - 1] + m[ea + k - 1] * Pow[k - 1]]

HasBytes(m, ea) == \A k \in 1 .. RegBytes : m[ea + k - 1] \in Byte

(* A term is a number.                                                      *)
LEMMA Terms ==
  ASSUME NEW m, NEW ea, HasBytes(m, ea), NEW k \in 1 .. RegBytes
  PROVE  Term(m, ea, k) \in Nat
<1>1. Pow[k - 1] \in Nat
  BY Powers, Sizes
<1>2. m[ea + k - 1] \in Nat
  BY Sizes DEF HasBytes, Byte
<1> QED
  BY <1>1, <1>2 DEF Term

(* A load adds the bytes up.                                                *)
LEMMA LoadSums ==
  ASSUME NEW m, NEW ea \in Int, HasBytes(m, ea)
  PROVE  \E f : /\ Load(m, ea) = f[RegBytes] /\ f[0] = 0
                /\ \A k \in 1 .. RegBytes : f[k] = f[k - 1] + Term(m, ea, k)
                /\ \A k \in 0 .. RegBytes : f[k] \in Nat
<1> DEFINE step == [k \in 1 .. RegBytes |-> [x \in Nat |-> x + Term(m, ea, k)]]
<1>1. step \in [1 .. RegBytes -> [Nat -> Nat]] /\ RegBytes \in Nat /\ 0 \in Nat
  BY Terms, Sizes
<1>2. PICK a \in [0 .. RegBytes -> Nat] : Loop(a, 0, RegBytes, step)
  <2> HIDE DEF step
  <2> QED
    BY <1>1, LoopsEnd
<1>3. ASSUME NEW n \in 0 .. RegBytes
      PROVE  a[n] = IF n = 0 THEN 0 ELSE a[n - 1] + Term(m, ea, n)
  <2>1. CASE n = 0
    BY <1>2, <2>1 DEF Loop
  <2>2. CASE n # 0
    <3>1. n \in 1 .. RegBytes /\ n - 1 \in 0 .. RegBytes
      BY <2>2, Sizes
    <3>2. a[n - 1] \in Nat
      BY <3>1
    <3> QED
      BY <1>2, <2>2, <3>1, <3>2 DEF Loop
  <2> QED
    BY <2>1, <2>2
<1>4. SumsAre(m, ea, a)
  BY <1>3 DEF SumsAre, Term
<1> DEFINE f == CHOOSE s : SumsAre(m, ea, s)
<1>5. SumsAre(m, ea, f)
  BY <1>4
<1>6. Load(m, ea) = f[RegBytes]
  BY DEF Load, SumsAre
<1> HIDE DEF f
<1>7. f[0] = 0 /\ \A k \in 1 .. RegBytes : f[k] = f[k - 1] + Term(m, ea, k)
  BY <1>5, Sizes DEF SumsAre, Term
<1> DEFINE T == {k \in 0 .. RegBytes : f[k] \in Nat}
<1>8. \A k \in 0 .. RegBytes : k \in T
  <2>1. 0 \in T
    BY <1>7, Sizes
  <2>2. ASSUME NEW k \in 1 .. RegBytes, k - 1 \in T PROVE k \in T
    BY <1>7, <2>2, Terms
  <2> HIDE DEF T
  <2> QED
    BY <2>1, <2>2, Sizes, UpTo
<1> QED
  BY <1>6, <1>7, <1>8

(* A load of the bytes of v is v, reduced to the width of a register.       *)
LEMMA LoadOfBytes ==
  ASSUME NEW m, NEW ea \in Int, NEW v \in Nat,
         \A k \in 1 .. RegBytes : m[ea + k - 1] = ByteOf(v, k - 1)
  PROVE  Load(m, ea) = v % RegMod
<1>1. HasBytes(m, ea)
  <2>1. ASSUME NEW k \in 1 .. RegBytes PROVE ByteOf(v, k - 1) \in Byte
    BY BytesOf, Sizes
  <2> QED
    BY <2>1 DEF HasBytes
<1>2. PICK f : /\ Load(m, ea) = f[RegBytes] /\ f[0] = 0
               /\ \A k \in 1 .. RegBytes : f[k] = f[k - 1] + Term(m, ea, k)
               /\ \A k \in 0 .. RegBytes : f[k] \in Nat
  BY <1>1, LoadSums
<1> DEFINE T == {k \in 0 .. RegBytes : f[k] = v % Pow[k]}
<1>3. 0 \in T
  BY <1>2, Powers, Sizes
<1>4. ASSUME NEW k \in 1 .. RegBytes, k - 1 \in T PROVE k \in T
  <2>1. k - 1 \in 0 .. RegBytes /\ k \in 0 .. RegBytes
    BY Sizes
  <2>2. PICK P \in Nat \ {0} : Pow[k - 1] = P
    BY <2>1, Powers
  <2>3. Pow[k] = ByteMod * P
    BY <2>2, Powers
  <2>4. v % (ByteMod * P) = (v % P) + ((v \div P) % ByteMod) * P
    BY Sizes, OneMoreDigit
  <2>5. Term(m, ea, k) = ((v \div P) % ByteMod) * P
    BY <2>2 DEF Term, ByteOf
  <2>6. f[k - 1] = v % P
    BY <1>4, <2>2
  <2>7. f[k] = v % Pow[k]
    BY <1>2, <2>3, <2>4, <2>5, <2>6
  <2> QED
    BY <2>1, <2>7
<1>5. \A k \in 0 .. RegBytes : k \in T
  <2> HIDE DEF T
  <2> QED
    BY <1>3, <1>4, Sizes, UpTo
<1> QED
  BY <1>2, <1>5, Sizes DEF RegMod

(* A load gives a value of a register.                                      *)
LEMMA Loaded ==
  ASSUME NEW m, NEW ea \in Int, HasBytes(m, ea)
  PROVE  Load(m, ea) \in 0 .. RegMod - 1
<1>1. PICK f : /\ Load(m, ea) = f[RegBytes] /\ f[0] = 0
               /\ \A k \in 1 .. RegBytes : f[k] = f[k - 1] + Term(m, ea, k)
               /\ \A k \in 0 .. RegBytes : f[k] \in Nat
  BY LoadSums
<1> DEFINE T == {k \in 0 .. RegBytes : f[k] < Pow[k]}
<1>2. 0 \in T
  BY <1>1, Powers, Sizes
<1>3. ASSUME NEW k \in 1 .. RegBytes, k - 1 \in T PROVE k \in T
  <2>1. k - 1 \in 0 .. RegBytes /\ k \in 0 .. RegBytes
    BY Sizes
  <2>2. PICK P \in Nat \ {0} : Pow[k - 1] = P
    BY <2>1, Powers
  <2>3. Pow[k] = ByteMod * P
    BY <2>2, Powers
  <2>4. PICK x \in Byte : m[ea + k - 1] = x
    BY DEF HasBytes
  <2>5. x \in Int /\ ByteMod \in Int /\ x < ByteMod
    BY Sizes DEF Byte
  <2>6. P * x + P <= P * ByteMod /\ P * x \in Int /\ P * ByteMod \in Int
    BY <2>5, MultiplesAreApart
  <2>7. Term(m, ea, k) = P * x /\ Pow[k] = P * ByteMod
    BY <2>2, <2>3, <2>4, <2>5, Sizes DEF Term
  <2>8. f[k - 1] \in Nat /\ f[k - 1] < P /\ f[k] = f[k - 1] + P * x
    BY <1>1, <1>3, <2>1, <2>2, <2>7
  <2>9. f[k] < Pow[k]
    BY <2>6, <2>7, <2>8
  <2> QED
    BY <2>1, <2>9
<1>4. \A k \in 0 .. RegBytes : k \in T
  <2> HIDE DEF T
  <2> QED
    BY <1>2, <1>3, Sizes, UpTo
<1>5. RegBytes \in 0 .. RegBytes /\ Pow[RegBytes] \in Nat
  BY Sizes, Powers
<1> QED
  BY <1>1, <1>4, <1>5 DEF RegMod

(* A load reads nothing but its bytes.                                      *)
LEMMA SameBytes ==
  ASSUME NEW m, NEW w, NEW ea \in Int, HasBytes(m, ea),
         \A k \in 1 .. RegBytes : m[ea + k - 1] = w[ea + k - 1]
  PROVE  Load(w, ea) = Load(m, ea)
<1>1. HasBytes(w, ea)
  BY DEF HasBytes
<1>2. PICK f : /\ Load(m, ea) = f[RegBytes] /\ f[0] = 0
               /\ \A k \in 1 .. RegBytes : f[k] = f[k - 1] + Term(m, ea, k)
               /\ \A k \in 0 .. RegBytes : f[k] \in Nat
  BY LoadSums
<1>3. PICK g : /\ Load(w, ea) = g[RegBytes] /\ g[0] = 0
               /\ \A k \in 1 .. RegBytes : g[k] = g[k - 1] + Term(w, ea, k)
               /\ \A k \in 0 .. RegBytes : g[k] \in Nat
  BY <1>1, LoadSums
<1> DEFINE T == {k \in 0 .. RegBytes : f[k] = g[k]}
<1>4. 0 \in T
  BY <1>2, <1>3, Sizes
<1>5. ASSUME NEW k \in 1 .. RegBytes, k - 1 \in T PROVE k \in T
  <2>1. Term(m, ea, k) = Term(w, ea, k)
    BY DEF Term
  <2> QED
    BY <1>2, <1>3, <1>5, <2>1
<1>6. \A k \in 0 .. RegBytes : k \in T
  <2> HIDE DEF T
  <2> QED
    BY <1>4, <1>5, Sizes, UpTo
<1> QED
  BY <1>2, <1>3, <1>6, Sizes
Addr == 0 .. StackTop - 1
Memory == [Addr -> Byte]
RegType == [1 .. NumRegs - 1 -> 0 .. RegMod - 1]
Reg == 0 .. NumRegs - 1

(* Addresses and registers are numbers. *)
LEMMA Widths ==
  /\ StackTop \in Nat /\ RegMod \in Nat \ {0} /\ NumRegs \in Nat /\ StackTop < RegMod
  /\ SP \in 1 .. NumRegs - 1 /\ SP \in Nat
<1>1. RegMod \in Nat \ {0}
  BY Powers, Sizes DEF RegMod
<1> QED
  BY <1>1, Sizes, TemplateAssumption DEF SP

(* A store changes its bytes.                                               *)
LEMMA Stored ==
  ASSUME NEW m \in Memory, NEW ea \in Nat, NEW v \in Nat
  PROVE  /\ Store(m, ea, v) \in Memory
         /\ \A a \in Addr : a < ea \/ a >= ea + RegBytes => Store(m, ea, v)[a] = m[a]
         /\ \A k \in 1 .. RegBytes :
              ea + k - 1 \in Addr => Store(m, ea, v)[ea + k - 1] = ByteOf(v, k - 1)
<1>1. DOMAIN m = Addr /\ \A a \in Addr : m[a] \in Byte
  BY DEF Memory
<1>2. ASSUME NEW a \in Addr
      PROVE  (IF a \in ea .. ea + RegBytes - 1 THEN ByteOf(v, a - ea) ELSE m[a]) \in Byte
  <2>1. CASE a \in ea .. ea + RegBytes - 1
    <3>1. a - ea \in 0 .. RegBytes
      BY <2>1, Sizes
    <3> QED
      BY <2>1, <3>1, BytesOf
  <2> QED
    BY <1>1, <2>1
<1>3. Store(m, ea, v) = [a \in Addr |-> IF a \in ea .. ea + RegBytes - 1 THEN ByteOf(v, a - ea) ELSE m[a]]
  BY <1>1 DEF Store
<1>4. Store(m, ea, v) \in Memory
  BY <1>2, <1>3 DEF Memory
<1>5. ASSUME NEW a \in Addr, a < ea \/ a >= ea + RegBytes PROVE Store(m, ea, v)[a] = m[a]
  BY <1>3, <1>5, Sizes DEF Addr
<1>6. ASSUME NEW k \in 1 .. RegBytes, ea + k - 1 \in Addr
      PROVE  Store(m, ea, v)[ea + k - 1] = ByteOf(v, k - 1)
  <2>1. ea + k - 1 \in ea .. ea + RegBytes - 1 /\ (ea + k - 1) - ea = k - 1
    BY Sizes
  <2> QED
    BY <1>3, <1>6, <2>1
<1> QED
  BY <1>4, <1>5, <1>6

(* Reading a register.                                                      *)
LEMMA Registers ==
  ASSUME NEW g \in RegType, NEW r \in Reg
  PROVE  read_reg5(g, r) \in 0 .. RegMod - 1 /\ read_reg5(g, r) % RegMod = read_reg5(g, r)
<1>1. read_reg5(g, r) \in 0 .. RegMod - 1
  <2>1. CASE r = 0
    BY <2>1, Widths DEF read_reg5
  <2>2. CASE r # 0
    <3>1. r \in 1 .. NumRegs - 1
      BY <2>2, Widths DEF Reg
    <3> QED
      BY <2>2, <3>1 DEF read_reg5, RegType
  <2> QED
    BY <2>1, <2>2
<1>2. read_reg5(g, r) \in Nat /\ read_reg5(g, r) < RegMod
  BY <1>1, Widths
<1> QED
  BY <1>1, <1>2, Widths, Remainder

(* Writing a register.                                                      *)
LEMMA RegisterWritten ==
  ASSUME NEW g \in RegType, NEW r \in Reg, NEW v \in 0 .. RegMod - 1
  PROVE  /\ write_reg5(g, r, v) \in RegType
         /\ r # 0 => write_reg5(g, r, v)[r] = v
         /\ \A x \in 1 .. NumRegs - 1 : x # r => write_reg5(g, r, v)[x] = g[x]
<1>1. CASE r = 0
  BY <1>1 DEF write_reg5
<1>2. CASE r # 0
  <2>1. r \in 1 .. NumRegs - 1
    BY <1>2, Widths DEF Reg
  <2> QED
    BY <1>2, <2>1 DEF write_reg5, RegType
<1> QED
  BY <1>1, <1>2

(* Slots follow each other.                                                 *)
LEMMA Slots ==
  ASSUME NEW base \in Nat, NEW uimm \in Nat, NEW k \in Nat
  PROVE  /\ SlotOf(base, uimm, k) \in Nat /\ SlotOf(base, uimm, 0) = base + uimm
         /\ SlotOf(base, uimm, k) >= base + uimm
         /\ k > 0 => SlotOf(base, uimm, k) = SlotOf(base, uimm, k - 1) + RegBytes
         /\ \A j \in 0 .. k - 1 : SlotOf(base, uimm, j) \in Nat
                                  /\ SlotOf(base, uimm, j) + RegBytes <= SlotOf(base, uimm, k)
                                  /\ SlotOf(base, uimm, j) >= base + uimm
<1>1. PICK B \in Nat \ {0} : B = RegBytes
  BY Sizes
<1>2. ASSUME NEW j \in Nat PROVE B * j \in Nat
  OBVIOUS
<1>3. B * 0 = 0
  OBVIOUS
<1>4. ASSUME k > 0 PROVE B * k = B * (k - 1) + B
  OBVIOUS
<1>5. ASSUME NEW j \in 0 .. k - 1 PROVE B * j + B <= B * k
  <2>1. j \in Int /\ k \in Int /\ j < k
    OBVIOUS
  <2> QED
    BY <2>1, MultiplesAreApart
<1>6. ASSUME NEW j \in 0 .. k - 1
      PROVE  /\ SlotOf(base, uimm, j) \in Nat
             /\ SlotOf(base, uimm, j) + RegBytes <= SlotOf(base, uimm, k)
             /\ SlotOf(base, uimm, j) >= base + uimm
  <2>1. j \in Nat
    OBVIOUS
  <2> QED
    BY <1>1, <1>2, <1>5, <2>1 DEF SlotOf
<1>7. ASSUME k > 0 PROVE SlotOf(base, uimm, k) = SlotOf(base, uimm, k - 1) + RegBytes
  <2>1. k - 1 \in Nat
    BY <1>7
  <2> QED
    BY <1>1, <1>2, <1>4, <1>7, <2>1 DEF SlotOf
<1>8. /\ SlotOf(base, uimm, k) \in Nat /\ SlotOf(base, uimm, 0) = base + uimm
      /\ SlotOf(base, uimm, k) >= base + uimm
  BY <1>1, <1>2, <1>3 DEF SlotOf
<1> QED
  BY <1>6, <1>7, <1>8

(* A frame holds its locals and then its slots.                             *)
LEMMA FrameIs ==
  ASSUME NEW b \in Reg, NEW e \in Reg, NEW uimm \in Nat
  PROVE  /\ NRegs(b, e) \in 0 .. NumRegs /\ NRegs(b, e) \in Nat
         /\ NRegs(b, e) > 0 => e = b + NRegs(b, e) - 1
         /\ e >= b => NRegs(b, e) = e - b + 1
         /\ FrameSize(b, e, uimm) \in Nat /\ FrameSize(b, e, uimm) >= uimm
         /\ \A base \in Nat : base + FrameSize(b, e, uimm) = SlotOf(base, uimm, NRegs(b, e))
<1>1. /\ NRegs(b, e) \in 0 .. NumRegs /\ NRegs(b, e) \in Nat
      /\ NRegs(b, e) > 0 => e = b + NRegs(b, e) - 1
      /\ e >= b => NRegs(b, e) = e - b + 1
  BY Widths DEF NRegs, Reg
<1>2. RegBytes * NRegs(b, e) \in Nat
  BY <1>1, Sizes
<1> QED
  BY <1>1, <1>2 DEF FrameSize, SlotOf

SavesAre(g, m, base, b, e, uimm, f) ==
  f = [k \in 0 .. NRegs(b, e) |->
         IF k = 0 THEN m
         ELSE Store(f[k - 1], SlotOf(base, uimm, k - 1), read_reg5(g, b + k - 1))]

(* A frame's registers are saved one after the other.                       *)
LEMMA Saving ==
  ASSUME NEW g \in RegType, NEW m \in Memory, NEW base \in Nat, NEW b \in Reg, NEW e \in Reg,
         NEW uimm \in Nat
  PROVE  \E f : /\ SaveRange(g, m, base, b, e, uimm) = f[NRegs(b, e)] /\ f[0] = m
                /\ \A k \in 1 .. NRegs(b, e) :
                     f[k] = Store(f[k - 1], SlotOf(base, uimm, k - 1), read_reg5(g, b + k - 1))
                /\ \A k \in 0 .. NRegs(b, e) : f[k] \in Memory
<1> DEFINE n == NRegs(b, e)
           step == [k \in 1 .. n |-> [x \in Memory |->
                      Store(x, SlotOf(base, uimm, k - 1), read_reg5(g, b + k - 1))]]
<1>1. n \in Nat /\ (n > 0 => e = b + n - 1)
  BY FrameIs
<1>2. ASSUME NEW k \in 1 .. n, NEW x \in Memory
      PROVE  Store(x, SlotOf(base, uimm, k - 1), read_reg5(g, b + k - 1)) \in Memory
  <2> HIDE DEF n, step
  <2>1. PICK h \in Nat, r \in Reg : h = k - 1 /\ r = b + k - 1
    <3>1. k - 1 \in Nat /\ b + k - 1 \in Reg
      BY <1>1, Widths DEF Reg
    <3> QED
      BY <3>1
  <2>2. PICK ea \in Nat, v \in Nat : ea = SlotOf(base, uimm, k - 1) /\ v = read_reg5(g, b + k - 1)
    <3>1. SlotOf(base, uimm, h) \in Nat
      BY Slots
    <3>2. read_reg5(g, r) \in 0 .. RegMod - 1
      BY Registers
    <3> QED
      BY <2>1, <3>1, <3>2, Widths
  <2> QED
    BY <2>2, Stored
<1>3. step \in [1 .. n -> [Memory -> Memory]]
  <2> HIDE DEF n
  <2> QED
    BY <1>2
<1>4. PICK a \in [0 .. n -> Memory] : Loop(a, m, n, step)
  <2> HIDE DEF n, step
  <2> QED
    BY <1>1, <1>3, LoopsEnd
<1>5. ASSUME NEW k \in 0 .. n
      PROVE  a[k] = IF k = 0 THEN m
                    ELSE Store(a[k - 1], SlotOf(base, uimm, k - 1), read_reg5(g, b + k - 1))
  <2> HIDE DEF n
  <2>1. CASE k = 0
    BY <1>4, <2>1 DEF Loop
  <2>2. CASE k # 0
    <3>1. k \in 1 .. n /\ k - 1 \in 0 .. n
      BY <1>1, <2>2
    <3>2. a[k - 1] \in Memory
      BY <3>1
    <3> QED
      BY <1>4, <2>2, <3>1, <3>2 DEF Loop
  <2> QED
    BY <2>1, <2>2
<1>6. SavesAre(g, m, base, b, e, uimm, a)
  <2>1. a = [k \in 0 .. n |-> IF k = 0 THEN m
                    ELSE Store(a[k - 1], SlotOf(base, uimm, k - 1), read_reg5(g, b + k - 1))]
    <3> HIDE DEF n
    <3> QED
      BY <1>5
  <2> QED
    BY <2>1 DEF SavesAre
<1> DEFINE f == CHOOSE s : SavesAre(g, m, base, b, e, uimm, s)
<1>7. SavesAre(g, m, base, b, e, uimm, f)
  BY <1>6
<1>8. SaveRange(g, m, base, b, e, uimm) = f[n]
  BY DEF SaveRange, SavesAre
<1> HIDE DEF f
<1>9. f[0] = m /\ \A k \in 1 .. n :
                     f[k] = Store(f[k - 1], SlotOf(base, uimm, k - 1), read_reg5(g, b + k - 1))
  <2>1. f = [k \in 0 .. n |-> IF k = 0 THEN m
                    ELSE Store(f[k - 1], SlotOf(base, uimm, k - 1), read_reg5(g, b + k - 1))]
    BY <1>7 DEF SavesAre
  <2> HIDE DEF n
  <2>2. 0 \in 0 .. n /\ \A k \in 1 .. n : k \in 0 .. n /\ k # 0
    BY <1>1
  <2> QED
    BY <2>1, <2>2
<1> DEFINE T == {k \in 0 .. n : f[k] \in Memory}
<1>10. \A k \in 0 .. n : k \in T
  <2> HIDE DEF n
  <2>1. 0 \in T
    BY <1>1, <1>9
  <2>2. ASSUME NEW k \in 1 .. n, k - 1 \in T PROVE k \in T
    BY <1>2, <1>9, <2>2
  <2> HIDE DEF T
  <2> QED
    BY <1>1, <2>1, <2>2, UpTo
<1> QED
  BY <1>8, <1>9, <1>10

(* What a frame's slots hold after its registers were saved, and that       *)
(* nothing else changed.                                                    *)
LEMMA RangeIsSaved ==
  ASSUME NEW g \in RegType, NEW m \in Memory, NEW base \in Nat, NEW b \in Reg, NEW e \in Reg,
         NEW uimm \in Nat, base + FrameSize(b, e, uimm) <= StackTop
  PROVE  /\ SaveRange(g, m, base, b, e, uimm) \in Memory
         /\ \A a \in Addr : a < base + uimm \/ a >= base + FrameSize(b, e, uimm) =>
              SaveRange(g, m, base, b, e, uimm)[a] = m[a]
         /\ \A j \in 0 .. NRegs(b, e) - 1 :
              Load(SaveRange(g, m, base, b, e, uimm), SlotOf(base, uimm, j)) = read_reg5(g, b + j)
<1>1. PICK n \in Nat : n = NRegs(b, e)
  BY FrameIs
<1>2. PICK f : /\ SaveRange(g, m, base, b, e, uimm) = f[n] /\ f[0] = m
               /\ \A k \in 1 .. n :
                    f[k] = Store(f[k - 1], SlotOf(base, uimm, k - 1), read_reg5(g, b + k - 1))
               /\ \A k \in 0 .. n : f[k] \in Memory
  BY <1>1, Saving
<1>3. ASSUME NEW j \in 0 .. n - 1 PROVE b + j \in Reg
  <2>1. n > 0 => e = b + n - 1
    BY <1>1, FrameIs
  <2> QED
    BY <2>1, Widths DEF Reg
<1>4. SlotOf(base, uimm, n) <= StackTop /\ base + FrameSize(b, e, uimm) = SlotOf(base, uimm, n)
  <2>1. base + FrameSize(b, e, uimm) = SlotOf(base, uimm, NRegs(b, e))
    BY FrameIs
  <2> QED
    BY <1>1, <2>1
<1> DEFINE Kept(k) == \A a \in Addr : a < base + uimm \/ a >= SlotOf(base, uimm, k) => f[k][a] = m[a]
           Holds(k) == \A j \in 0 .. k - 1 : \A i \in 1 .. RegBytes :
                         f[k][SlotOf(base, uimm, j) + i - 1] = ByteOf(read_reg5(g, b + j), i - 1)
           T == {k \in 0 .. n : Kept(k) /\ Holds(k)}
<1>5. 0 \in T
  BY <1>2
<1>6. ASSUME NEW k \in 1 .. n, k - 1 \in T PROVE k \in T
  <2>1. PICK h \in Nat : h = k - 1 /\ h \in 0 .. n - 1
    OBVIOUS
  <2>2. PICK ea \in Nat : /\ ea = SlotOf(base, uimm, h) /\ SlotOf(base, uimm, k) = ea + RegBytes
                          /\ ea >= base + uimm
                          /\ \A j \in 0 .. h - 1 : /\ SlotOf(base, uimm, j) \in Nat
                                                   /\ SlotOf(base, uimm, j) + RegBytes <= ea
                                                   /\ SlotOf(base, uimm, j) >= base + uimm
    <3>1. PICK c \in Nat : c = k /\ c > 0 /\ c - 1 = h
      BY <2>1
    <3>2. SlotOf(base, uimm, c) = SlotOf(base, uimm, c - 1) + RegBytes
      BY <3>1, Slots
    <3>3. /\ SlotOf(base, uimm, h) \in Nat /\ SlotOf(base, uimm, h) >= base + uimm
          /\ \A j \in 0 .. h - 1 : /\ SlotOf(base, uimm, j) \in Nat
                                    /\ SlotOf(base, uimm, j) + RegBytes <= SlotOf(base, uimm, h)
                                    /\ SlotOf(base, uimm, j) >= base + uimm
      BY Slots
    <3>4. SlotOf(base, uimm, k) = SlotOf(base, uimm, h) + RegBytes
      BY <3>1, <3>2
    <3> QED
      BY <3>3, <3>4
  <2>3. ea + RegBytes <= StackTop
    <3>1. CASE k = n
      BY <1>4, <2>2, <3>1
    <3>2. CASE k # n
      <4>1. SlotOf(base, uimm, k) \in Nat /\ SlotOf(base, uimm, k) + RegBytes <= SlotOf(base, uimm, n)
        <5>1. k \in 0 .. n - 1
          BY <3>2
        <5> QED
          BY <5>1, Slots
      <4>2. SlotOf(base, uimm, n) \in Nat
        BY Slots
      <4> QED
        BY <1>4, <2>2, <4>1, <4>2, Sizes, Widths
    <3> QED
      BY <3>1, <3>2
  <2>4. PICK v \in Nat : v = read_reg5(g, b + h)
    BY <1>3, <2>1, Registers
  <2>5. PICK x \in Memory : x = f[h] /\ f[k] = Store(x, ea, v)
    <3>1. f[k] = Store(f[k - 1], SlotOf(base, uimm, k - 1), read_reg5(g, b + k - 1))
      BY <1>2
    <3>2. b + k - 1 = b + h /\ h \in 0 .. n
      BY <2>1 DEF Reg
    <3> QED
      BY <1>2, <2>1, <2>2, <2>4, <3>1, <3>2
  <2>6. /\ \A a \in Addr : a < ea \/ a >= ea + RegBytes => f[k][a] = x[a]
        /\ \A i \in 1 .. RegBytes : ea + i - 1 \in Addr => f[k][ea + i - 1] = ByteOf(v, i - 1)
    BY <2>5, Stored
  <2>7. Kept(h) /\ Holds(h)
    BY <1>6, <2>1
  <2>8. Kept(k)
    <3>1. ASSUME NEW a \in Addr, a < base + uimm \/ a >= SlotOf(base, uimm, k)
          PROVE  f[k][a] = m[a]
      <4>1. (a < ea \/ a >= ea + RegBytes) /\ (a < base + uimm \/ a >= ea)
        BY <2>2, <3>1, Sizes DEF Addr
      <4> QED
        BY <2>2, <2>5, <2>6, <2>7, <4>1
    <3> QED
      BY <3>1
  <2>9. Holds(k)
    <3>1. ASSUME NEW j \in 0 .. k - 1, NEW i \in 1 .. RegBytes
          PROVE  f[k][SlotOf(base, uimm, j) + i - 1] = ByteOf(read_reg5(g, b + j), i - 1)
      <4>1. CASE j = h
        <5>1. ea + i - 1 \in Addr
          BY <2>3, Sizes, Widths DEF Addr
        <5> QED
          BY <2>2, <2>4, <2>6, <4>1, <5>1
      <4>2. CASE j # h
        <5>1. j \in 0 .. h - 1
          BY <2>1, <4>2
        <5>2. PICK s \in Nat : s = SlotOf(base, uimm, j) /\ s + RegBytes <= ea
          BY <2>2, <5>1
        <5>3. s + i - 1 \in Addr /\ s + i - 1 < ea
          BY <2>3, <5>2, Sizes, Widths DEF Addr
        <5>4. x[s + i - 1] = ByteOf(read_reg5(g, b + j), i - 1)
          BY <2>5, <2>7, <5>1, <5>2
        <5> QED
          BY <2>6, <5>2, <5>3, <5>4
      <4> QED
        BY <4>1, <4>2
    <3> QED
      BY <3>1
  <2> QED
    BY <2>8, <2>9
<1>7. n \in T
  <2>1. \A k \in 0 .. n : k \in T
    <3> HIDE DEF T
    <3> QED
      BY <1>5, <1>6, UpTo
  <2> QED
    BY <2>1
<1> DEFINE w == SaveRange(g, m, base, b, e, uimm)
<1>8. w \in Memory /\ w = f[n]
  BY <1>2
<1>9. ASSUME NEW j \in 0 .. n - 1 PROVE Load(w, SlotOf(base, uimm, j)) = read_reg5(g, b + j)
  <2>1. SlotOf(base, uimm, j) \in Int
    <3>1. j \in Nat
      OBVIOUS
    <3> QED
      BY <3>1, Slots
  <2>2. read_reg5(g, b + j) \in Nat /\ read_reg5(g, b + j) % RegMod = read_reg5(g, b + j)
    BY <1>3, Registers
  <2>3. \A i \in 1 .. RegBytes :
          w[SlotOf(base, uimm, j) + i - 1] = ByteOf(read_reg5(g, b + j), i - 1)
    BY <1>7, <1>8
  <2> HIDE DEF w
  <2> QED
    BY <2>1, <2>2, <2>3, LoadOfBytes
<1>10. Kept(n)
  BY <1>7
<1> HIDE DEF T
<1> QED
  BY <1>1, <1>4, <1>8, <1>9, <1>10

(* The slots of a frame that lies in memory lie in memory.                  *)
LEMMA SlotsFit ==
  ASSUME NEW base \in Nat, NEW b \in Reg, NEW e \in Reg, NEW uimm \in Nat,
         base + FrameSize(b, e, uimm) <= StackTop, NEW j \in 0 .. NRegs(b, e) - 1
  PROVE  /\ b + j \in Reg /\ b + j <= e
         /\ SlotOf(base, uimm, j) \in Nat /\ SlotOf(base, uimm, j) >= base + uimm
         /\ SlotOf(base, uimm, j) + RegBytes <= base + FrameSize(b, e, uimm)
         /\ SlotOf(base, uimm, j) + RegBytes <= StackTop
<1>1. PICK n \in Nat : n = NRegs(b, e) /\ (n > 0 => e = b + n - 1)
  BY FrameIs
<1>2. b + j \in Reg /\ b + j <= e
  BY <1>1, Widths DEF Reg
<1>3. PICK i \in 0 .. n - 1 : i = j
  BY <1>1
<1>4. /\ SlotOf(base, uimm, i) \in Nat /\ SlotOf(base, uimm, i) >= base + uimm
      /\ SlotOf(base, uimm, i) + RegBytes <= SlotOf(base, uimm, n)
  BY Slots
<1>5. SlotOf(base, uimm, n) = base + FrameSize(b, e, uimm) /\ FrameSize(b, e, uimm) \in Nat
  <2>1. /\ base + FrameSize(b, e, uimm) = SlotOf(base, uimm, NRegs(b, e))
        /\ FrameSize(b, e, uimm) \in Nat
    BY FrameIs
  <2> QED
    BY <1>1, <2>1
<1> QED
  BY <1>2, <1>3, <1>4, <1>5, Sizes, Widths

(* What lies in memory has bytes.                                           *)
LEMMA BytesThere ==
  ASSUME NEW m \in Memory, NEW ea \in Nat, ea + RegBytes <= StackTop
  PROVE  HasBytes(m, ea)
<1>1. ASSUME NEW k \in 1 .. RegBytes PROVE m[ea + k - 1] \in Byte
  <2>1. ea + k - 1 \in Addr
    BY Sizes, Widths DEF Addr
  <2> QED
    BY <2>1 DEF Memory
<1> QED
  BY <1>1 DEF HasBytes

RestoresAre(g, m, base, b, e, uimm, f) ==
  f = [k \in 0 .. NRegs(b, e) |->
         IF k = 0 THEN g
         ELSE write_reg5(f[k - 1], b + k - 1, Load(m, SlotOf(base, uimm, k - 1)))]

(* A frame's registers are restored one after the other.                    *)
LEMMA Restoring ==
  ASSUME NEW g \in RegType, NEW m \in Memory, NEW base \in Nat, NEW b \in Reg, NEW e \in Reg,
         NEW uimm \in Nat, base + FrameSize(b, e, uimm) <= StackTop
  PROVE  \E f : /\ RestoreRange(g, m, base, b, e, uimm) = f[NRegs(b, e)] /\ f[0] = g
                /\ \A k \in 1 .. NRegs(b, e) :
                     f[k] = write_reg5(f[k - 1], b + k - 1, Load(m, SlotOf(base, uimm, k - 1)))
                /\ \A k \in 0 .. NRegs(b, e) : f[k] \in RegType
<1> DEFINE n == NRegs(b, e)
           step == [k \in 1 .. n |-> [x \in RegType |->
                      write_reg5(x, b + k - 1, Load(m, SlotOf(base, uimm, k - 1)))]]
<1>1. n \in Nat
  BY FrameIs
<1>2. ASSUME NEW k \in 1 .. n, NEW x \in RegType
      PROVE  write_reg5(x, b + k - 1, Load(m, SlotOf(base, uimm, k - 1))) \in RegType
  <2>1. PICK j \in 0 .. NRegs(b, e) - 1 : j = k - 1
    BY <1>1
  <2>2. PICK r \in Reg : r = b + k - 1
    <3>1. b + j \in Reg /\ b + j = b + k - 1
      BY <2>1, SlotsFit DEF Reg
    <3> QED
      BY <3>1
  <2>3. PICK ea \in Nat : ea = SlotOf(base, uimm, k - 1) /\ ea + RegBytes <= StackTop
    BY <2>1, SlotsFit
  <2>4. Load(m, ea) \in 0 .. RegMod - 1
    BY <2>3, BytesThere, Loaded
  <2>5. write_reg5(x, r, Load(m, ea)) \in RegType
    BY <2>4, RegisterWritten
  <2> QED
    BY <2>2, <2>3, <2>5
<1>3. step \in [1 .. n -> [RegType -> RegType]]
  <2> HIDE DEF n
  <2> QED
    BY <1>2
<1>4. PICK a \in [0 .. n -> RegType] : Loop(a, g, n, step)
  <2> HIDE DEF n, step
  <2> QED
    BY <1>1, <1>3, LoopsEnd
<1>5. ASSUME NEW k \in 0 .. n
      PROVE  a[k] = IF k = 0 THEN g
                    ELSE write_reg5(a[k - 1], b + k - 1, Load(m, SlotOf(base, uimm, k - 1)))
  <2> HIDE DEF n
  <2>1. CASE k = 0
    BY <1>4, <2>1 DEF Loop
  <2>2. CASE k # 0
    <3>1. k \in 1 .. n /\ k - 1 \in 0 .. n
      BY <1>1, <2>2
    <3>2. a[k - 1] \in RegType
      BY <3>1
    <3> QED
      BY <1>4, <2>2, <3>1, <3>2 DEF Loop
  <2> QED
    BY <2>1, <2>2
<1>6. RestoresAre(g, m, base, b, e, uimm, a)
  <2>1. a = [k \in 0 .. n |-> IF k = 0 THEN g
                    ELSE write_reg5(a[k - 1], b + k - 1, Load(m, SlotOf(base, uimm, k - 1)))]
    <3> HIDE DEF n
    <3> QED
      BY <1>5
  <2> QED
    BY <2>1 DEF RestoresAre
<1> DEFINE f == CHOOSE s : RestoresAre(g, m, base, b, e, uimm, s)
<1>7. RestoresAre(g, m, base, b, e, uimm, f)
  BY <1>6
<1>8. RestoreRange(g, m, base, b, e, uimm) = f[n]
  BY DEF RestoreRange, RestoresAre
<1> HIDE DEF f
<1>9. f[0] = g /\ \A k \in 1 .. n :
                     f[k] = write_reg5(f[k - 1], b + k - 1, Load(m, SlotOf(base, uimm, k - 1)))
  <2>1. f = [k \in 0 .. n |-> IF k = 0 THEN g
                    ELSE write_reg5(f[k - 1], b + k - 1, Load(m, SlotOf(base, uimm, k - 1)))]
    BY <1>7 DEF RestoresAre
  <2> HIDE DEF n
  <2>2. 0 \in 0 .. n /\ \A k \in 1 .. n : k \in 0 .. n /\ k # 0
    BY <1>1
  <2> QED
    BY <2>1, <2>2
<1> DEFINE T == {k \in 0 .. n : f[k] \in RegType}
<1>10. \A k \in 0 .. n : k \in T
  <2> HIDE DEF n
  <2>1. 0 \in T
    BY <1>1, <1>9
  <2>2. ASSUME NEW k \in 1 .. n, k - 1 \in T PROVE k \in T
    BY <1>2, <1>9, <2>2
  <2> HIDE DEF T
  <2> QED
    BY <1>1, <2>1, <2>2, UpTo
<1> QED
  BY <1>8, <1>9, <1>10

(* What the registers of a range hold after they were restored, and that    *)
(* the others keep their values.                                            *)
LEMMA RangeIsRestored ==
  ASSUME NEW g \in RegType, NEW m \in Memory, NEW base \in Nat, NEW b \in Reg, NEW e \in Reg,
         NEW uimm \in Nat, base + FrameSize(b, e, uimm) <= StackTop
  PROVE  /\ RestoreRange(g, m, base, b, e, uimm) \in RegType
         /\ \A r \in 1 .. NumRegs - 1 :
              RestoreRange(g, m, base, b, e, uimm)[r] =
                IF b <= r /\ r <= e THEN Load(m, SlotOf(base, uimm, r - b)) ELSE g[r]
<1>1. PICK n \in Nat : n = NRegs(b, e) /\ (n > 0 => e = b + n - 1) /\ (e >= b => n = e - b + 1)
  BY FrameIs
<1>2. PICK f : /\ RestoreRange(g, m, base, b, e, uimm) = f[n] /\ f[0] = g
               /\ \A k \in 1 .. n :
                    f[k] = write_reg5(f[k - 1], b + k - 1, Load(m, SlotOf(base, uimm, k - 1)))
               /\ \A k \in 0 .. n : f[k] \in RegType
  BY <1>1, Restoring
<1> DEFINE Turn(k) == \A r \in 1 .. NumRegs - 1 :
                        f[k][r] = IF b <= r /\ r < b + k THEN Load(m, SlotOf(base, uimm, r - b))
                                  ELSE g[r]
           T == {k \in 0 .. n : Turn(k)}
<1>3. 0 \in T
  <2>1. ASSUME NEW r \in 1 .. NumRegs - 1 PROVE ~(b <= r /\ r < b + 0)
    BY Widths DEF Reg
  <2> QED
    BY <1>2, <2>1
<1>4. ASSUME NEW k \in 1 .. n, k - 1 \in T PROVE k \in T
  <2>1. PICK j \in 0 .. NRegs(b, e) - 1 : j = k - 1
    BY <1>1
  <2>2. PICK x \in Reg : x = b + k - 1
    <3>1. b + j \in Reg /\ b + j = b + k - 1
      BY <2>1, SlotsFit DEF Reg
    <3> QED
      BY <3>1
  <2>3. PICK ea \in Nat : ea = SlotOf(base, uimm, k - 1) /\ ea + RegBytes <= StackTop
    BY <2>1, SlotsFit
  <2>4. PICK v \in 0 .. RegMod - 1 : v = Load(m, ea)
    BY <2>3, BytesThere, Loaded
  <2>5. PICK h \in RegType : h = f[k - 1]
    <3>1. k - 1 \in 0 .. n
      BY <2>1, <1>1
    <3> QED
      BY <1>2, <3>1
  <2>6. f[k] = write_reg5(h, x, v)
    BY <1>2, <2>2, <2>3, <2>4, <2>5
  <2>7. ASSUME NEW r \in 1 .. NumRegs - 1
        PROVE  f[k][r] = IF b <= r /\ r < b + k THEN Load(m, SlotOf(base, uimm, r - b)) ELSE g[r]
    <3>1. CASE r = x
      <4>1. f[k][r] = v
        <5>1. x # 0 => write_reg5(h, x, v)[x] = v
          BY RegisterWritten
        <5>2. r # 0
          BY Widths
        <5> QED
          BY <2>6, <3>1, <5>1, <5>2
      <4>2. b <= r /\ r < b + k /\ r - b = k - 1
        BY <2>2, <3>1 DEF Reg
      <4> QED
        BY <2>3, <2>4, <4>1, <4>2
    <3>2. CASE r # x
      <4>1. f[k][r] = h[r]
        <5>1. write_reg5(h, x, v)[r] = h[r]
          BY <3>2, RegisterWritten
        <5> QED
          BY <2>6, <5>1
      <4>2. r < b + k <=> r < b + (k - 1)
        BY <2>2, <3>2, Widths DEF Reg
      <4>3. h[r] = IF b <= r /\ r < b + (k - 1) THEN Load(m, SlotOf(base, uimm, r - b)) ELSE g[r]
        BY <1>4, <2>5
      <4> QED
        BY <4>1, <4>2, <4>3
    <3> QED
      BY <3>1, <3>2
  <2> QED
    BY <2>7
<1>5. n \in T
  <2>1. \A k \in 0 .. n : k \in T
    <3> HIDE DEF T
    <3> QED
      BY <1>3, <1>4, UpTo
  <2> QED
    BY <2>1
<1>6. ASSUME NEW r \in 1 .. NumRegs - 1 PROVE (b <= r /\ r < b + n) <=> (b <= r /\ r <= e)
  BY <1>1, Widths DEF Reg
<1>7. Turn(n) /\ f[n] \in RegType
  BY <1>2, <1>5
<1> QED
  BY <1>2, <1>6, <1>7

(* From where a byte of a copy to d places after its source comes.          *)
From(to, src, j) == IF to > src THEN src + (j % (to - src)) ELSE src + j

(* One turn of the copy. *)
CopyOne(x, to, src, i) == [x EXCEPT ![to + i - 1] = x[src + i - 1]]

CopiesAre(to, src, len, f) ==
  f = [i \in 0 .. len |-> IF i = 0 THEN mem
                          ELSE [f[i - 1] EXCEPT ![to + i - 1] = f[i - 1][src + i - 1]]]

(* Bytes are copied one after the other.                                    *)
LEMMA Copying ==
  ASSUME mem \in Memory, NEW to \in Nat, NEW src \in Nat, NEW len \in Nat,
         to + len <= StackTop, src + len <= StackTop
  PROVE  \E f : /\ CopyBytes(to, src, len) = f[len] /\ f[0] = mem
                /\ \A i \in 1 .. len : f[i] = CopyOne(f[i - 1], to, src, i)
                /\ \A i \in 0 .. len : f[i] \in Memory
<1> DEFINE step == [i \in 1 .. len |-> [x \in Memory |->
                      [x EXCEPT ![to + i - 1] = x[src + i - 1]]]]
<1>1. ASSUME NEW i \in 1 .. len, NEW x \in Memory
      PROVE  [x EXCEPT ![to + i - 1] = x[src + i - 1]] \in Memory
  <2>1. to + i - 1 \in Addr /\ src + i - 1 \in Addr
    BY Widths DEF Addr
  <2> QED
    BY <2>1 DEF Memory
<1>2. step \in [1 .. len -> [Memory -> Memory]]
  BY <1>1
<1>3. PICK a \in [0 .. len -> Memory] : Loop(a, mem, len, step)
  <2> HIDE DEF step
  <2> QED
    BY <1>2, LoopsEnd
<1>4. ASSUME NEW i \in 0 .. len
      PROVE  a[i] = IF i = 0 THEN mem
                    ELSE [a[i - 1] EXCEPT ![to + i - 1] = a[i - 1][src + i - 1]]
  <2>1. CASE i = 0
    BY <1>3, <2>1 DEF Loop
  <2>2. CASE i # 0
    <3>1. i \in 1 .. len /\ i - 1 \in 0 .. len
      BY <2>2
    <3>2. a[i - 1] \in Memory
      BY <3>1
    <3> QED
      BY <1>3, <2>2, <3>1, <3>2 DEF Loop
  <2> QED
    BY <2>1, <2>2
<1>5. CopiesAre(to, src, len, a)
  BY <1>4 DEF CopiesAre
<1> DEFINE f == CHOOSE s : CopiesAre(to, src, len, s)
<1>6. CopiesAre(to, src, len, f)
  BY <1>5
<1>7. CopyBytes(to, src, len) = f[len]
  BY DEF CopyBytes, CopiesAre
<1> HIDE DEF f
<1>8. f[0] = mem /\ \A i \in 1 .. len :
                      f[i] = [f[i - 1] EXCEPT ![to + i - 1] = f[i - 1][src + i - 1]]
  <2>1. f = [i \in 0 .. len |-> IF i = 0 THEN mem
                          ELSE [f[i - 1] EXCEPT ![to + i - 1] = f[i - 1][src + i - 1]]]
    BY <1>6 DEF CopiesAre
  <2>2. 0 \in 0 .. len /\ \A k \in 1 .. len : k \in 0 .. len /\ k # 0
    OBVIOUS
  <2> QED
    BY <2>1, <2>2
<1> DEFINE T == {k \in 0 .. len : f[k] \in Memory}
<1>9. \A k \in 0 .. len : k \in T
  <2>1. 0 \in T
    BY <1>8
  <2>2. ASSUME NEW k \in 1 .. len, k - 1 \in T PROVE k \in T
    <3>1. PICK x \in Memory : x = f[k - 1]
      BY <2>2
    <3>2. f[k] = [x EXCEPT ![to + k - 1] = x[src + k - 1]]
      BY <1>8, <3>1
    <3> QED
      BY <1>1, <3>2
  <2> HIDE DEF T
  <2> QED
    BY <2>1, <2>2, UpTo
<1> QED
  BY <1>7, <1>8, <1>9 DEF CopyOne

(* Copying upward over the source repeats the bytes before the target.      *)
LEMMA BytesAreCopied ==
  ASSUME mem \in Memory, NEW to \in Nat, NEW src \in Nat, NEW len \in Nat,
         to + len <= StackTop, src + len <= StackTop
  PROVE  /\ CopyBytes(to, src, len) \in Memory
         /\ \A a \in Addr : a < to \/ a >= to + len => CopyBytes(to, src, len)[a] = mem[a]
         /\ \A j \in 0 .. len - 1 : CopyBytes(to, src, len)[to + j] = mem[From(to, src, j)]
<1>1. PICK f : /\ CopyBytes(to, src, len) = f[len] /\ f[0] = mem
               /\ \A i \in 1 .. len : f[i] = CopyOne(f[i - 1], to, src, i)
               /\ \A i \in 0 .. len : f[i] \in Memory
  BY Copying
<1> DEFINE Kept(i) == \A a \in Addr : a < to \/ a >= to + i => f[i][a] = mem[a]
           Moved(i) == \A j \in 0 .. i - 1 : f[i][to + j] = mem[From(to, src, j)]
           T == {i \in 0 .. len : Kept(i) /\ Moved(i)}
<1>2. 0 \in T
  BY <1>1
<1>3. ASSUME NEW i \in 1 .. len, i - 1 \in T PROVE i \in T
  <2>1. PICK h \in Nat : h = i - 1 /\ h \in 0 .. len - 1 /\ h \in 0 .. len
    OBVIOUS
  <2>2. PICK x \in Memory : x = f[h]
    BY <1>1, <2>1
  <2>3. Kept(h) /\ Moved(h)
    BY <1>3, <2>1
  <2>4. f[i] = [x EXCEPT ![to + h] = x[src + h]]
    <3>1. to + i - 1 = to + h /\ src + i - 1 = src + h /\ i - 1 = h
      BY <2>1
    <3> QED
      BY <1>1, <2>2, <3>1 DEF CopyOne
  <2>5. to + h \in Addr /\ src + h \in Addr
    BY <2>1, Widths DEF Addr
  <2>6. f[i][to + h] = x[src + h] /\ \A a \in Addr : a # to + h => f[i][a] = x[a]
    BY <2>4, <2>5 DEF Memory
  <2>7. x[src + h] = mem[From(to, src, h)]
    <3>1. CASE ~(to > src)
      <4>1. src + h >= to + h \/ src + h < to
        BY <3>1
      <4>2. x[src + h] = mem[src + h]
        BY <2>2, <2>3, <2>5, <3>1
      <4> QED
        BY <3>1, <4>2 DEF From
    <3>2. CASE to > src
      <4>1. PICK t \in Nat \ {0} : t = to - src
        BY <3>2
      <4>2. CASE h < t
        <5>1. h % t = h
          BY <4>2, Remainder
        <5>2. src + h < to
          BY <4>1, <4>2
        <5> QED
          BY <2>2, <2>3, <2>5, <3>2, <4>1, <5>1, <5>2 DEF From
      <4>3. CASE ~(h < t)
        <5>1. PICK j \in 0 .. h - 1 : j = h - t
          BY <4>1, <4>3
        <5>2. src + h = to + j
          BY <4>1, <5>1
        <5>3. x[src + h] = mem[From(to, src, j)]
          BY <2>2, <2>3, <5>2
        <5>4. h % t = j % t
          <6>1. PICK c \in Nat, r \in 0 .. t - 1 : j % t = r /\ j = t * c + r
            <7>1. j \in Nat
              OBVIOUS
            <7> QED
              BY <7>1, Divided
          <6>2. h = t * (c + 1) + r
            <7>1. t * (c + 1) = t * c + t /\ t * c \in Int
              OBVIOUS
            <7> QED
              BY <5>1, <6>1, <7>1
          <6>3. c + 1 \in Int
            OBVIOUS
          <6>4. h % t = r
            BY <6>2, <6>3, RemainderIsUnique
          <6> QED
            BY <6>1, <6>4
        <5> QED
          BY <3>2, <4>1, <5>3, <5>4 DEF From
      <4> QED
        BY <4>2, <4>3
    <3> QED
      BY <3>1, <3>2
  <2>8. Kept(i)
    <3>1. ASSUME NEW a \in Addr, a < to \/ a >= to + i PROVE f[i][a] = mem[a]
      <4>1. a # to + h /\ (a < to \/ a >= to + h)
        BY <2>1, <3>1 DEF Addr
      <4> QED
        BY <2>2, <2>3, <2>6, <4>1
    <3> QED
      BY <3>1
  <2>9. Moved(i)
    <3>1. ASSUME NEW j \in 0 .. i - 1 PROVE f[i][to + j] = mem[From(to, src, j)]
      <4>1. CASE j = h
        BY <2>6, <2>7, <4>1
      <4>2. CASE j # h
        <5>1. j \in 0 .. h - 1 /\ to + j \in Addr /\ to + j # to + h
          BY <2>1, <4>2, Widths DEF Addr
        <5> QED
          BY <2>2, <2>3, <2>6, <5>1
      <4> QED
        BY <4>1, <4>2
    <3> QED
      BY <3>1
  <2> QED
    BY <2>8, <2>9
<1>4. len \in T
  <2>1. \A k \in 0 .. len : k \in T
    <3> HIDE DEF T
    <3> QED
      BY <1>2, <1>3, UpTo
  <2> QED
    BY <2>1
<1>5. f[len] \in Memory /\ Kept(len) /\ Moved(len)
  BY <1>1, <1>4
<1> QED
  BY <1>1, <1>5
FrameType == [b : Reg, e : Reg, uimm : Imm]
SizeOf(f) == FrameSize(f.b, f.e, f.uimm)

(* A frame's operands are registers and a number, and MaxDepth frames fit.  *)
LEMMA FramesFit ==
  ASSUME NEW f \in FrameType
  PROVE  /\ f.b \in Reg /\ f.e \in Reg /\ f.uimm \in Imm /\ f.uimm \in Nat
         /\ SizeOf(f) \in Nat /\ MaxDepth * SizeOf(f) <= StackTop
<1>1. f.b \in Reg /\ f.e \in Reg /\ f.uimm \in Imm
  BY DEF FrameType
<1>2. PICK u \in Imm : u = f.uimm
  BY <1>1
<1>3. u \in Nat /\ MaxDepth * (u + RegBytes * NumRegs) <= StackTop
  BY TemplateAssumption
<1>4. PICK n \in 0 .. NumRegs : n = NRegs(f.b, f.e)
  BY <1>1, <1>3, FrameIs
<1>5. PICK B \in Nat : B = RegBytes
  BY Sizes
<1>6. PICK d \in Nat : d = MaxDepth
  BY Sizes
<1>7. PICK w \in Nat : w = NumRegs - n /\ NumRegs = n + w /\ n \in Nat
  BY Widths
<1>8. B * NumRegs = B * n + B * w /\ B * n \in Nat /\ B * w \in Nat
  BY <1>7
<1>9. PICK s \in Nat : s = u + B * n
  BY <1>3, <1>8
<1>10. PICK t \in Nat : t = B * w
  BY <1>8
<1>11. d * (s + t) <= StackTop
  <2>1. u + RegBytes * NumRegs = s + t
    BY <1>3, <1>5, <1>8, <1>9, <1>10
  <2> QED
    BY <1>3, <1>6, <2>1
<1>12. d * (s + t) = d * s + d * t /\ d * s \in Nat /\ d * t \in Nat
  OBVIOUS
<1>13. SizeOf(f) = s
  BY <1>2, <1>4, <1>5, <1>9 DEF SizeOf, FrameSize
<1>14. d * s <= StackTop
  BY <1>11, <1>12, Widths
<1> QED
  BY <1>1, <1>2, <1>3, <1>6, <1>13, <1>14

BasesAre(fs, n, f) ==
  f = [i \in 0 .. n |-> IF i = 0 THEN StackTop
                        ELSE f[i - 1] - FrameSize(fs[i].b, fs[i].e, fs[i].uimm)]

(* BaseOf, of any frames. *)
BaseAt(fs, n) == (CHOOSE f : BasesAre(fs, n, f))[n]

(* The bases of the first n frames.                                         *)
LEMMA BasesTo ==
  ASSUME NEW fs \in Seq(FrameType), NEW n \in 0 .. Len(fs)
  PROVE  \E f : /\ BaseAt(fs, n) = f[n] /\ f[0] = StackTop
                /\ \A i \in 1 .. n : f[i] = f[i - 1] - SizeOf(fs[i])
                /\ \A i \in 0 .. n : f[i] \in Int
<1> DEFINE step == [i \in 1 .. n |-> [x \in Int |-> x - SizeOf(fs[i])]]
<1>1. ASSUME NEW i \in 1 .. n PROVE SizeOf(fs[i]) \in Int
  <2>1. fs[i] \in FrameType
    OBVIOUS
  <2> QED
    BY <2>1, FramesFit
<1>2. step \in [1 .. n -> [Int -> Int]] /\ n \in Nat /\ StackTop \in Int
  BY <1>1, Widths
<1>3. PICK a \in [0 .. n -> Int] : Loop(a, StackTop, n, step)
  <2> HIDE DEF step
  <2> QED
    BY <1>2, LoopsEnd
<1>4. ASSUME NEW i \in 0 .. n
      PROVE  a[i] = IF i = 0 THEN StackTop ELSE a[i - 1] - SizeOf(fs[i])
  <2>1. CASE i = 0
    BY <1>3, <2>1 DEF Loop
  <2>2. CASE i # 0
    <3>1. i \in 1 .. n /\ i - 1 \in 0 .. n
      BY <2>2
    <3>2. a[i - 1] \in Int
      BY <3>1
    <3> QED
      BY <1>3, <2>2, <3>1, <3>2 DEF Loop
  <2> QED
    BY <2>1, <2>2
<1>5. BasesAre(fs, n, a)
  BY <1>4 DEF BasesAre, SizeOf
<1> DEFINE f == CHOOSE s : BasesAre(fs, n, s)
<1>6. BasesAre(fs, n, f) /\ BaseAt(fs, n) = f[n]
  BY <1>5 DEF BaseAt
<1> HIDE DEF f
<1>7. f[0] = StackTop /\ \A i \in 1 .. n : f[i] = f[i - 1] - SizeOf(fs[i])
  <2>1. f = [i \in 0 .. n |-> IF i = 0 THEN StackTop ELSE f[i - 1] - SizeOf(fs[i])]
    BY <1>6 DEF BasesAre, SizeOf
  <2>2. 0 \in 0 .. n /\ \A k \in 1 .. n : k \in 0 .. n /\ k # 0
    OBVIOUS
  <2> QED
    BY <2>1, <2>2
<1> DEFINE T == {k \in 0 .. n : f[k] \in Int}
<1>8. \A k \in 0 .. n : k \in T
  <2>1. 0 \in T
    BY <1>7, Widths
  <2>2. ASSUME NEW k \in 1 .. n, k - 1 \in T PROVE k \in T
    BY <1>1, <1>7, <2>2
  <2> HIDE DEF T
  <2> QED
    BY <1>2, <2>1, <2>2, UpTo
<1> QED
  BY <1>6, <1>7, <1>8

(* Bases do not depend on the frames above them.                            *)
LEMMA SameBases ==
  ASSUME NEW fs \in Seq(FrameType), NEW gs \in Seq(FrameType),
         NEW n \in 0 .. Len(fs), NEW c \in 0 .. Len(gs), NEW d \in Nat, d <= n, d <= c,
         \A i \in 1 .. d : fs[i] = gs[i],
         NEW f, f[0] = StackTop, \A i \in 1 .. n : f[i] = f[i - 1] - SizeOf(fs[i]),
         NEW g, g[0] = StackTop, \A i \in 1 .. c : g[i] = g[i - 1] - SizeOf(gs[i])
  PROVE  f[d] = g[d]
<1> DEFINE T == {k \in 0 .. d : f[k] = g[k]}
<1>1. 0 \in T
  OBVIOUS
<1>2. ASSUME NEW k \in 1 .. d, k - 1 \in T PROVE k \in T
  BY <1>2
<1>3. \A k \in 0 .. d : k \in T
  <2> HIDE DEF T
  <2> QED
    BY <1>1, <1>2, UpTo
<1> QED
  BY <1>3

(* Each frame lies below the one before it.                                 *)
LEMMA Bases ==
  ASSUME NEW fs \in Seq(FrameType), NEW n \in 0 .. Len(fs)
  PROVE  /\ BaseAt(fs, n) \in Int /\ BaseAt(fs, 0) = StackTop
         /\ n > 0 => BaseAt(fs, n) = BaseAt(fs, n - 1) - SizeOf(fs[n])
<1>1. BaseAt(fs, n) \in Int
  BY BasesTo
<1>2. BaseAt(fs, 0) = StackTop
  BY BasesTo
<1>3. ASSUME n > 0 PROVE BaseAt(fs, n) = BaseAt(fs, n - 1) - SizeOf(fs[n])
  <2>1. PICK h \in 0 .. Len(fs) : h = n - 1
    BY <1>3
  <2>2. PICK f : /\ BaseAt(fs, n) = f[n] /\ f[0] = StackTop
                 /\ \A i \in 1 .. n : f[i] = f[i - 1] - SizeOf(fs[i])
                 /\ \A i \in 0 .. n : f[i] \in Int
    BY BasesTo
  <2>3. PICK g : /\ BaseAt(fs, h) = g[h] /\ g[0] = StackTop
                 /\ \A i \in 1 .. h : g[i] = g[i - 1] - SizeOf(fs[i])
                 /\ \A i \in 0 .. h : g[i] \in Int
    BY BasesTo
  <2>4. f[h] = g[h]
    <3>1. h \in Nat /\ h <= n /\ h <= h
      BY <2>1
    <3> QED
      BY <2>2, <2>3, <3>1, SameBases
  <2> QED
    BY <1>3, <2>1, <2>2, <2>3, <2>4
<1> QED
  BY <1>1, <1>2, <1>3

(* Frames that agree up to n have the same bases up to n.                   *)
LEMMA BasesAgree ==
  ASSUME NEW fs \in Seq(FrameType), NEW gs \in Seq(FrameType),
         NEW n \in Nat, n <= Len(fs), n <= Len(gs), \A i \in 1 .. n : fs[i] = gs[i]
  PROVE  BaseAt(fs, n) = BaseAt(gs, n)
<1>1. n \in 0 .. Len(fs) /\ n \in 0 .. Len(gs) /\ n <= n
  OBVIOUS
<1>2. PICK f : /\ BaseAt(fs, n) = f[n] /\ f[0] = StackTop
               /\ \A i \in 1 .. n : f[i] = f[i - 1] - SizeOf(fs[i])
               /\ \A i \in 0 .. n : f[i] \in Int
  BY <1>1, BasesTo
<1>3. PICK g : /\ BaseAt(gs, n) = g[n] /\ g[0] = StackTop
               /\ \A i \in 1 .. n : g[i] = g[i - 1] - SizeOf(gs[i])
               /\ \A i \in 0 .. n : g[i] \in Int
  BY <1>1, BasesTo
<1>4. f[n] = g[n]
  BY <1>1, <1>2, <1>3, SameBases
<1> QED
  BY <1>2, <1>3, <1>4

(* Frames lie in memory.                                                    *)
LEMMA BasesInMemory ==
  ASSUME NEW fs \in Seq(FrameType), Len(fs) <= MaxDepth, NEW n \in 0 .. Len(fs)
  PROVE  BaseAt(fs, n) \in 0 .. StackTop
<1>1. PICK d \in Nat : d = MaxDepth
  BY Sizes
<1>2. PICK top \in Nat : top = StackTop
  BY Widths
<1> DEFINE T == {k \in 0 .. n : BaseAt(fs, k) <= top /\ d * BaseAt(fs, k) >= (d - k) * top}
<1>3. 0 \in T
  <2>1. BaseAt(fs, 0) = top
    BY <1>2, Bases
  <2> QED
    BY <2>1
<1>4. ASSUME NEW k \in 1 .. n, k - 1 \in T PROVE k \in T
  <2>1. PICK s \in Nat : s = SizeOf(fs[k]) /\ d * s <= top
    <3>1. fs[k] \in FrameType
      OBVIOUS
    <3>2. SizeOf(fs[k]) \in Nat /\ MaxDepth * SizeOf(fs[k]) <= StackTop
      BY <3>1, FramesFit
    <3> QED
      BY <1>1, <1>2, <3>2
  <2>2. PICK x \in Int : x = BaseAt(fs, k - 1)
    <3>1. PICK j \in 0 .. Len(fs) : j = k - 1
      OBVIOUS
    <3> QED
      BY <3>1, Bases
  <2>3. BaseAt(fs, k) = x - s
    <3>1. PICK j \in 0 .. Len(fs) : j = k /\ j > 0
      OBVIOUS
    <3>2. BaseAt(fs, j) = BaseAt(fs, j - 1) - SizeOf(fs[j])
      BY <3>1, Bases
    <3> QED
      BY <2>1, <2>2, <3>1, <3>2
  <2>4. x <= top /\ d * x >= (d - (k - 1)) * top
    BY <1>4, <2>2
  <2>5. d * (x - s) = d * x - d * s /\ d * x \in Int /\ d * s \in Int
    OBVIOUS
  <2>6. (d - (k - 1)) * top = (d - k) * top + top /\ (d - k) * top \in Int
    OBVIOUS
  <2>7. d * (x - s) >= (d - k) * top
    BY <2>1, <2>4, <2>5, <2>6
  <2> QED
    BY <2>3, <2>4, <2>7
<1>5. \A k \in 0 .. n : k \in T
  <2> HIDE DEF T
  <2> QED
    BY <1>3, <1>4, UpTo
<1>6. PICK x \in Int : x = BaseAt(fs, n)
  BY Bases
<1>7. x <= top /\ d * x >= (d - n) * top
  BY <1>5, <1>6
<1>8. x >= 0
  <2>1. CASE n = 0
    BY <1>2, <1>6, <2>1, Bases
  <2>2. CASE n # 0
    <3>1. d >= n /\ d > 0
      BY <1>1, <2>2
    <3>2. (d - n) * top >= 0
      BY <3>1
    <3>3. d * x >= 0
      BY <1>7, <3>2
    <3>4. x < 0 => d * x + d <= d * 0
      BY <3>1, MultiplesAreApart
    <3>5. d * 0 = 0 /\ d * x \in Int
      OBVIOUS
    <3> QED
      BY <3>1, <3>3, <3>4, <3>5
  <2> QED
    BY <2>1, <2>2
<1> QED
  BY <1>2, <1>6, <1>7, <1>8

(* A frame begins where the one above it ends, or higher.                   *)
LEMMA FramesApart ==
  ASSUME NEW fs \in Seq(FrameType), Len(fs) <= MaxDepth, NEW n \in 1 .. Len(fs)
  PROVE  /\ fs[n] \in FrameType /\ BaseAt(fs, n) \in Nat
         /\ BaseAt(fs, n) + SizeOf(fs[n]) <= StackTop
         /\ \A c \in n .. Len(fs) : BaseAt(fs, c) <= BaseAt(fs, n)
         /\ \A c \in 1 .. n - 1 : BaseAt(fs, n) + SizeOf(fs[n]) <= BaseAt(fs, c)
<1>1. ASSUME NEW c \in 1 .. Len(fs)
      PROVE  /\ BaseAt(fs, c) \in Nat /\ BaseAt(fs, c - 1) \in 0 .. StackTop
             /\ SizeOf(fs[c]) \in Nat /\ BaseAt(fs, c) + SizeOf(fs[c]) = BaseAt(fs, c - 1)
  <2>1. PICK j \in 0 .. Len(fs) : j = c /\ j > 0
    OBVIOUS
  <2>2. PICK h \in 0 .. Len(fs) : h = c - 1
    OBVIOUS
  <2>3. BaseAt(fs, j) \in 0 .. StackTop /\ BaseAt(fs, h) \in 0 .. StackTop
    BY BasesInMemory
  <2>4. BaseAt(fs, j) = BaseAt(fs, j - 1) - SizeOf(fs[j])
    BY <2>1, Bases
  <2>5. fs[c] \in FrameType
    OBVIOUS
  <2>6. SizeOf(fs[c]) \in Nat
    BY <2>5, FramesFit
  <2> QED
    BY <2>1, <2>2, <2>3, <2>4, <2>6, Widths
<1>2. ASSUME NEW a \in 0 .. Len(fs), NEW c \in a .. Len(fs) PROVE BaseAt(fs, c) <= BaseAt(fs, a)
  <2> DEFINE T == {k \in 0 .. c - a : BaseAt(fs, a + k) <= BaseAt(fs, a)}
  <2>1. BaseAt(fs, a) \in 0 .. StackTop
    BY BasesInMemory
  <2>2. 0 \in T
    BY <2>1, Widths
  <2>3. ASSUME NEW k \in 1 .. c - a, k - 1 \in T PROVE k \in T
    <3>1. PICK i \in 1 .. Len(fs) : i = a + k
      OBVIOUS
    <3>2. a + (k - 1) = i - 1
      BY <3>1
    <3>3. /\ BaseAt(fs, i) \in Nat /\ BaseAt(fs, i - 1) \in 0 .. StackTop
          /\ SizeOf(fs[i]) \in Nat /\ BaseAt(fs, i) + SizeOf(fs[i]) = BaseAt(fs, i - 1)
      BY <1>1
    <3>4. BaseAt(fs, i - 1) <= BaseAt(fs, a)
      BY <2>3, <3>2
    <3> QED
      BY <2>1, <3>1, <3>3, <3>4, Widths
  <2>4. \A k \in 0 .. c - a : k \in T
    <3>1. c - a \in Nat
      OBVIOUS
    <3> HIDE DEF T
    <3> QED
      BY <2>2, <2>3, <3>1, UpTo
  <2>5. c - a \in T /\ a + (c - a) = c
    BY <2>4
  <2> QED
    BY <2>5
<1>3. fs[n] \in FrameType
  OBVIOUS
<1>4. \A c \in n .. Len(fs) : BaseAt(fs, c) <= BaseAt(fs, n)
  BY <1>2
<1>5. ASSUME NEW c \in 1 .. n - 1 PROVE BaseAt(fs, n) + SizeOf(fs[n]) <= BaseAt(fs, c)
  <2>1. PICK a \in 0 .. Len(fs) : a = c
    OBVIOUS
  <2>2. PICK h \in a .. Len(fs) : h = n - 1
    BY <2>1
  <2>3. BaseAt(fs, h) <= BaseAt(fs, a)
    BY <1>2
  <2> QED
    BY <1>1, <2>1, <2>2, <2>3
<1>6. BaseAt(fs, n) \in Nat /\ BaseAt(fs, n) + SizeOf(fs[n]) <= StackTop
  BY <1>1, Widths
<1> QED
  BY <1>3, <1>4, <1>5, <1>6
(* What the mapped state is made of: of each frame, the registers it saved  *)
(* and its locals, read from memory.                                        *)
SavedIn(f, base, m) ==
  [r \in {x \in Saveable : f.b <= x /\ x <= f.e} |-> Load(m, SlotOf(base, f.uimm, r - f.b))]
LocalsIn(f, base, m) == [i \in 1 .. f.uimm |-> m[base + i - 1]]

SavedOf(fs, m) == [n \in DOMAIN fs |-> SavedIn(fs[n], BaseAt(fs, n), m)]
LocalsOf(fs, m) == [n \in DOMAIN fs |-> LocalsIn(fs[n], BaseAt(fs, n), m)]
RegsOf(g) == [r \in Saveable |-> g[r]]

SavedType == UNION {[D -> 0 .. RegMod - 1] : D \in SUBSET Saveable}
LocalsType == UNION {[1 .. n -> Byte] : n \in Nat}

(* The slots of a range, and those of a register in it.                     *)
LEMMA SlotOfRegister ==
  ASSUME NEW f \in FrameType, NEW base \in Nat, base + SizeOf(f) <= StackTop,
         NEW r \in Saveable, f.b <= r, r <= f.e
  PROVE  /\ r - f.b \in 0 .. NRegs(f.b, f.e) - 1
         /\ SlotOf(base, f.uimm, r - f.b) \in Nat
         /\ SlotOf(base, f.uimm, r - f.b) >= base + f.uimm
         /\ SlotOf(base, f.uimm, r - f.b) + RegBytes <= base + SizeOf(f)
         /\ SlotOf(base, f.uimm, r - f.b) + RegBytes <= StackTop
<1>1. f.b \in Reg /\ f.e \in Reg /\ f.uimm \in Nat
  BY FramesFit
<1>2. PICK b \in Reg, e \in Reg, u \in Nat : b = f.b /\ e = f.e /\ u = f.uimm
  BY <1>1
<1>3. e >= b => NRegs(b, e) = e - b + 1
  BY FrameIs
<1>4. PICK j \in 0 .. NRegs(b, e) - 1 : j = r - b
  <2>1. r - b \in 0 .. NRegs(b, e) - 1
    BY <1>2, <1>3, Widths DEF Reg, Saveable
  <2> QED
    BY <2>1
<1>5. base + FrameSize(b, e, u) <= StackTop
  BY <1>2 DEF SizeOf
<1>6. /\ SlotOf(base, u, j) \in Nat /\ SlotOf(base, u, j) >= base + u
      /\ SlotOf(base, u, j) + RegBytes <= base + FrameSize(b, e, u)
      /\ SlotOf(base, u, j) + RegBytes <= StackTop
  BY <1>5, SlotsFit
<1> QED
  BY <1>2, <1>4, <1>6 DEF SizeOf

(* What a frame holds has its type, and depends on its bytes alone.         *)
LEMMA FrameHolds ==
  ASSUME NEW f \in FrameType, NEW base \in Nat, base + SizeOf(f) <= StackTop,
         NEW m \in Memory
  PROVE  /\ SavedIn(f, base, m) \in SavedType /\ LocalsIn(f, base, m) \in LocalsType
         /\ \A w \in Memory :
              /\ (\A a \in Addr : a >= base + f.uimm /\ a < base + SizeOf(f) => w[a] = m[a])
                   => SavedIn(f, base, w) = SavedIn(f, base, m)
              /\ (\A a \in Addr : a >= base /\ a < base + f.uimm => w[a] = m[a])
                   => LocalsIn(f, base, w) = LocalsIn(f, base, m)
<1>1. f.b \in Reg /\ f.e \in Reg /\ f.uimm \in Nat /\ SizeOf(f) \in Nat /\ f.uimm <= SizeOf(f)
  <2>1. f.b \in Reg /\ f.e \in Reg /\ f.uimm \in Nat /\ SizeOf(f) \in Nat
    BY FramesFit
  <2> QED
    BY <2>1, FrameIs DEF SizeOf
<1> DEFINE D == {x \in Saveable : f.b <= x /\ x <= f.e}
<1>2. ASSUME NEW r \in D
      PROVE  Load(m, SlotOf(base, f.uimm, r - f.b)) \in 0 .. RegMod - 1
  <2>1. PICK ea \in Nat : ea = SlotOf(base, f.uimm, r - f.b) /\ ea + RegBytes <= StackTop
    BY SlotOfRegister
  <2> QED
    BY <2>1, BytesThere, Loaded
<1>3. SavedIn(f, base, m) \in SavedType
  <2>1. SavedIn(f, base, m) \in [D -> 0 .. RegMod - 1]
    <3>1. SavedIn(f, base, m) = [r \in D |-> Load(m, SlotOf(base, f.uimm, r - f.b))]
      BY DEF SavedIn
    <3> HIDE DEF D
    <3> QED
      BY <1>2, <3>1
  <2>2. D \in SUBSET Saveable
    OBVIOUS
  <2> QED
    BY <2>1, <2>2 DEF SavedType
<1>4. ASSUME NEW i \in 1 .. f.uimm PROVE base + i - 1 \in Addr
  BY <1>1, <1>4, Widths DEF Addr
<1>5. LocalsIn(f, base, m) \in LocalsType
  <2>1. ASSUME NEW i \in 1 .. f.uimm PROVE m[base + i - 1] \in Byte
    BY <1>4 DEF Memory
  <2>2. LocalsIn(f, base, m) \in [1 .. f.uimm -> Byte]
    BY <2>1 DEF LocalsIn
  <2> QED
    BY <1>1, <2>2 DEF LocalsType
<1>6. ASSUME NEW w \in Memory,
             \A a \in Addr : a >= base + f.uimm /\ a < base + SizeOf(f) => w[a] = m[a]
      PROVE  SavedIn(f, base, w) = SavedIn(f, base, m)
  <2>1. ASSUME NEW r \in D
        PROVE  Load(w, SlotOf(base, f.uimm, r - f.b)) = Load(m, SlotOf(base, f.uimm, r - f.b))
    <3>1. PICK ea \in Nat : /\ ea = SlotOf(base, f.uimm, r - f.b) /\ ea + RegBytes <= StackTop
                            /\ ea >= base + f.uimm /\ ea + RegBytes <= base + SizeOf(f)
      BY SlotOfRegister
    <3>2. ASSUME NEW k \in 1 .. RegBytes PROVE m[ea + k - 1] = w[ea + k - 1]
      <4>1. PICK a \in Addr : a = ea + k - 1
        <5>1. ea + k - 1 \in Addr
          BY <3>1, Sizes, Widths DEF Addr
        <5> QED
          BY <5>1
      <4>2. a >= base + f.uimm /\ a < base + SizeOf(f)
        BY <1>1, <3>1, <4>1, Sizes
      <4> QED
        BY <1>6, <4>1, <4>2
    <3>3. HasBytes(m, ea)
      BY <3>1, BytesThere
    <3>4. Load(w, ea) = Load(m, ea)
      BY <3>2, <3>3, SameBytes
    <3> QED
      BY <3>1, <3>4
  <2> QED
    BY <2>1 DEF SavedIn
<1>7. ASSUME NEW w \in Memory,
             \A a \in Addr : a >= base /\ a < base + f.uimm => w[a] = m[a]
      PROVE  LocalsIn(f, base, w) = LocalsIn(f, base, m)
  <2>1. ASSUME NEW i \in 1 .. f.uimm PROVE w[base + i - 1] = m[base + i - 1]
    <3>1. base + i - 1 \in Addr /\ base + i - 1 >= base /\ base + i - 1 < base + f.uimm
      BY <1>1, <1>4
    <3> QED
      BY <1>7, <3>1
  <2> QED
    BY <2>1 DEF LocalsIn
<1> QED
  BY <1>3, <1>5, <1>6, <1>7

(* The mapped sequences, one element for each frame.                        *)
LEMMA MappedSequences ==
  ASSUME NEW fs \in Seq(FrameType), Len(fs) <= MaxDepth, NEW m \in Memory
  PROVE  /\ SavedOf(fs, m) \in Seq(SavedType) /\ Len(SavedOf(fs, m)) = Len(fs)
         /\ LocalsOf(fs, m) \in Seq(LocalsType) /\ Len(LocalsOf(fs, m)) = Len(fs)
         /\ \A n \in 1 .. Len(fs) : /\ SavedOf(fs, m)[n] = SavedIn(fs[n], BaseAt(fs, n), m)
                                    /\ LocalsOf(fs, m)[n] = LocalsIn(fs[n], BaseAt(fs, n), m)
<1>1. PICK c \in Nat : c = Len(fs) /\ DOMAIN fs = 1 .. c
  OBVIOUS
<1>2. ASSUME NEW n \in 1 .. c
      PROVE  /\ SavedIn(fs[n], BaseAt(fs, n), m) \in SavedType
             /\ LocalsIn(fs[n], BaseAt(fs, n), m) \in LocalsType
  <2>1. /\ fs[n] \in FrameType /\ BaseAt(fs, n) \in Nat
        /\ BaseAt(fs, n) + SizeOf(fs[n]) <= StackTop
    BY <1>1, FramesApart
  <2> QED
    BY <2>1, FrameHolds
<1>3. /\ SavedOf(fs, m) = [n \in 1 .. c |-> SavedIn(fs[n], BaseAt(fs, n), m)]
      /\ LocalsOf(fs, m) = [n \in 1 .. c |-> LocalsIn(fs[n], BaseAt(fs, n), m)]
  BY <1>1 DEF SavedOf, LocalsOf
<1>4. SavedOf(fs, m) \in Seq(SavedType) /\ Len(SavedOf(fs, m)) = c
  BY <1>2, <1>3
<1>5. LocalsOf(fs, m) \in Seq(LocalsType) /\ Len(LocalsOf(fs, m)) = c
  BY <1>2, <1>3
<1> QED
  BY <1>1, <1>3, <1>4, <1>5

(* Types, and sp where the frames say.                                      *)
FrameInv ==
  /\ gpr \in RegType /\ mem \in Memory
  /\ frames \in Seq(FrameType) /\ Len(frames) <= MaxDepth
  /\ gpr[SP] = BaseAt(frames, Len(frames))

(* The invariant says more than the types of the model.                     *)
LEMMA InvTypes == FrameInv => TemplateTypeOK
<1> SUFFICES ASSUME FrameInv PROVE TemplateTypeOK
  OBVIOUS
<1>1. gpr \in [1 .. NumRegs - 1 -> 0 .. RegMod - 1]
  BY DEF FrameInv, RegType
<1>2. \A a \in DOMAIN mem : mem[a] \in 0 .. ByteMod - 1
  BY DEF FrameInv, Memory, Byte
<1>3. BaseOf(Len(frames)) = BaseAt(frames, Len(frames))
  BY DEF BaseOf, BaseAt, BasesAre
<1> QED
  BY <1>1, <1>2, <1>3 DEF FrameInv, TemplateTypeOK

(* The invariant holds at first.                                            *)
LEMMA FramesInit == TemplateInit => FrameInv /\ SavedOf(frames, mem) = <<>> /\ LocalsOf(frames, mem) = <<>>
<1> SUFFICES ASSUME TemplateInit
             PROVE  FrameInv /\ SavedOf(frames, mem) = <<>> /\ LocalsOf(frames, mem) = <<>>
  OBVIOUS
<1>1. PICK g \in [2 .. NumRegs - 1 -> Value] :
        gpr = [r \in 1 .. NumRegs - 1 |-> IF r = SP THEN StackTop ELSE g[r]]
  BY DEF TemplateInit
<1>2. gpr \in RegType
  <2>1. ASSUME NEW r \in 1 .. NumRegs - 1
        PROVE  (IF r = SP THEN StackTop ELSE g[r]) \in 0 .. RegMod - 1
    <3>1. CASE r = SP
      BY <3>1, TemplateAssumption
    <3>2. CASE r # SP
      <4>1. r \in 2 .. NumRegs - 1
        BY <3>2 DEF SP
      <4> QED
        BY <3>2, <4>1, TemplateAssumption
    <3> QED
      BY <3>1, <3>2
  <2> QED
    BY <1>1, <2>1 DEF RegType
<1>3. gpr[SP] = StackTop
  BY <1>1, Widths
<1>4. mem \in Memory
  <2>1. 0 \in Byte
    BY Sizes DEF Byte
  <2> QED
    BY <2>1 DEF TemplateInit, Memory, Addr
<1>5. frames = <<>> /\ frames \in Seq(FrameType) /\ Len(frames) = 0 /\ DOMAIN frames = {}
  BY DEF TemplateInit
<1>6. BaseAt(frames, Len(frames)) = StackTop
  <2>1. PICK n \in 0 .. Len(frames) : n = 0
    BY <1>5
  <2>2. BaseAt(frames, 0) = StackTop
    BY <1>5, <2>1, Bases
  <2> QED
    BY <1>5, <2>2
<1>7. SavedOf(frames, mem) = <<>> /\ LocalsOf(frames, mem) = <<>>
  <2>1. SavedOf(frames, mem) \in Seq(SavedType) /\ Len(SavedOf(frames, mem)) = 0
    BY <1>4, <1>5, MappedSequences, Sizes
  <2>2. LocalsOf(frames, mem) \in Seq(LocalsType) /\ Len(LocalsOf(frames, mem)) = 0
    BY <1>4, <1>5, MappedSequences, Sizes
  <2> QED
    BY <2>1, <2>2
<1> QED
  BY <1>2, <1>3, <1>4, <1>5, <1>6, <1>7, Sizes DEF FrameInv

(* Frames keep what they hold when no byte of theirs changes.               *)
LEMMA FramesKept ==
  ASSUME NEW fs \in Seq(FrameType), Len(fs) <= MaxDepth, NEW m \in Memory, NEW w \in Memory,
         NEW n \in 0 .. Len(fs), \A a \in Addr : a >= BaseAt(fs, n) => w[a] = m[a]
  PROVE  \A i \in 1 .. n : /\ SavedIn(fs[i], BaseAt(fs, i), w) = SavedIn(fs[i], BaseAt(fs, i), m)
                           /\ LocalsIn(fs[i], BaseAt(fs, i), w) = LocalsIn(fs[i], BaseAt(fs, i), m)
<1>1. SUFFICES ASSUME NEW i \in 1 .. n
               PROVE  /\ SavedIn(fs[i], BaseAt(fs, i), w) = SavedIn(fs[i], BaseAt(fs, i), m)
                      /\ LocalsIn(fs[i], BaseAt(fs, i), w) = LocalsIn(fs[i], BaseAt(fs, i), m)
  OBVIOUS
<1>2. PICK f \in FrameType, base \in Nat :
        f = fs[i] /\ base = BaseAt(fs, i) /\ base + SizeOf(f) <= StackTop /\ BaseAt(fs, n) <= base
  <2>1. PICK j \in 1 .. Len(fs) : j = i
    OBVIOUS
  <2>2. /\ fs[j] \in FrameType /\ BaseAt(fs, j) \in Nat
        /\ BaseAt(fs, j) + SizeOf(fs[j]) <= StackTop
        /\ \A c \in j .. Len(fs) : BaseAt(fs, c) <= BaseAt(fs, j)
    BY FramesApart
  <2> QED
    BY <2>1, <2>2
<1>3. \A a \in Addr : a >= base => w[a] = m[a]
  <2>1. BaseAt(fs, n) \in Int
    BY Bases
  <2> QED
    BY <1>2, <2>1 DEF Addr
<1>4. f.uimm \in Nat
  BY FramesFit
<1>5. \A a \in Addr : a >= base + f.uimm /\ a < base + SizeOf(f) => w[a] = m[a]
  BY <1>3, <1>4 DEF Addr
<1> QED
  BY <1>2, <1>3, <1>5, FrameHolds

EnterTerms ==
  /\ \E b, e \in Saveable \cup {0, 1} :
       SavedOf(frames', mem') = Append(SavedOf(frames, mem),
                                       [r \in {x \in Saveable : b <= x /\ x <= e} |-> RegsOf(gpr)[r]])
  /\ Len(LocalsOf(frames', mem')) = Len(LocalsOf(frames, mem)) + 1
  /\ SubSeq(LocalsOf(frames', mem'), 1, Len(LocalsOf(frames', mem')) - 1) = LocalsOf(frames, mem)
  /\ RegsOf(gpr') = RegsOf(gpr)

(* A sequence without its last element.                                     *)
LEMMA ShorterSequence ==
  ASSUME NEW S, NEW a \in Seq(S), NEW b \in Seq(S), NEW n \in Nat, Len(b) = n, Len(a) = n + 1,
         \A i \in 1 .. n : a[i] = b[i]
  PROVE  SubSeq(a, 1, Len(a) - 1) = b
<1>1. Len(a) - 1 = n
  OBVIOUS
<1>2. SubSeq(a, 1, n) \in Seq(S) /\ Len(SubSeq(a, 1, n)) = n
      /\ \A i \in 1 .. n : SubSeq(a, 1, n)[i] = a[i]
  OBVIOUS
<1>3. \A i \in 1 .. n : SubSeq(a, 1, n)[i] = b[i]
  BY <1>2
<1>4. SubSeq(a, 1, n) = b
  BY <1>2, <1>3, SameSequence
<1> QED
  BY <1>1, <1>4

(* A number below the modulus of a register.                                *)
LEMMA Reduced ==
  ASSUME NEW x \in 0 .. StackTop
  PROVE  x % RegMod = x /\ x \in 0 .. RegMod - 1
<1>1. x \in Nat /\ x < RegMod
  BY Widths
<1> QED
  BY <1>1, Widths, Remainder

(* FENTRY saves its range in a frame of its own.                            *)
LEMMA FentryEnters == FrameInv /\ Fentry => FrameInv' /\ EnterTerms
<1> SUFFICES ASSUME FrameInv, Fentry PROVE FrameInv' /\ EnterTerms
  OBVIOUS
<1>1. PICK range \in RegRange, uimm \in Imm :
        LET b == range[1]  e == range[2]
            sp1 == (gpr[SP] - FrameSize(b, e, uimm)) % RegMod
            g == write_reg5(gpr, SP, sp1)
        IN /\ gpr' = g
           /\ mem' = SaveRange(g, mem, sp1, b, e, uimm)
           /\ frames' = Append(frames, [b |-> b, e |-> e, uimm |-> uimm])
  BY DEF Fentry
<1>2. PICK b \in Reg, e \in Reg : b = range[1] /\ e = range[2]
  BY TemplateAssumption DEF Reg
<1>3. PICK f \in FrameType : f = [b |-> b, e |-> e, uimm |-> uimm]
  BY DEF FrameType
<1>4. f.b = b /\ f.e = e /\ f.uimm = uimm /\ uimm \in Nat /\ SizeOf(f) = FrameSize(b, e, uimm)
      /\ SizeOf(f) \in Nat
  <2>1. f.b = b /\ f.e = e /\ f.uimm = uimm
    BY <1>3
  <2> QED
    BY <2>1, FramesFit DEF SizeOf
<1>5. PICK L \in Nat : L = Len(frames) /\ L < MaxDepth /\ L \in 0 .. Len(frames)
  BY DEF FrameInv, Fentry
<1>6. PICK fs \in Seq(FrameType) : fs = Append(frames, f)
  <2>1. PICK old \in Seq(FrameType) : old = frames
    BY DEF FrameInv
  <2>2. Append(old, f) \in Seq(FrameType)
    OBVIOUS
  <2> QED
    BY <2>1, <2>2
<1>7. /\ Len(fs) = L + 1 /\ Len(fs) <= MaxDepth /\ fs[L + 1] = f
      /\ \A i \in 1 .. L : fs[i] = frames[i]
  <2>1. PICK old \in Seq(FrameType) : old = frames
    BY DEF FrameInv
  <2>2. Len(old) = L
    BY <1>5, <2>1
  <2>3. /\ Len(Append(old, f)) = L + 1 /\ Append(old, f)[L + 1] = f
        /\ \A i \in 1 .. L : Append(old, f)[i] = old[i]
    BY <2>2
  <2>4. L + 1 <= MaxDepth
    BY <1>5, Sizes
  <2> QED
    BY <1>6, <2>1, <2>3, <2>4
<1>8. frames' = fs
  BY <1>1, <1>2, <1>3, <1>6
<1>9. \A n \in 0 .. L : BaseAt(fs, n) = BaseAt(frames, n)
  <2>1. ASSUME NEW n \in 0 .. L PROVE BaseAt(fs, n) = BaseAt(frames, n)
    <3>1. /\ n \in Nat /\ n <= Len(fs) /\ n <= Len(frames) /\ \A i \in 1 .. n : fs[i] = frames[i]
          /\ frames \in Seq(FrameType)
      BY <1>5, <1>7 DEF FrameInv
    <3> QED
      BY <3>1, BasesAgree
  <2> QED
    BY <2>1
<1>10. PICK top \in 0 .. StackTop : top = gpr[SP] /\ top = BaseAt(fs, L)
  <2>1. gpr[SP] = BaseAt(frames, L)
    BY <1>5 DEF FrameInv
  <2>2. BaseAt(fs, L) = gpr[SP]
    BY <1>9, <2>1
  <2>3. L \in 0 .. Len(fs)
    BY <1>7
  <2>4. BaseAt(fs, L) \in 0 .. StackTop
    BY <1>7, <2>3, BasesInMemory
  <2> QED
    BY <2>2, <2>4
<1>11. PICK base \in 0 .. StackTop : base = BaseAt(fs, L + 1) /\ base = top - SizeOf(f)
  <2>1. PICK n \in 0 .. Len(fs) : n = L + 1 /\ n > 0
    BY <1>7
  <2>2. BaseAt(fs, n) = BaseAt(fs, n - 1) - SizeOf(fs[n])
    BY <2>1, Bases
  <2>3. BaseAt(fs, n) \in 0 .. StackTop
    BY <1>7, BasesInMemory
  <2>4. n - 1 = L
    BY <2>1
  <2> QED
    BY <1>7, <1>10, <2>1, <2>2, <2>3, <2>4
<1>12. base + FrameSize(b, e, uimm) = top /\ base \in Nat
  BY <1>4, <1>11, Widths
<1>13. PICK v \in 0 .. RegMod - 1 : v = base /\ v = (gpr[SP] - FrameSize(b, e, uimm)) % RegMod
  <2>1. base % RegMod = base /\ base \in 0 .. RegMod - 1
    BY Reduced
  <2> QED
    BY <1>4, <1>10, <1>11, <2>1
<1>14. PICK g \in RegType : g = write_reg5(gpr, SP, v) /\ g[SP] = v
                            /\ \A x \in 1 .. NumRegs - 1 : x # SP => g[x] = gpr[x]
  <2>1. PICK s \in Reg : s = SP /\ s # 0
    BY Widths DEF Reg, SP
  <2>2. /\ write_reg5(gpr, s, v) \in RegType /\ write_reg5(gpr, s, v)[s] = v
        /\ \A x \in 1 .. NumRegs - 1 : x # s => write_reg5(gpr, s, v)[x] = gpr[x]
    BY <2>1, RegisterWritten DEF FrameInv
  <2> QED
    BY <2>1, <2>2
<1>15. gpr' = g /\ mem' = SaveRange(g, mem, base, b, e, uimm)
  BY <1>1, <1>2, <1>13, <1>14
<1>16. PICK w \in Memory :
         /\ w = mem'
         /\ \A a \in Addr : a < base + uimm \/ a >= base + FrameSize(b, e, uimm) => w[a] = mem[a]
         /\ \A j \in 0 .. NRegs(b, e) - 1 :
              Load(w, SlotOf(base, uimm, j)) = read_reg5(g, b + j)
  <2>1. base + FrameSize(b, e, uimm) <= StackTop
    BY <1>12
  <2>2. mem \in Memory
    BY DEF FrameInv
  <2> QED
    BY <1>4, <1>12, <1>15, <2>1, <2>2, RangeIsSaved
<1>17. FrameInv'
  <2>1. gpr'[SP] = BaseAt(frames', Len(frames'))
    BY <1>7, <1>8, <1>11, <1>13, <1>14, <1>15
  <2> QED
    BY <1>7, <1>8, <1>14, <1>15, <1>16, <2>1 DEF FrameInv
<1> DEFINE fresh == [r \in {x \in Saveable : b <= x /\ x <= e} |-> RegsOf(gpr)[r]]
<1>18. SavedIn(f, base, w) = fresh
  <2>1. ASSUME NEW r \in {x \in Saveable : b <= x /\ x <= e}
        PROVE  Load(w, SlotOf(base, uimm, r - b)) = RegsOf(gpr)[r]
    <3>1. r - b \in 0 .. NRegs(b, e) - 1
      BY <1>4, <1>12, SlotOfRegister
    <3>2. PICK j \in 0 .. NRegs(b, e) - 1 : j = r - b
      BY <3>1
    <3>3. Load(w, SlotOf(base, uimm, j)) = read_reg5(g, b + j)
      BY <1>16
    <3>4. b + j = r /\ r # 0 /\ r # SP /\ r \in 1 .. NumRegs - 1
      BY <3>2, Widths DEF Reg, Saveable, SP
    <3>5. read_reg5(g, r) = gpr[r]
      BY <1>14, <3>4 DEF read_reg5
    <3> QED
      BY <3>2, <3>3, <3>4, <3>5 DEF RegsOf
  <2>2. SavedIn(f, base, w) =
          [r \in {x \in Saveable : b <= x /\ x <= e} |-> Load(w, SlotOf(base, uimm, r - b))]
    BY <1>4 DEF SavedIn
  <2> QED
    BY <2>1, <2>2
<1> HIDE DEF fresh
<1>19. \A a \in Addr : a >= BaseAt(fs, L) => w[a] = mem[a]
  BY <1>10, <1>12, <1>16
<1>20. \A i \in 1 .. L :
         /\ SavedIn(fs[i], BaseAt(fs, i), w) = SavedIn(frames[i], BaseAt(frames, i), mem)
         /\ LocalsIn(fs[i], BaseAt(fs, i), w) = LocalsIn(frames[i], BaseAt(frames, i), mem)
  <2>1. L \in 0 .. Len(fs) /\ mem \in Memory
    BY <1>7 DEF FrameInv
  <2>2. \A i \in 1 .. L :
          /\ SavedIn(fs[i], BaseAt(fs, i), w) = SavedIn(fs[i], BaseAt(fs, i), mem)
          /\ LocalsIn(fs[i], BaseAt(fs, i), w) = LocalsIn(fs[i], BaseAt(fs, i), mem)
    BY <1>7, <1>19, <2>1, FramesKept
  <2>3. \A i \in 1 .. L : fs[i] = frames[i] /\ BaseAt(fs, i) = BaseAt(frames, i)
    BY <1>7, <1>9
  <2> QED
    BY <2>2, <2>3
<1>21. /\ SavedOf(fs, w) \in Seq(SavedType) /\ Len(SavedOf(fs, w)) = L + 1
       /\ LocalsOf(fs, w) \in Seq(LocalsType) /\ Len(LocalsOf(fs, w)) = L + 1
       /\ \A n \in 1 .. L + 1 : /\ SavedOf(fs, w)[n] = SavedIn(fs[n], BaseAt(fs, n), w)
                                /\ LocalsOf(fs, w)[n] = LocalsIn(fs[n], BaseAt(fs, n), w)
  BY <1>7, MappedSequences
<1>22. /\ SavedOf(frames, mem) \in Seq(SavedType) /\ Len(SavedOf(frames, mem)) = L
       /\ LocalsOf(frames, mem) \in Seq(LocalsType) /\ Len(LocalsOf(frames, mem)) = L
       /\ \A n \in 1 .. L : /\ SavedOf(frames, mem)[n] = SavedIn(frames[n], BaseAt(frames, n), mem)
                            /\ LocalsOf(frames, mem)[n] = LocalsIn(frames[n], BaseAt(frames, n), mem)
  BY <1>5, MappedSequences DEF FrameInv
<1>23. SavedOf(fs, w) = Append(SavedOf(frames, mem), fresh)
  <2>1. \A n \in 1 .. L : SavedOf(fs, w)[n] = SavedOf(frames, mem)[n]
    BY <1>20, <1>21, <1>22
  <2>2. SavedOf(fs, w)[L + 1] = fresh /\ fresh \in SavedType
    <3>1. L + 1 \in 1 .. L + 1
      OBVIOUS
    <3>2. SavedOf(fs, w)[L + 1] = fresh
      BY <1>7, <1>11, <1>18, <1>21, <3>1
    <3>3. SavedOf(fs, w)[L + 1] \in SavedType
      BY <1>21, <3>1
    <3> QED
      BY <3>2, <3>3
  <2> QED
    BY <1>21, <1>22, <2>1, <2>2, AppendedSequence
<1>24. SubSeq(LocalsOf(fs, w), 1, Len(LocalsOf(fs, w)) - 1) = LocalsOf(frames, mem)
  <2>1. \A n \in 1 .. L : LocalsOf(fs, w)[n] = LocalsOf(frames, mem)[n]
    BY <1>20, <1>21, <1>22
  <2> QED
    BY <1>21, <1>22, <2>1, ShorterSequence
<1>25. b \in Saveable \cup {0, 1} /\ e \in Saveable \cup {0, 1}
  BY Widths DEF Reg, Saveable
<1>26. RegsOf(gpr') = RegsOf(gpr)
  <2>1. ASSUME NEW r \in Saveable PROVE gpr'[r] = gpr[r]
    BY <1>14, <1>15, Widths DEF Saveable, SP
  <2> QED
    BY <2>1 DEF RegsOf
<1>27. EnterTerms
  <2>1. SavedOf(frames', mem') = Append(SavedOf(frames, mem), fresh)
    BY <1>8, <1>16, <1>23
  <2>2. /\ Len(LocalsOf(frames', mem')) = Len(LocalsOf(frames, mem)) + 1
        /\ SubSeq(LocalsOf(frames', mem'), 1, Len(LocalsOf(frames', mem')) - 1) = LocalsOf(frames, mem)
    BY <1>8, <1>16, <1>21, <1>22, <1>24
  <2> QED
    BY <1>25, <1>26, <2>1, <2>2 DEF EnterTerms, fresh
<1> QED
  BY <1>17, <1>27
ButLastOf(s) == SubSeq(s, 1, Len(s) - 1)
LastOf(s) == s[Len(s)]

LeaveTerms ==
  /\ SavedOf(frames, mem) # <<>>
  /\ RegsOf(gpr') =
       [r \in Saveable |-> IF r \in DOMAIN LastOf(SavedOf(frames, mem))
                           THEN LastOf(SavedOf(frames, mem))[r] ELSE RegsOf(gpr)[r]]
  /\ SavedOf(frames', mem') = ButLastOf(SavedOf(frames, mem))
  /\ LocalsOf(frames', mem') = ButLastOf(LocalsOf(frames, mem))

(* The innermost frame.                                                     *)
LEMMA TopFrame ==
  ASSUME FrameInv, frames # <<>>
  PROVE  \E L \in Nat \ {0}, f \in FrameType, base \in Nat :
           /\ L = Len(frames) /\ L \in 1 .. Len(frames) /\ L \in 0 .. Len(frames)
           /\ f = Top /\ f = frames[L]
           /\ base = BaseAt(frames, L) /\ base = gpr[SP]
           /\ f.b \in Reg /\ f.e \in Reg /\ f.uimm \in Nat /\ SizeOf(f) \in Nat
           /\ SizeOf(f) = FrameSize(f.b, f.e, f.uimm) /\ f.uimm <= SizeOf(f)
           /\ base + SizeOf(f) <= StackTop /\ base + SizeOf(f) = BaseAt(frames, L - 1)
<1>1. PICK fs \in Seq(FrameType) : fs = frames
  BY DEF FrameInv
<1>2. PICK L \in Nat \ {0} : L = Len(frames) /\ L \in 1 .. Len(fs) /\ L \in 0 .. Len(fs) /\ L > 0
  BY <1>1
<1>3. /\ fs[L] \in FrameType /\ BaseAt(fs, L) \in Nat /\ BaseAt(fs, L) + SizeOf(fs[L]) <= StackTop
  BY <1>1, <1>2, FramesApart DEF FrameInv
<1>4. PICK f \in FrameType, base \in Nat : f = fs[L] /\ base = BaseAt(fs, L)
  BY <1>3
<1>5. BaseAt(fs, L) = BaseAt(fs, L - 1) - SizeOf(fs[L])
  BY <1>2, Bases
<1>6. BaseAt(fs, L - 1) \in Int
  <2>1. PICK h \in 0 .. Len(fs) : h = L - 1
    BY <1>2
  <2> QED
    BY <2>1, Bases
<1>7. f.b \in Reg /\ f.e \in Reg /\ f.uimm \in Nat /\ SizeOf(f) \in Nat
  BY FramesFit
<1>8. SizeOf(f) = FrameSize(f.b, f.e, f.uimm) /\ f.uimm <= SizeOf(f)
  BY <1>7, FrameIs DEF SizeOf
<1>9. f = Top /\ base = gpr[SP]
  BY <1>1, <1>2, <1>4 DEF Top, FrameInv
<1>10. base + SizeOf(f) <= StackTop /\ base + SizeOf(f) = BaseAt(fs, L - 1)
  BY <1>3, <1>4, <1>5, <1>6, <1>7
<1> QED
  BY <1>1, <1>2, <1>4, <1>7, <1>8, <1>9, <1>10

(* FEXIT gives back the registers that its frame saved.                     *)
LEMMA FexitLeaves == FrameInv /\ Fexit => FrameInv' /\ LeaveTerms
<1> SUFFICES ASSUME FrameInv, Fexit PROVE FrameInv' /\ LeaveTerms
  OBVIOUS
<1>1. PICK L \in Nat \ {0}, f \in FrameType, base \in Nat :
           /\ L = Len(frames) /\ L \in 1 .. Len(frames) /\ L \in 0 .. Len(frames)
           /\ f = Top /\ f = frames[L]
           /\ base = BaseAt(frames, L) /\ base = gpr[SP]
           /\ f.b \in Reg /\ f.e \in Reg /\ f.uimm \in Nat /\ SizeOf(f) \in Nat
           /\ SizeOf(f) = FrameSize(f.b, f.e, f.uimm) /\ f.uimm <= SizeOf(f)
           /\ base + SizeOf(f) <= StackTop /\ base + SizeOf(f) = BaseAt(frames, L - 1)
  BY TopFrame DEF Fexit
<1>2. PICK b \in Reg, e \in Reg, uimm \in Nat : b = f.b /\ e = f.e /\ uimm = f.uimm
  BY <1>1
<1>3. PICK h \in Nat : h = L - 1
  OBVIOUS
<1>4. PICK up \in 0 .. RegMod - 1 : up = BaseAt(frames, h) /\ up = NewSP(gpr)
  <2>1. PICK x \in 0 .. StackTop : x = base + SizeOf(f)
    BY <1>1, Widths
  <2>2. x % RegMod = x /\ x \in 0 .. RegMod - 1
    BY Reduced
  <2>3. NewSP(gpr) = x % RegMod
    BY <1>1, <2>1 DEF NewSP
  <2> QED
    BY <1>1, <1>3, <2>1, <2>2, <2>3
<1>5. PICK g \in RegType : /\ g = RestoreRange(gpr, mem, base, b, e, uimm)
                           /\ \A r \in 1 .. NumRegs - 1 :
                                g[r] = IF b <= r /\ r <= e THEN Load(mem, SlotOf(base, uimm, r - b))
                                       ELSE gpr[r]
  <2>1. base + FrameSize(b, e, uimm) <= StackTop /\ gpr \in RegType /\ mem \in Memory
    BY <1>1, <1>2 DEF FrameInv
  <2> QED
    BY <2>1, RangeIsRestored
<1>6. gpr' = write_reg5(g, SP, up) /\ frames' = SubSeq(frames, 1, Len(frames) - 1) /\ mem' = mem
  <2>1. NewSP(g) = NewSP(gpr)
    BY DEF NewSP
  <2> QED
    BY <1>1, <1>2, <1>4, <1>5, <2>1 DEF Fexit
<1>7. /\ gpr' \in RegType /\ gpr'[SP] = up
      /\ \A x \in 1 .. NumRegs - 1 : x # SP => gpr'[x] = g[x]
  <2>1. PICK s \in Reg : s = SP /\ s # 0
    BY Widths DEF Reg, SP
  <2>2. /\ write_reg5(g, s, up) \in RegType /\ write_reg5(g, s, up)[s] = up
        /\ \A x \in 1 .. NumRegs - 1 : x # s => write_reg5(g, s, up)[x] = g[x]
    BY <2>1, RegisterWritten
  <2> QED
    BY <1>6, <2>1, <2>2
<1>8. PICK old \in Seq(FrameType) : old = frames /\ Len(old) = L /\ Len(old) <= MaxDepth
  BY <1>1 DEF FrameInv
<1>9. PICK fs \in Seq(FrameType) :
        fs = frames' /\ Len(fs) = h /\ Len(fs) <= MaxDepth /\ \A i \in 1 .. h : fs[i] = old[i]
  <2>1. /\ SubSeq(old, 1, h) \in Seq(FrameType) /\ Len(SubSeq(old, 1, h)) = h
        /\ \A i \in 1 .. h : SubSeq(old, 1, h)[i] = old[i]
    <3>1. Len(old) = h + 1
      BY <1>3, <1>8
    <3> QED
      BY <3>1
  <2>2. frames' = SubSeq(old, 1, h) /\ h <= MaxDepth
    <3>1. Len(frames) - 1 = h /\ h <= L
      BY <1>1, <1>3
    <3> QED
      BY <1>6, <1>8, <3>1, Sizes
  <2> QED
    BY <2>1, <2>2
<1>10. \A n \in 0 .. h : BaseAt(fs, n) = BaseAt(old, n)
  <2>1. ASSUME NEW n \in 0 .. h PROVE BaseAt(fs, n) = BaseAt(old, n)
    <3>1. n \in Nat /\ n <= Len(fs) /\ n <= Len(old) /\ \A i \in 1 .. n : fs[i] = old[i]
      BY <1>3, <1>8, <1>9
    <3> QED
      BY <3>1, BasesAgree
  <2> QED
    BY <2>1
<1>11. FrameInv'
  <2>1. gpr'[SP] = BaseAt(frames', Len(frames'))
    <3>1. BaseAt(fs, h) = BaseAt(old, h)
      BY <1>10
    <3>2. BaseAt(fs, h) = up
      BY <1>4, <1>8, <3>1
    <3>3. BaseAt(frames', Len(frames')) = BaseAt(fs, h)
      BY <1>9
    <3> QED
      BY <1>7, <3>2, <3>3
  <2>2. mem' \in Memory
    BY <1>6 DEF FrameInv
  <2> QED
    BY <1>7, <1>9, <2>1, <2>2 DEF FrameInv
<1>12. /\ SavedOf(old, mem) \in Seq(SavedType) /\ Len(SavedOf(old, mem)) = L
       /\ LocalsOf(old, mem) \in Seq(LocalsType) /\ Len(LocalsOf(old, mem)) = L
       /\ \A n \in 1 .. L : /\ SavedOf(old, mem)[n] = SavedIn(old[n], BaseAt(old, n), mem)
                            /\ LocalsOf(old, mem)[n] = LocalsIn(old[n], BaseAt(old, n), mem)
  BY <1>8, MappedSequences DEF FrameInv
<1>13. /\ SavedOf(fs, mem) \in Seq(SavedType) /\ Len(SavedOf(fs, mem)) = h
       /\ LocalsOf(fs, mem) \in Seq(LocalsType) /\ Len(LocalsOf(fs, mem)) = h
       /\ \A n \in 1 .. h : /\ SavedOf(fs, mem)[n] = SavedIn(fs[n], BaseAt(fs, n), mem)
                            /\ LocalsOf(fs, mem)[n] = LocalsIn(fs[n], BaseAt(fs, n), mem)
  BY <1>9, MappedSequences DEF FrameInv
<1>14. \A n \in 1 .. h : /\ SavedOf(old, mem)[n] = SavedOf(fs, mem)[n]
                         /\ LocalsOf(old, mem)[n] = LocalsOf(fs, mem)[n]
  BY <1>3, <1>9, <1>10, <1>12, <1>13
<1>15. L = h + 1
  BY <1>3
<1>16. ButLastOf(SavedOf(old, mem)) = SavedOf(fs, mem)
  BY <1>12, <1>13, <1>14, <1>15, ShorterSequence DEF ButLastOf
<1>17. ButLastOf(LocalsOf(old, mem)) = LocalsOf(fs, mem)
  BY <1>12, <1>13, <1>14, <1>15, ShorterSequence DEF ButLastOf
<1>18. LastOf(SavedOf(old, mem)) = SavedIn(f, base, mem)
  BY <1>1, <1>8, <1>12 DEF LastOf
<1>19. RegsOf(gpr') = [r \in Saveable |-> IF r \in DOMAIN SavedIn(f, base, mem)
                                          THEN SavedIn(f, base, mem)[r] ELSE RegsOf(gpr)[r]]
  <2>1. ASSUME NEW r \in Saveable
        PROVE  gpr'[r] = IF r \in DOMAIN SavedIn(f, base, mem)
                         THEN SavedIn(f, base, mem)[r] ELSE RegsOf(gpr)[r]
    <3>1. r \in 1 .. NumRegs - 1 /\ r # SP
      BY Widths DEF Saveable, SP
    <3>2. gpr'[r] = IF b <= r /\ r <= e THEN Load(mem, SlotOf(base, uimm, r - b)) ELSE gpr[r]
      BY <1>5, <1>7, <3>1
    <3>3. RegsOf(gpr)[r] = gpr[r]
      BY DEF RegsOf
    <3>4. SavedIn(f, base, mem) =
            [x \in {y \in Saveable : b <= y /\ y <= e} |-> Load(mem, SlotOf(base, uimm, x - b))]
      BY <1>2 DEF SavedIn
    <3>5. CASE b <= r /\ r <= e
      <4>1. r \in DOMAIN SavedIn(f, base, mem)
            /\ SavedIn(f, base, mem)[r] = Load(mem, SlotOf(base, uimm, r - b))
        BY <3>4, <3>5
      <4> QED
        BY <3>2, <3>5, <4>1
    <3>6. CASE ~(b <= r /\ r <= e)
      <4>1. r \notin DOMAIN SavedIn(f, base, mem)
        BY <3>4, <3>6
      <4> QED
        BY <3>2, <3>3, <3>6, <4>1
    <3> QED
      BY <3>5, <3>6
  <2> QED
    BY <2>1 DEF RegsOf
<1>20. SavedOf(old, mem) # <<>>
  BY <1>12
<1>21. LeaveTerms
  BY <1>6, <1>8, <1>9, <1>16, <1>17, <1>18, <1>19, <1>20 DEF LeaveTerms
<1> QED
  BY <1>11, <1>21

SetTerms ==
  /\ \E r \in Saveable, v \in Value : RegsOf(gpr') = [RegsOf(gpr) EXCEPT ![r] = v]
  /\ SavedOf(frames', mem') = SavedOf(frames, mem) /\ LocalsOf(frames', mem') = LocalsOf(frames, mem)

(* A write to a register is one of the abstract machine.                    *)
LEMMA WriteSets == FrameInv /\ WriteReg => FrameInv' /\ SetTerms
<1> SUFFICES ASSUME FrameInv, WriteReg PROVE FrameInv' /\ SetTerms
  OBVIOUS
<1>1. PICK r \in Saveable, v \in Value : gpr' = write_reg5(gpr, r, v) /\ mem' = mem /\ frames' = frames
  BY DEF WriteReg, Saveable
<1>2. PICK x \in Reg, y \in 0 .. RegMod - 1 : x = r /\ y = v /\ x # 0 /\ x # SP
  BY TemplateAssumption, Widths DEF Saveable, Reg, SP
<1>3. /\ gpr' \in RegType /\ gpr'[r] = v /\ \A i \in 1 .. NumRegs - 1 : i # r => gpr'[i] = gpr[i]
  <2>1. /\ write_reg5(gpr, x, y) \in RegType /\ write_reg5(gpr, x, y)[x] = y
        /\ \A i \in 1 .. NumRegs - 1 : i # x => write_reg5(gpr, x, y)[i] = gpr[i]
    BY <1>2, RegisterWritten DEF FrameInv
  <2> QED
    BY <1>1, <1>2, <2>1
<1>4. FrameInv'
  <2>1. gpr'[SP] = gpr[SP]
    BY <1>2, <1>3, Widths
  <2> QED
    BY <1>1, <1>3, <2>1 DEF FrameInv
<1>5. RegsOf(gpr') = [RegsOf(gpr) EXCEPT ![r] = v]
  <2>1. ASSUME NEW i \in Saveable PROVE gpr'[i] = IF i = r THEN v ELSE gpr[i]
    BY <1>3, Widths DEF Saveable
  <2> QED
    BY <2>1 DEF RegsOf
<1> QED
  BY <1>1, <1>4, <1>5 DEF SetTerms
(* The innermost locals with bytes d to d + n - 1 changed to those of f.    *)
Rewritten(ls, d, n, f) ==
  [ls EXCEPT ![Len(ls)] =
     [i \in DOMAIN LastOf(ls) |-> IF i \in d .. d + n - 1 THEN f[i - d] ELSE @[i]]]

CopySource(ls, d, s) ==
  [j \in Nat |-> LastOf(ls)[IF d > s THEN s + (j % (d - s)) ELSE s + j]]

CopyTerms ==
  LET ls == LocalsOf(frames, mem) IN
  /\ ls # <<>> /\ LastOf(ls) # <<>>
  /\ \E d, s \in DOMAIN LastOf(ls), n \in 0 .. 1 + Len(LastOf(ls)) :
       /\ {d + n - 1, s + n - 1} \subseteq DOMAIN LastOf(ls) \cup {d - 1, s - 1}
       /\ LocalsOf(frames', mem') = Rewritten(ls, d, n, CopySource(ls, d, s))
  /\ RegsOf(gpr') = RegsOf(gpr) /\ SavedOf(frames', mem') = SavedOf(frames, mem)

FillTerms ==
  LET ls == LocalsOf(frames, mem) IN
  /\ ls # <<>>
  /\ \E d \in DOMAIN LastOf(ls), n \in 0 .. 1 + Len(LastOf(ls)), v \in {ByteOf(x, 0) : x \in Value} :
       /\ d + n - 1 \in DOMAIN LastOf(ls) \cup {d - 1}
       /\ LocalsOf(frames', mem') = Rewritten(ls, d, n, [j \in Nat |-> v])
  /\ RegsOf(gpr') = RegsOf(gpr) /\ SavedOf(frames', mem') = SavedOf(frames, mem)

(* Bytes at to at + n - 1 of m become those of f. *)
Changes(m, w, at, n, f) ==
  /\ \A a \in Addr : a < at \/ a >= at + n => w[a] = m[a]
  /\ \A j \in 0 .. n - 1 : w[at + j] = f[j]

(* What a change within the innermost locals changes: them alone.           *)
LEMMA LocalsChange ==
  ASSUME FrameInv, frames # <<>>, NEW w \in Memory, NEW d \in Nat, NEW n \in Nat, NEW f,
         d + n <= Top.uimm, Changes(mem, w, gpr[SP] + d, n, f)
  PROVE  /\ SavedOf(frames, w) = SavedOf(frames, mem)
         /\ LocalsOf(frames, mem) # <<>>
         /\ LastOf(LocalsOf(frames, mem)) = [i \in 1 .. Top.uimm |-> mem[gpr[SP] + i - 1]]
         /\ DOMAIN LastOf(LocalsOf(frames, mem)) = 1 .. Top.uimm
         /\ LocalsOf(frames, w) = Rewritten(LocalsOf(frames, mem), d + 1, n, f)
<1>1. PICK L \in Nat \ {0}, g \in FrameType, base \in Nat :
           /\ L = Len(frames) /\ L \in 1 .. Len(frames) /\ L \in 0 .. Len(frames)
           /\ g = Top /\ g = frames[L]
           /\ base = BaseAt(frames, L) /\ base = gpr[SP]
           /\ g.b \in Reg /\ g.e \in Reg /\ g.uimm \in Nat /\ SizeOf(g) \in Nat
           /\ SizeOf(g) = FrameSize(g.b, g.e, g.uimm) /\ g.uimm <= SizeOf(g)
           /\ base + SizeOf(g) <= StackTop /\ base + SizeOf(g) = BaseAt(frames, L - 1)
  BY TopFrame
<1>2. PICK fs \in Seq(FrameType) : /\ fs = frames /\ Len(fs) = L /\ Len(fs) <= MaxDepth
                                   /\ fs[L] = g /\ BaseAt(fs, L) = base
  BY <1>1 DEF FrameInv
<1>3. PICK uimm \in Nat, size \in Nat :
        /\ uimm = g.uimm /\ uimm = Top.uimm /\ d + n <= uimm
        /\ size = SizeOf(g) /\ uimm <= size /\ base + size <= StackTop
  <2>1. g.uimm = Top.uimm /\ g.uimm \in Nat /\ SizeOf(g) \in Nat /\ d + n <= Top.uimm
    BY <1>1
  <2> QED
    BY <1>1, <2>1
<1>4. /\ SavedOf(fs, mem) \in Seq(SavedType) /\ Len(SavedOf(fs, mem)) = L
      /\ LocalsOf(fs, mem) \in Seq(LocalsType) /\ Len(LocalsOf(fs, mem)) = L
      /\ \A i \in 1 .. L : /\ SavedOf(fs, mem)[i] = SavedIn(fs[i], BaseAt(fs, i), mem)
                           /\ LocalsOf(fs, mem)[i] = LocalsIn(fs[i], BaseAt(fs, i), mem)
  BY <1>2, MappedSequences DEF FrameInv
<1>5. /\ SavedOf(fs, w) \in Seq(SavedType) /\ Len(SavedOf(fs, w)) = L
      /\ LocalsOf(fs, w) \in Seq(LocalsType) /\ Len(LocalsOf(fs, w)) = L
      /\ \A i \in 1 .. L : /\ SavedOf(fs, w)[i] = SavedIn(fs[i], BaseAt(fs, i), w)
                           /\ LocalsOf(fs, w)[i] = LocalsIn(fs[i], BaseAt(fs, i), w)
  BY <1>2, MappedSequences
<1>6. PICK h \in 0 .. Len(fs) : h = L - 1
  BY <1>2
<1>7. \A i \in 1 .. h : /\ SavedIn(fs[i], BaseAt(fs, i), w) = SavedIn(fs[i], BaseAt(fs, i), mem)
                        /\ LocalsIn(fs[i], BaseAt(fs, i), w) = LocalsIn(fs[i], BaseAt(fs, i), mem)
  <2>1. \A a \in Addr : a >= BaseAt(fs, h) => w[a] = mem[a]
    <3>1. BaseAt(fs, h) = base + SizeOf(g)
      BY <1>1, <1>2, <1>6
    <3>2. ASSUME NEW a \in Addr, a >= base + size PROVE a >= base + d + n
      BY <1>3, <3>2 DEF Addr
    <3> QED
      BY <1>1, <1>3, <3>1, <3>2 DEF Changes
  <2> QED
    BY <1>2, <2>1, FramesKept DEF FrameInv
<1>8. SavedIn(g, base, w) = SavedIn(g, base, mem)
  <2>1. \A a \in Addr : a >= base + g.uimm /\ a < base + SizeOf(g) => w[a] = mem[a]
    <3>1. ASSUME NEW a \in Addr, a >= base + uimm PROVE a >= base + d + n
      BY <1>3, <3>1 DEF Addr
    <3> QED
      BY <1>1, <1>3, <3>1 DEF Changes
  <2> QED
    BY <1>1, <2>1, FrameHolds DEF FrameInv
<1>9. SavedOf(fs, w) = SavedOf(fs, mem)
  <2>1. ASSUME NEW i \in 1 .. L PROVE SavedOf(fs, w)[i] = SavedOf(fs, mem)[i]
    <3>1. CASE i = L
      BY <1>2, <1>4, <1>5, <1>8, <3>1
    <3>2. CASE i # L
      <4>1. i \in 1 .. h
        BY <1>6, <3>2
      <4> QED
        BY <1>4, <1>5, <1>7, <4>1
    <3> QED
      BY <3>1, <3>2
  <2> QED
    BY <1>4, <1>5, <2>1, SameSequence
<1> DEFINE ls == LocalsOf(fs, mem)
<1>10. LastOf(ls) = [i \in 1 .. uimm |-> mem[base + i - 1]]
  <2>1. L \in 1 .. L
    OBVIOUS
  <2>2. ls[L] = LocalsIn(g, base, mem)
    BY <1>2, <1>4, <2>1
  <2> QED
    BY <1>3, <1>4, <2>2 DEF LastOf, LocalsIn
<1>11. ls # <<>>
  BY <1>4
<1>12. LocalsOf(fs, w)[L] =
         [i \in 1 .. uimm |-> IF i \in d + 1 .. d + 1 + n - 1 THEN f[i - (d + 1)] ELSE ls[L][i]]
  <2>1. LocalsOf(fs, w)[L] = [i \in 1 .. uimm |-> w[base + i - 1]]
    <3>1. L \in 1 .. L
      OBVIOUS
    <3>2. LocalsOf(fs, w)[L] = LocalsIn(g, base, w)
      BY <1>2, <1>5, <3>1
    <3> QED
      BY <1>3, <3>2 DEF LocalsIn
  <2>2. ls[L] = [i \in 1 .. uimm |-> mem[base + i - 1]]
    BY <1>4, <1>10 DEF LastOf
  <2>3. ASSUME NEW i \in 1 .. uimm
        PROVE  w[base + i - 1] = IF i \in d + 1 .. d + 1 + n - 1 THEN f[i - (d + 1)] ELSE ls[L][i]
    <3>1. CASE i \in d + 1 .. d + 1 + n - 1
      <4>1. PICK j \in 0 .. n - 1 : j = i - (d + 1)
        BY <3>1
      <4>2. base + i - 1 = base + d + j
        BY <4>1
      <4>3. w[base + d + j] = f[j]
        BY <1>1 DEF Changes
      <4> QED
        BY <3>1, <4>1, <4>2, <4>3
    <3>2. CASE i \notin d + 1 .. d + 1 + n - 1
      <4>1. PICK a \in Addr : a = base + i - 1 /\ (a < base + d \/ a >= base + d + n)
        <5>1. base + i - 1 \in Addr
          BY <1>3, Widths DEF Addr
        <5>2. base + i - 1 < base + d \/ base + i - 1 >= base + d + n
          BY <3>2
        <5> QED
          BY <5>1, <5>2
      <4>2. w[a] = mem[a]
        BY <1>1, <4>1 DEF Changes
      <4> QED
        BY <2>2, <3>2, <4>1, <4>2
    <3> QED
      BY <3>1, <3>2
  <2> HIDE DEF ls
  <2> QED
    BY <2>1, <2>3
<1>13. LocalsOf(fs, w) = Rewritten(ls, d + 1, n, f)
  <2>1. DOMAIN ls = 1 .. L /\ Len(ls) = L /\ DOMAIN LastOf(ls) = 1 .. uimm
    BY <1>4, <1>10
  <2>2. LocalsOf(fs, w) = [i \in 1 .. L |-> LocalsOf(fs, w)[i]]
    BY <1>5
  <2>3. Rewritten(ls, d + 1, n, f) =
          [i \in 1 .. L |-> IF i = L
             THEN [k \in 1 .. uimm |-> IF k \in d + 1 .. d + 1 + n - 1 THEN f[k - (d + 1)] ELSE ls[L][k]]
             ELSE ls[i]]
    <3> HIDE DEF ls
    <3> QED
      BY <2>1 DEF Rewritten
  <2>4. ASSUME NEW i \in 1 .. L, i # L PROVE LocalsOf(fs, w)[i] = ls[i]
    <3>1. i \in 1 .. h
      BY <1>6, <2>4
    <3> QED
      BY <1>4, <1>5, <1>7, <3>1
  <2> HIDE DEF ls
  <2> QED
    BY <1>12, <2>2, <2>3, <2>4
<1> QED
  BY <1>1, <1>2, <1>3, <1>9, <1>10, <1>11, <1>13

(* What does not change a register or a frame's operands.                   *)
LEMMA InvKept ==
  ASSUME FrameInv, gpr' = gpr, frames' = frames, mem' \in Memory
  PROVE  FrameInv'
BY DEF FrameInv

(* MCOPY copies within the innermost locals.                                *)
LEMMA McopyCopies == FrameInv /\ Mcopy => FrameInv' /\ CopyTerms
<1> SUFFICES ASSUME FrameInv, Mcopy PROVE FrameInv' /\ CopyTerms
  OBVIOUS
<1>1. frames # <<>> /\ gpr' = gpr /\ frames' = frames
  BY DEF Mcopy
<1>2. PICK L \in Nat \ {0}, g \in FrameType, base \in Nat :
           /\ L = Len(frames) /\ L \in 1 .. Len(frames) /\ L \in 0 .. Len(frames)
           /\ g = Top /\ g = frames[L]
           /\ base = BaseAt(frames, L) /\ base = gpr[SP]
           /\ g.b \in Reg /\ g.e \in Reg /\ g.uimm \in Nat /\ SizeOf(g) \in Nat
           /\ SizeOf(g) = FrameSize(g.b, g.e, g.uimm) /\ g.uimm <= SizeOf(g)
           /\ base + SizeOf(g) <= StackTop /\ base + SizeOf(g) = BaseAt(frames, L - 1)
  BY <1>1, TopFrame
<1>3. PICK uimm \in Nat : uimm = Top.uimm /\ base + uimm <= StackTop
  BY <1>2, Widths
<1>4. PICK len \in Nat, d \in Nat, s \in Nat :
        /\ mem' = CopyBytes(base + d, base + s, len)
        /\ d < uimm /\ s < uimm /\ d + len <= uimm /\ s + len <= uimm /\ len <= uimm
  <2>1. PICK len \in 0 .. uimm :
          \E d, s \in Places(len) : mem' = CopyBytes(gpr[SP] + d, gpr[SP] + s, len)
    BY <1>3 DEF Mcopy
  <2>2. PICK d \in Places(len), s \in Places(len) : mem' = CopyBytes(gpr[SP] + d, gpr[SP] + s, len)
    BY <2>1
  <2>3. /\ d \in Nat /\ s \in Nat /\ len \in Nat
        /\ d < uimm /\ s < uimm /\ d + len <= uimm /\ s + len <= uimm /\ len <= uimm
    BY <1>3 DEF Places
  <2> QED
    BY <1>2, <2>2, <2>3
<1>5. PICK to \in Nat, src \in Nat :
        to = base + d /\ src = base + s /\ to + len <= StackTop /\ src + len <= StackTop
  <2>1. base + d \in Nat /\ base + s \in Nat
    OBVIOUS
  <2>2. base + d + len <= StackTop /\ base + s + len <= StackTop
    BY <1>3, <1>4, Widths
  <2> QED
    BY <2>1, <2>2
<1>6. PICK w \in Memory :
        /\ w = mem'
        /\ \A a \in Addr : a < to \/ a >= to + len => w[a] = mem[a]
        /\ \A j \in 0 .. len - 1 : w[to + j] = mem[From(to, src, j)]
  <2>1. /\ CopyBytes(to, src, len) \in Memory
        /\ \A a \in Addr : a < to \/ a >= to + len => CopyBytes(to, src, len)[a] = mem[a]
        /\ \A j \in 0 .. len - 1 : CopyBytes(to, src, len)[to + j] = mem[From(to, src, j)]
    BY <1>5, BytesAreCopied DEF FrameInv
  <2>2. mem' = CopyBytes(to, src, len)
    BY <1>4, <1>5
  <2> QED
    BY <2>1, <2>2
<1>7. FrameInv'
  BY <1>1, <1>6, InvKept
<1> DEFINE ls == LocalsOf(frames, mem)
<1> DEFINE f == [j \in 0 .. len - 1 |-> mem[From(to, src, j)]]
<1>8. /\ SavedOf(frames, w) = SavedOf(frames, mem)
      /\ ls # <<>>
      /\ LastOf(ls) = [i \in 1 .. uimm |-> mem[base + i - 1]]
      /\ DOMAIN LastOf(ls) = 1 .. uimm
      /\ LocalsOf(frames, w) = Rewritten(ls, d + 1, len, f)
  <2>1. \A a \in Addr : a < gpr[SP] + d \/ a >= gpr[SP] + d + len => w[a] = mem[a]
    BY <1>2, <1>5, <1>6
  <2>2. \A j \in 0 .. len - 1 : w[gpr[SP] + d + j] = f[j]
    BY <1>2, <1>5, <1>6
  <2>3. d + len <= Top.uimm
    BY <1>3, <1>4
  <2> HIDE DEF f
  <2>4. /\ SavedOf(frames, w) = SavedOf(frames, mem)
        /\ LocalsOf(frames, mem) # <<>>
        /\ LastOf(LocalsOf(frames, mem)) = [i \in 1 .. Top.uimm |-> mem[gpr[SP] + i - 1]]
        /\ DOMAIN LastOf(LocalsOf(frames, mem)) = 1 .. Top.uimm
        /\ LocalsOf(frames, w) = Rewritten(LocalsOf(frames, mem), d + 1, len, f)
    <3>1. Changes(mem, w, gpr[SP] + d, len, f)
      BY <2>1, <2>2 DEF Changes
    <3> QED
      BY <1>1, <2>3, <3>1, LocalsChange
  <2> QED
    BY <1>2, <1>3, <2>4
<1>9. ASSUME NEW j \in 0 .. len - 1 PROVE f[j] = CopySource(ls, d + 1, s + 1)[j]
  <2>1. CASE d > s
    <3>1. PICK t \in Nat \ {0} : t = d - s /\ t = to - src /\ t = (d + 1) - (s + 1)
      BY <1>5, <2>1
    <3>2. PICK r \in 0 .. t - 1 : r = j % t
      <4>1. j \in Nat
        OBVIOUS
      <4> QED
        BY <4>1, Divided
    <3>3. f[j] = mem[src + r]
      BY <1>5, <2>1, <3>1, <3>2 DEF From
    <3>4. CopySource(ls, d + 1, s + 1)[j] = LastOf(ls)[(s + 1) + r]
      BY <2>1, <3>1, <3>2 DEF CopySource
    <3>5. (s + 1) + r \in 1 .. uimm /\ base + ((s + 1) + r) - 1 = src + r
      BY <1>4, <1>5, <2>1, <3>1
    <3> QED
      BY <1>8, <3>3, <3>4, <3>5
  <2>2. CASE ~(d > s)
    <3>1. f[j] = mem[src + j]
      BY <1>5, <2>2 DEF From
    <3>2. CopySource(ls, d + 1, s + 1)[j] = LastOf(ls)[(s + 1) + j]
      BY <2>2 DEF CopySource
    <3>3. (s + 1) + j \in 1 .. uimm /\ base + ((s + 1) + j) - 1 = src + j
      BY <1>4, <1>5
    <3> QED
      BY <1>8, <3>1, <3>2, <3>3
  <2> QED
    BY <2>1, <2>2
<1>10. Rewritten(ls, d + 1, len, f) = Rewritten(ls, d + 1, len, CopySource(ls, d + 1, s + 1))
  <2>1. ASSUME NEW i \in 1 .. uimm, NEW k \in LocalsType
        PROVE  (IF i \in d + 1 .. d + 1 + len - 1 THEN f[i - (d + 1)] ELSE k[i])
                 = (IF i \in d + 1 .. d + 1 + len - 1
                    THEN CopySource(ls, d + 1, s + 1)[i - (d + 1)] ELSE k[i])
    <3>1. CASE i \in d + 1 .. d + 1 + len - 1
      <4>1. i - (d + 1) \in 0 .. len - 1
        BY <3>1
      <4> HIDE DEF f, ls
      <4> QED
        BY <1>9, <4>1
    <3> QED
      BY <3>1
  <2>2. ls[Len(ls)] \in LocalsType
    <3>1. ls \in Seq(LocalsType)
      BY MappedSequences DEF FrameInv
    <3> HIDE DEF ls
    <3> QED
      BY <1>8, <3>1
  <2>3. [i \in 1 .. uimm |-> IF i \in d + 1 .. d + 1 + len - 1 THEN f[i - (d + 1)] ELSE ls[Len(ls)][i]]
          = [i \in 1 .. uimm |-> IF i \in d + 1 .. d + 1 + len - 1
                    THEN CopySource(ls, d + 1, s + 1)[i - (d + 1)] ELSE ls[Len(ls)][i]]
    <3> HIDE DEF f, ls
    <3> QED
      BY <2>1, <2>2
  <2> HIDE DEF f, ls
  <2> QED
    BY <1>8, <2>3 DEF Rewritten
<1>11. LastOf(ls) # <<>> /\ Len(LastOf(ls)) = uimm
  <2>1. LastOf(ls) \in Seq(Byte)
    <3>1. ASSUME NEW i \in 1 .. uimm PROVE mem[base + i - 1] \in Byte
      <4>1. base + i - 1 \in Addr
        BY <1>3, Widths DEF Addr
      <4> QED
        BY <4>1 DEF FrameInv, Memory
    <3> HIDE DEF ls
    <3> QED
      BY <1>8, <3>1
  <2> HIDE DEF ls
  <2>2. Len(LastOf(ls)) = uimm
    BY <1>8, <2>1
  <2> QED
    BY <1>4, <2>2
<1>12. /\ d + 1 \in DOMAIN LastOf(ls) /\ s + 1 \in DOMAIN LastOf(ls) /\ len \in 0 .. 1 + Len(LastOf(ls))
       /\ {(d + 1) + len - 1, (s + 1) + len - 1}
            \subseteq DOMAIN LastOf(ls) \cup {(d + 1) - 1, (s + 1) - 1}
  <2> HIDE DEF ls
  <2> QED
    BY <1>4, <1>8, <1>11
<1>13. /\ LocalsOf(frames', mem') = Rewritten(ls, d + 1, len, CopySource(ls, d + 1, s + 1))
       /\ RegsOf(gpr') = RegsOf(gpr) /\ SavedOf(frames', mem') = SavedOf(frames, mem)
  <2> HIDE DEF f
  <2> QED
    BY <1>1, <1>6, <1>8, <1>10
<1>14. CopyTerms
  <2> HIDE DEF f
  <2> QED
    BY <1>8, <1>11, <1>12, <1>13 DEF CopyTerms
<1> QED
  BY <1>7, <1>14

(* MSET fills within the innermost locals.                                  *)
LEMMA MsetFills == FrameInv /\ Mset => FrameInv' /\ FillTerms
<1> SUFFICES ASSUME FrameInv, Mset PROVE FrameInv' /\ FillTerms
  OBVIOUS
<1>1. frames # <<>> /\ gpr' = gpr /\ frames' = frames
  BY DEF Mset
<1>2. PICK L \in Nat \ {0}, g \in FrameType, base \in Nat :
           /\ L = Len(frames) /\ L \in 1 .. Len(frames) /\ L \in 0 .. Len(frames)
           /\ g = Top /\ g = frames[L]
           /\ base = BaseAt(frames, L) /\ base = gpr[SP]
           /\ g.b \in Reg /\ g.e \in Reg /\ g.uimm \in Nat /\ SizeOf(g) \in Nat
           /\ SizeOf(g) = FrameSize(g.b, g.e, g.uimm) /\ g.uimm <= SizeOf(g)
           /\ base + SizeOf(g) <= StackTop /\ base + SizeOf(g) = BaseAt(frames, L - 1)
  BY <1>1, TopFrame
<1>3. PICK uimm \in Nat : uimm = Top.uimm /\ base + uimm <= StackTop
  BY <1>2, Widths
<1>4. PICK len \in Nat, v \in Value, d \in Nat :
        /\ mem' = [a \in DOMAIN mem |->
                     IF a \in base + d .. base + d + len - 1 THEN ByteOf(v, 0) ELSE mem[a]]
        /\ d < uimm /\ d + len <= uimm /\ len <= uimm
  <2>1. PICK len \in 0 .. uimm, v \in Value :
          \E d \in Places(len) :
            mem' = [a \in DOMAIN mem |->
                      IF a \in gpr[SP] + d .. gpr[SP] + d + len - 1 THEN ByteOf(v, 0) ELSE mem[a]]
    BY <1>3 DEF Mset
  <2>2. PICK d \in Places(len) :
          mem' = [a \in DOMAIN mem |->
                    IF a \in gpr[SP] + d .. gpr[SP] + d + len - 1 THEN ByteOf(v, 0) ELSE mem[a]]
    BY <2>1
  <2>3. d \in Nat /\ len \in Nat /\ d < uimm /\ d + len <= uimm /\ len <= uimm
    BY <1>3 DEF Places
  <2> QED
    BY <1>2, <2>2, <2>3
<1>5. ByteOf(v, 0) \in Byte
  <2>1. v \in Nat /\ 0 \in 0 .. RegBytes
    BY TemplateAssumption, Widths, Sizes
  <2> QED
    BY <2>1, BytesOf
<1>6. mem' \in Memory /\ DOMAIN mem = Addr
  BY <1>4, <1>5 DEF FrameInv, Memory
<1>7. FrameInv'
  BY <1>1, <1>6, InvKept
<1> DEFINE ls == LocalsOf(frames, mem)
<1> DEFINE f == [j \in Nat |-> ByteOf(v, 0)]
<1>8. PICK w \in Memory : w = mem'
  BY <1>6
<1>9. /\ SavedOf(frames, w) = SavedOf(frames, mem)
      /\ ls # <<>>
      /\ LastOf(ls) = [i \in 1 .. uimm |-> mem[base + i - 1]]
      /\ DOMAIN LastOf(ls) = 1 .. uimm
      /\ LocalsOf(frames, w) = Rewritten(ls, d + 1, len, f)
  <2>1. \A a \in Addr : a < gpr[SP] + d \/ a >= gpr[SP] + d + len => w[a] = mem[a]
    <3>1. ASSUME NEW a \in Addr, a < base + d \/ a >= base + d + len PROVE w[a] = mem[a]
      <4>1. a \notin base + d .. base + d + len - 1
        BY <3>1 DEF Addr
      <4> QED
        BY <1>4, <1>6, <1>8, <4>1
    <3> QED
      BY <1>2, <3>1
  <2>2. \A j \in 0 .. len - 1 : w[gpr[SP] + d + j] = f[j]
    <3>1. ASSUME NEW j \in 0 .. len - 1 PROVE w[base + d + j] = ByteOf(v, 0)
      <4>1. base + d + j \in Addr /\ base + d + j \in base + d .. base + d + len - 1
        BY <1>3, <1>4, Widths DEF Addr
      <4> QED
        BY <1>4, <1>6, <1>8, <4>1
    <3> QED
      BY <1>2, <3>1
  <2>3. d + len <= Top.uimm
    BY <1>3, <1>4
  <2> HIDE DEF f
  <2>4. /\ SavedOf(frames, w) = SavedOf(frames, mem)
        /\ LocalsOf(frames, mem) # <<>>
        /\ LastOf(LocalsOf(frames, mem)) = [i \in 1 .. Top.uimm |-> mem[gpr[SP] + i - 1]]
        /\ DOMAIN LastOf(LocalsOf(frames, mem)) = 1 .. Top.uimm
        /\ LocalsOf(frames, w) = Rewritten(LocalsOf(frames, mem), d + 1, len, f)
    <3>1. Changes(mem, w, gpr[SP] + d, len, f)
      BY <2>1, <2>2 DEF Changes
    <3> QED
      BY <1>1, <2>3, <3>1, LocalsChange
  <2> QED
    BY <1>2, <1>3, <2>4
<1>10. Len(LastOf(ls)) = uimm
  <2>1. LastOf(ls) \in Seq(Byte)
    <3>1. ASSUME NEW i \in 1 .. uimm PROVE mem[base + i - 1] \in Byte
      <4>1. base + i - 1 \in Addr
        BY <1>3, Widths DEF Addr
      <4> QED
        BY <4>1 DEF FrameInv, Memory
    <3> HIDE DEF ls
    <3> QED
      BY <1>9, <3>1
  <2> HIDE DEF ls
  <2> QED
    BY <1>9, <2>1
<1>11. /\ d + 1 \in DOMAIN LastOf(ls) /\ len \in 0 .. 1 + Len(LastOf(ls))
       /\ (d + 1) + len - 1 \in DOMAIN LastOf(ls) \cup {(d + 1) - 1}
  <2> HIDE DEF ls
  <2> QED
    BY <1>4, <1>9, <1>10
<1>12. /\ LocalsOf(frames', mem') = Rewritten(ls, d + 1, len, f)
       /\ RegsOf(gpr') = RegsOf(gpr) /\ SavedOf(frames', mem') = SavedOf(frames, mem)
  <2> HIDE DEF f
  <2> QED
    BY <1>1, <1>8, <1>9
<1>13. FillTerms
  <2>1. PICK byte \in {ByteOf(x, 0) : x \in Value} : byte = ByteOf(v, 0)
    OBVIOUS
  <2>2. LocalsOf(frames', mem') = Rewritten(ls, d + 1, len, [j \in Nat |-> byte])
    BY <1>12, <2>1
  <2> HIDE DEF f
  <2> QED
    BY <1>9, <1>11, <1>12, <2>1, <2>2 DEF FillTerms
<1> QED
  BY <1>7, <1>13

(* The mapped variables, in the terms of the lemmas.                        *)
LEMMA MappedInit ==
  FrameInv /\ SavedOf(frames, mem) = <<>> /\ LocalsOf(frames, mem) = <<>> => Frames!Init
BY DEF Frames!Init, SavedOf, LocalsOf, SavedIn, LocalsIn, BaseOf, BaseAt, BasesAre

(* A register range saved by FENTRY enters an abstract frame.               *)
LEMMA MappedEnter == EnterTerms => Frames!Enter
BY DEF EnterTerms, Frames!Enter, Frames!InRange, Frames!ButLast,
       SavedOf, LocalsOf, SavedIn, LocalsIn, RegsOf, BaseOf, BaseAt, BasesAre

(* FEXIT leaves the innermost one, with the registers that entered it.      *)
LEMMA MappedLeave == LeaveTerms => Frames!Leave
BY DEF LeaveTerms, Frames!Leave, Frames!Last, Frames!ButLast, LastOf, ButLastOf,
       SavedOf, LocalsOf, SavedIn, LocalsIn, RegsOf, BaseOf, BaseAt, BasesAre

(* A written register changes no frame.                                     *)
LEMMA MappedSet == SetTerms => Frames!Set
BY DEF SetTerms, Frames!Set,
       SavedOf, LocalsOf, SavedIn, LocalsIn, RegsOf, BaseOf, BaseAt, BasesAre

(* The same with the source of a copy as the abstract machine writes it.     *)
Copied(ls, d, s, n) ==
  [ls EXCEPT ![Len(ls)] =
     [i \in DOMAIN LastOf(ls) |->
        IF i \in d .. d + n - 1
        THEN LastOf(ls)[IF d > s THEN s + ((i - d) % (d - s)) ELSE s + (i - d)]
        ELSE @[i]]]

CopyMap ==
  /\ LocalsOf(frames, mem) # <<>> /\ LastOf(LocalsOf(frames, mem)) # <<>>
  /\ \E d, s \in DOMAIN LastOf(LocalsOf(frames, mem)), n \in 0 .. 1 + Len(LastOf(LocalsOf(frames, mem))) :
       /\ {d + n - 1, s + n - 1} \subseteq DOMAIN LastOf(LocalsOf(frames, mem)) \cup {d - 1, s - 1}
       /\ LocalsOf(frames', mem') = Copied(LocalsOf(frames, mem), d, s, n)
  /\ RegsOf(gpr') = RegsOf(gpr) /\ SavedOf(frames', mem') = SavedOf(frames, mem)

Filled(ls, d, n, v) ==
  [ls EXCEPT ![Len(ls)] =
     [i \in DOMAIN LastOf(ls) |-> IF i \in d .. d + n - 1 THEN v ELSE @[i]]]

FillMap ==
  /\ LocalsOf(frames, mem) # <<>>
  /\ \E d \in DOMAIN LastOf(LocalsOf(frames, mem)), n \in 0 .. 1 + Len(LastOf(LocalsOf(frames, mem))),
        v \in {ByteOf(x, 0) : x \in Value} :
       /\ d + n - 1 \in DOMAIN LastOf(LocalsOf(frames, mem)) \cup {d - 1}
       /\ LocalsOf(frames', mem') = Filled(LocalsOf(frames, mem), d, n, v)
  /\ RegsOf(gpr') = RegsOf(gpr) /\ SavedOf(frames', mem') = SavedOf(frames, mem)

(* MCOPY within the innermost locals is a copy of the abstract machine,     *)
(* overlapping or not.                                                      *)
LEMMA MappedCopy == CopyMap => Frames!Copy
BY DEF CopyMap, Copied, Frames!Copy, Frames!Rewrite, Frames!Last, LastOf,
       SavedOf, LocalsOf, SavedIn, LocalsIn, RegsOf, BaseOf, BaseAt, BasesAre

(* MSET within the innermost locals fills them.                             *)
LEMMA MappedFill == FillMap => Frames!Fill
BY DEF FillMap, Filled, Frames!Fill, Frames!Rewrite, Frames!Last, LastOf,
       SavedOf, LocalsOf, SavedIn, LocalsIn, RegsOf, BaseOf, BaseAt, BasesAre

(* The innermost locals are bytes counted from 1.                           *)
LEMMA InnermostLocals ==
  ASSUME FrameInv, LocalsOf(frames, mem) # <<>>
  PROVE  \E c \in Nat : DOMAIN LastOf(LocalsOf(frames, mem)) = 1 .. c
<1>1. LocalsOf(frames, mem) \in Seq(LocalsType)
  BY MappedSequences DEF FrameInv
<1>2. LastOf(LocalsOf(frames, mem)) \in LocalsType
  <2>1. PICK ls \in Seq(LocalsType) : ls = LocalsOf(frames, mem)
    BY <1>1
  <2>2. ls # <<>> => ls[Len(ls)] \in LocalsType
    OBVIOUS
  <2> QED
    BY <2>1, <2>2 DEF LastOf
<1> QED
  BY <1>2 DEF LocalsType

(* A copy that the loop makes is one the abstract machine makes.            *)
LEMMA CopyTermsMap == FrameInv /\ CopyTerms => CopyMap
<1> SUFFICES ASSUME FrameInv, CopyTerms PROVE CopyMap
  OBVIOUS
<1>1. PICK ls : ls = LocalsOf(frames, mem)
  OBVIOUS
<1>2. PICK c \in Nat : DOMAIN LastOf(ls) = 1 .. c
  BY <1>1, InnermostLocals DEF CopyTerms
<1>3. PICK d \in DOMAIN LastOf(ls), s \in DOMAIN LastOf(ls), n \in 0 .. 1 + Len(LastOf(ls)) :
        /\ {d + n - 1, s + n - 1} \subseteq DOMAIN LastOf(ls) \cup {d - 1, s - 1}
        /\ LocalsOf(frames', mem') = Rewritten(ls, d, n, CopySource(ls, d, s))
  BY <1>1 DEF CopyTerms
<1>4. ASSUME NEW i \in DOMAIN LastOf(ls), NEW old
      PROVE  (IF i \in d .. d + n - 1 THEN CopySource(ls, d, s)[i - d] ELSE old[i])
               = (IF i \in d .. d + n - 1
                  THEN LastOf(ls)[IF d > s THEN s + ((i - d) % (d - s)) ELSE s + (i - d)] ELSE old[i])
  <2>1. CASE i \in d .. d + n - 1
    <3>1. i - d \in Nat
      BY <1>2, <2>1
    <3> QED
      BY <2>1, <3>1 DEF CopySource
  <2>2. CASE ~(i \in d .. d + n - 1)
    BY <2>2
  <2> QED
    BY <2>1, <2>2
<1>5. LocalsOf(frames', mem') = Copied(ls, d, s, n)
  <2>1. [i \in DOMAIN LastOf(ls) |->
           IF i \in d .. d + n - 1 THEN CopySource(ls, d, s)[i - d] ELSE ls[Len(ls)][i]]
        = [i \in DOMAIN LastOf(ls) |->
             IF i \in d .. d + n - 1
             THEN LastOf(ls)[IF d > s THEN s + ((i - d) % (d - s)) ELSE s + (i - d)]
             ELSE ls[Len(ls)][i]]
    BY <1>4
  <2>2. Rewritten(ls, d, n, CopySource(ls, d, s)) =
          [ls EXCEPT ![Len(ls)] =
             [i \in DOMAIN LastOf(ls) |->
                IF i \in d .. d + n - 1 THEN CopySource(ls, d, s)[i - d] ELSE ls[Len(ls)][i]]]
    BY DEF Rewritten
  <2> QED
    BY <1>3, <2>1, <2>2 DEF Copied, Filled
<1> QED
  BY <1>1, <1>3, <1>5 DEF CopyMap, CopyTerms

(* So is a fill.                                                            *)
LEMMA FillTermsMap == FrameInv /\ FillTerms => FillMap
<1> SUFFICES ASSUME FrameInv, FillTerms PROVE FillMap
  OBVIOUS
<1>1. PICK ls : ls = LocalsOf(frames, mem)
  OBVIOUS
<1>2. PICK c \in Nat : DOMAIN LastOf(ls) = 1 .. c
  BY <1>1, InnermostLocals DEF FillTerms
<1>3. PICK d \in DOMAIN LastOf(ls), n \in 0 .. 1 + Len(LastOf(ls)), v \in {ByteOf(x, 0) : x \in Value} :
        /\ d + n - 1 \in DOMAIN LastOf(ls) \cup {d - 1}
        /\ LocalsOf(frames', mem') = Rewritten(ls, d, n, [j \in Nat |-> v])
  BY <1>1 DEF FillTerms
<1>4. ASSUME NEW i \in DOMAIN LastOf(ls), NEW old
      PROVE  (IF i \in d .. d + n - 1 THEN [j \in Nat |-> v][i - d] ELSE old[i])
               = (IF i \in d .. d + n - 1 THEN v ELSE old[i])
  <2>1. CASE i \in d .. d + n - 1
    <3>1. i - d \in Nat
      BY <1>2, <2>1
    <3> QED
      BY <2>1, <3>1
  <2>2. CASE ~(i \in d .. d + n - 1)
    BY <2>2
  <2> QED
    BY <2>1, <2>2
<1>5. LocalsOf(frames', mem') = Filled(ls, d, n, v)
  <2>1. [i \in DOMAIN LastOf(ls) |->
           IF i \in d .. d + n - 1 THEN [j \in Nat |-> v][i - d] ELSE ls[Len(ls)][i]]
        = [i \in DOMAIN LastOf(ls) |-> IF i \in d .. d + n - 1 THEN v ELSE ls[Len(ls)][i]]
    BY <1>4
  <2>2. Rewritten(ls, d, n, [j \in Nat |-> v]) =
          [ls EXCEPT ![Len(ls)] =
             [i \in DOMAIN LastOf(ls) |->
                IF i \in d .. d + n - 1 THEN [j \in Nat |-> v][i - d] ELSE ls[Len(ls)][i]]]
    BY DEF Rewritten
  <2> QED
    BY <1>3, <2>1, <2>2 DEF Copied, Filled
<1> QED
  BY <1>1, <1>3, <1>5 DEF FillMap, FillTerms

(* Every step of the templates keeps the invariant and is a step of the     *)
(* abstract frames, or none.                                                *)
LEMMA FrameStep == FrameInv /\ [TemplateNext]_templateVars => FrameInv' /\ [Frames!Next]_(Frames!vars)
<1> SUFFICES ASSUME FrameInv, [TemplateNext]_templateVars
             PROVE  FrameInv' /\ [Frames!Next]_(Frames!vars)
  OBVIOUS
<1>1. CASE Fentry
  BY <1>1, FentryEnters, MappedEnter DEF Frames!Next
<1>2. CASE Fexit
  BY <1>2, FexitLeaves, MappedLeave DEF Frames!Next
<1>3. CASE WriteReg
  BY <1>3, WriteSets, MappedSet DEF Frames!Next
<1>4. CASE Mcopy
  BY <1>4, McopyCopies, CopyTermsMap, MappedCopy DEF Frames!Next
<1>5. CASE Mset
  BY <1>5, MsetFills, FillTermsMap, MappedFill DEF Frames!Next
<1>6. CASE UNCHANGED templateVars
  <2>1. gpr' = gpr /\ mem' = mem /\ frames' = frames
    BY <1>6 DEF templateVars
  <2>2. FrameInv'
    BY <2>1 DEF FrameInv
  <2>3. UNCHANGED Frames!vars
    BY <2>1 DEF Frames!vars, BaseOf
  <2> QED
    BY <2>2, <2>3
<1> QED
  BY <1>1, <1>2, <1>3, <1>4, <1>5, <1>6 DEF TemplateNext

(* The frames fit on the stack, one below the other, in every reachable     *)
(* state.                                                                   *)
LEMMA FrameInductive == TemplateSpec => []FrameInv
<1>1. TemplateInit => FrameInv
  BY FramesInit
<1>2. FrameInv /\ [TemplateNext]_templateVars => FrameInv'
  BY FrameStep
<1> QED
  BY <1>1, <1>2, PTL DEF TemplateSpec

(* FENTRY and FEXIT keep calls apart (isa/sail/model/execute/execute.sail,   *)
(* exec_fentry to exec_mset): the registers that a call saved come back with *)
(* the values they had, its locals hold what was copied or set in them and   *)
(* nothing else, and no caller loses a byte to it.                           *)
THEOREM TemplatesKeepFrames == TemplateSpec => FramesAreKept
<1>1. TemplateInit => Frames!Init
  BY FramesInit, MappedInit
<1>2. FrameInv /\ [TemplateNext]_templateVars => [Frames!Next]_(Frames!vars)
  BY FrameStep
<1> QED
  BY <1>1, <1>2, FrameInductive, PTL DEF TemplateSpec, FramesAreKept, Frames!Spec

(* Memory stays bytes, registers stay within their width, and the stack      *)
(* pointer stays within the stack, whatever the templates store and load.    *)
THEOREM TemplateTypesHold == TemplateSpec => []TemplateTypeOK
<1>1. FrameInv => TemplateTypeOK
  BY InvTypes
<1> QED
  BY <1>1, FrameInductive, PTL

(* Rings that wait are empty queues.                                        *)
LEMMA WaitingIsFifo == QueuesWait => QueueInv /\ Queues!Init
<1> SUFFICES ASSUME QueuesWait PROVE QueueInv /\ Queues!Init
  OBVIOUS
<1> DEFINE none == [head |-> 0, tail |-> 0, cap |-> 0, data |-> <<>>]
<1>1. ring = [x \in Queue |-> none] /\ lb0 = 0 /\ dst = [i \in 0 .. VLEN - 1 |-> 0]
  BY DEF QueuesWait
<1>2. none \in RingType /\ DOMAIN none.data = {}
  <2>1. <<>> \in UNION {[S -> Word] : S \in SUBSET Nat} /\ DOMAIN <<>> = {}
    <3>1. <<>> \in [{} -> Word] /\ {} \in SUBSET Nat
      OBVIOUS
    <3> QED
      BY <3>1
  <2> QED
    BY <2>1 DEF RingType
<1>3. ring \in [Queue -> RingType] /\ \A x \in Queue : Inside(ring[x])
  <2>1. \A x \in Queue : ring[x] = none
    BY <1>1
  <2> HIDE DEF none
  <2>2. ring \in [Queue -> RingType]
    BY <1>1, <1>2
  <2> QED
    BY <1>2, <2>1, <2>2 DEF Inside
<1>4. QueueInv
  BY <1>1, <1>3, AnswersAre, QueueAssumption DEF QueueInv
<1>5. \A x \in Queue : /\ ContentsOf(ring[x]) \in Seq(Word)
                       /\ Len(ContentsOf(ring[x])) <= Capacity(ring[x]) /\ Capacity(ring[x]) \in Nat
  BY <1>3, ContentsAreWords
<1>6. Told = [i \in Lanes |-> 0]
  <2>1. \A i \in Lanes : dst[i] = 0 /\ dst[i] # Undefined
    BY <1>1, <1>4, NumberOfLanes, AnswersAre
  <2> QED
    BY <2>1 DEF Told
<1>7. Queues!Init
  BY <1>5, <1>6 DEF Queues!Init, Capacity
<1> QED
  BY <1>4, <1>7

MemoryInv == QueueInv /\ FrameInv /\ AtomicInv

(* Each part begins in a state of its component, and a step of one leaves   *)
(* the others as they are.                                                  *)
LEMMA PartsBegin == MemoryInit => QueueInit \/ QueuesWait
BY DEF MemoryInit

(* A step of the run is a step of each component, or none of it.            *)
LEMMA PartsStep ==
  [MemoryNext]_memoryVars => /\ [QueueNext]_queueVars /\ [TemplateNext]_templateVars
                             /\ [AtomicNext]_atomicVars
BY DEF MemoryNext, memoryVars, QueuePart, TemplatePart, AtomicPart

(* The invariants of the components hold together.                          *)
LEMMA MemoryInductive == MemorySpec => []MemoryInv
<1>1. MemoryInit => MemoryInv
  <2> SUFFICES ASSUME MemoryInit PROVE MemoryInv
    OBVIOUS
  <2>1. QueueInv
    BY PartsBegin, InitIsFifo, WaitingIsFifo
  <2>2. TemplateInit /\ AtomicInit
    BY DEF MemoryInit
  <2> QED
    BY <2>1, <2>2, FramesInit, AtomicBegins DEF MemoryInv
<1>2. MemoryInv /\ [MemoryNext]_memoryVars => MemoryInv'
  BY PartsStep, QueueSteps, FrameStep, AtomicKeeps DEF MemoryInv
<1> QED
  BY <1>1, <1>2, PTL DEF MemorySpec

(* The same for the three parts together: queues, templates and atomics of   *)
(* the run keep their types.                                                *)
THEOREM MemoryTypesHold == MemorySpec => []MemoryTypeOK
<1>1. MemoryInv => MemoryTypeOK
  <2>1. QueueInv => QueueTypeOK
    BY DEF QueueInv, QueueTypeOK, RingType, Inside, Answers
  <2> QED
    BY <2>1, InvTypes DEF MemoryInv, AtomicInv, MemoryTypeOK
<1> QED
  BY <1>1, MemoryInductive, PTL

(* The run as a whole implements both abstract machines: vector queues are   *)
(* bounded FIFOs, and calls keep their frames.                               *)
THEOREM MemoryImplements == MemorySpec => QueuesAreFifos /\ FramesAreKept
<1>1. MemoryInit => Queues!Init /\ Frames!Init
  <2> SUFFICES ASSUME MemoryInit PROVE Queues!Init /\ Frames!Init
    OBVIOUS
  <2>1. Queues!Init
    BY PartsBegin, InitIsFifo, WaitingIsFifo
  <2>2. Frames!Init
    BY FramesInit, MappedInit DEF MemoryInit
  <2> QED
    BY <2>1, <2>2
<1>2. MemoryInit => QueueInv
  BY PartsBegin, InitIsFifo, WaitingIsFifo
<1>3. MemoryInv /\ [MemoryNext]_memoryVars => [Frames!Next]_(Frames!vars)
  BY PartsStep, FrameStep DEF MemoryInv
<1>4. MemorySpec => QueuesAreFifos
  BY <1>1, <1>2, PartsStep, QueuesFrom, PTL DEF MemorySpec
<1>5. MemorySpec => FramesAreKept
  BY <1>1, <1>3, MemoryInductive, PTL DEF MemorySpec, FramesAreKept, Frames!Spec
<1> QED
  BY <1>4, <1>5
=================================================================================
