------------------------------ MODULE LibcExit ------------------------------
(***************************************************************************)
(* How a freestanding program ends (avs/runtime/freestanding/src: crt0.s,   *)
(* stdlib/stdlib.c, syscall.c; workloads/common/startup.c): _start calls    *)
(* main and passes its result to __linx_exit, exit and _exit run the        *)
(* handlers of atexit before it, abort does not.  __linx_exit stores to two *)
(* device registers and loops.                                              *)
(*                                                                          *)
(* The call stack is a variable, as a handler may call atexit and exit      *)
(* again.  What main and the handlers do is external: any sequence of these *)
(* calls, for ever if they like, as when a handler registers itself again.  *)
(***************************************************************************)
EXTENDS Integers, Sequences

CONSTANTS
  Handler,        \* functions passed to atexit
  Code,           \* exit codes, ints
  ATEXIT_MAX,     \* 32 in the code
  Half,           \* 2^16: codes are cut to it, unsigned int is modulo Half^2
  MaxLog,         \* bound: entries of the history when a handler is added to others
  MaxDepth        \* bound: frames on the stack when exit is called

ASSUME ExitAssumption ==
  /\ Half \in Nat \ {0, 1}
  /\ Code \subseteq -((Half * Half) \div 2) .. ((Half * Half) \div 2) - 1
  /\ ATEXIT_MAX \in Nat /\ MaxLog \in Nat \ {0} /\ MaxDepth \in Nat
  /\ {"main", "do_exit", "linx_exit"} \cap Handler = {}

VARIABLES
  atexit_funcs,   \* its first atexit_count entries
  stack,          \* frames, the running one last
  legacy,         \* stores to legacy_mmio[LINX_EXIT_REG_INDEX]
  finisher,       \* stores to the test finisher
  log,            \* history: handlers accepted and run since the table was empty
  asked           \* history: the latest request to end

exitVars == <<atexit_funcs, stack, legacy, finisher, log, asked>>

FAIL == "LINX_FINISHER_FAIL"
PASS == "LINX_FINISHER_PASS"

Frame(f, c) == [fn |-> f, code |-> c]
Top == stack[Len(stack)]
Push(f) == stack' = Append(stack, f)
Replace(f) == stack' = [stack EXCEPT ![Len(stack)] = f]

(* _start has called main. *)
ExitInit ==
  /\ atexit_funcs = <<>>
  /\ stack = <<Frame("main", 0)>>
  /\ legacy = <<>> /\ finisher = <<>>
  /\ log = <<>>
  /\ asked = [how |-> "none", code |-> 0]

InProgram == Top.fn \in Handler \cup {"main"}

(* Mutant: the table is taken to have one more entry. *)
HasRoom_Late == Len(atexit_funcs) <= ATEXIT_MAX
HasRoom == Len(atexit_funcs) < ATEXIT_MAX

(* The history that still says something of the table: nothing is pending   *)
(* when it is empty, so the next registration begins a new one.             *)
Past == IF atexit_funcs = <<>> THEN <<>> ELSE log

(* atexit: a full table refuses with -1. *)
Atexit ==
  /\ InProgram
  /\ IF HasRoom
     THEN /\ Len(Past) < MaxLog
          /\ \E h \in Handler :
               /\ atexit_funcs' = Append(atexit_funcs, h)
               /\ log' = Append(Past, [what |-> "accept", fn |-> h])
     ELSE UNCHANGED <<atexit_funcs, log>>
  /\ UNCHANGED <<stack, legacy, finisher, asked>>

(* A program function asks to end: exit and _exit enter __linx_do_exit,     *)
(* abort enters __linx_exit with 1, and so does _start, with the result of  *)
(* main.                                                                    *)
Ask(how, code, f) ==
  /\ asked' = [how |-> how, code |-> code]
  /\ IF how = "return" THEN Replace(f) ELSE Push(f)
  /\ UNCHANGED <<atexit_funcs, legacy, finisher, log>>

Exit ==
  /\ InProgram /\ Len(stack) < MaxDepth
  /\ \E c \in Code : Ask("exit", c, Frame("do_exit", c))

Abort == InProgram /\ Ask("abort", 1, Frame("linx_exit", 1))

MainReturns ==
  \E c \in Code : Top.fn = "main" /\ Ask("return", c, Frame("linx_exit", c))

(* A handler returns into the loop of __linx_do_exit. *)
HandlerReturns ==
  /\ Top.fn \in Handler
  /\ stack' = SubSeq(stack, 1, Len(stack) - 1)
  /\ UNCHANGED <<atexit_funcs, legacy, finisher, log, asked>>

(* Mutant: the oldest handler goes first. *)
Taken_Oldest == [fn |-> atexit_funcs[1], rest |-> Tail(atexit_funcs)]

(* atexit_funcs[--atexit_count] *)
Taken ==
  [fn |-> atexit_funcs[Len(atexit_funcs)],
   rest |-> SubSeq(atexit_funcs, 1, Len(atexit_funcs) - 1)]

(* One turn of the loop of __linx_do_exit. *)
RunHandler ==
  /\ Top.fn = "do_exit" /\ atexit_funcs # <<>>
  /\ atexit_funcs' = Taken.rest
  /\ Push(Frame(Taken.fn, 0))
  /\ log' = Append(log, [what |-> "run", fn |-> Taken.fn])
  /\ UNCHANGED <<legacy, finisher, asked>>

(* Mutant: the loop goes on while the count is not negative. *)
LoopEnds_Never == Len(atexit_funcs) < 0

(* Mutant: one handler is left. *)
LoopEnds_Early == Len(atexit_funcs) <= 1
LoopEnds == atexit_funcs = <<>>

(* The loop ends: __linx_exit is called and never returns. *)
LeaveLoop ==
  /\ Top.fn = "do_exit" /\ LoopEnds
  /\ Replace(Frame("linx_exit", Top.code))
  /\ UNCHANGED <<atexit_funcs, legacy, finisher, log, asked>>

(* The stores of __linx_exit. *)
StoreLegacy ==
  /\ Top.fn = "linx_exit" /\ legacy = <<>>
  /\ legacy' = <<Top.code % (Half * Half)>>
  /\ UNCHANGED <<atexit_funcs, stack, finisher, log, asked>>

(* Mutant: only the low half of the code is looked at. *)
FinisherWord_Low(c) == [code |-> c % Half, status |-> IF c % Half = 0 THEN PASS ELSE FAIL]

(* The two halves of finisher_word. *)
FinisherWord(c) == [code |-> c % Half, status |-> IF c = 0 THEN PASS ELSE FAIL]

StoreFinisher ==
  /\ Top.fn = "linx_exit" /\ legacy # <<>> /\ finisher = <<>>
  /\ finisher' = <<FinisherWord(Top.code)>>
  /\ UNCHANGED <<atexit_funcs, stack, legacy, log, asked>>

(* The endless loop of __linx_exit. *)
Spin == Top.fn = "linx_exit" /\ finisher # <<>> /\ UNCHANGED exitVars

InExit == RunHandler \/ LeaveLoop \/ StoreLegacy \/ StoreFinisher

ExitNext ==
  \/ Atexit \/ Exit \/ Abort \/ MainReturns \/ HandlerReturns
  \/ InExit \/ Spin

(* The hart goes on executing: the library's own code is never left waiting *)
(* and a handler does not loop for ever.                                    *)
HandlerEnds == Top.fn \in Handler /\ (HandlerReturns \/ Exit \/ Abort)

ExitFairness == WF_exitVars(InExit) /\ WF_exitVars(HandlerEnds)

ExitSpec == ExitInit /\ [][ExitNext]_exitVars /\ ExitFairness

-----------------------------------------------------------------------------
Frames == [fn : Handler \cup {"main", "do_exit", "linx_exit"}, code : Code \cup {0, 1}]

(* Types; the table never holds more than it has room for, and the hart     *)
(* always has a frame to return to.                                         *)
ExitTypeOK ==
  /\ atexit_funcs \in Seq(Handler) /\ Len(atexit_funcs) <= ATEXIT_MAX
  /\ stack \in Seq(Frames) /\ stack # <<>>
  /\ Len(legacy) <= 1 /\ Len(finisher) <= Len(legacy)

(* Registrations in log from i to j, less handlers run. *)
Excess(i, j) ==
  LET n[k \in i - 1 .. j] ==
        IF k < i THEN 0 ELSE n[k - 1] + (IF log[k].what = "accept" THEN 1 ELSE -1)
  IN n[j]

(* Registration i is the one that the call at j undoes: all in between are  *)
(* undone by then, and i was not before.                                    *)
Undone(i, j) ==
  /\ log[i].what = "accept"
  /\ Excess(i + 1, j - 1) = 0
  /\ \A k \in i + 1 .. j - 1 : Excess(i + 1, k) >= 0

(* Every call of a handler undoes the latest registration still standing,   *)
(* whatever handlers register or exit meanwhile, so a registration is run   *)
(* once at most.                                                            *)
LatestRunsFirst ==
  \A j \in DOMAIN log : log[j].what = "run" =>
    \E i \in 1 .. j - 1 : Undone(i, j) /\ log[i].fn = log[j].fn

(* A program that called exit reaches the finisher with all its             *)
(* registrations run, those made by handlers too, and even if a handler     *)
(* called exit again.                                                       *)
NoneLeftBehind ==
  finisher # <<>> /\ asked.how = "exit" => Excess(1, Len(log)) = 0

(* The finisher reports the latest request, not the first: it says PASS     *)
(* only for code 0, whatever the upper half of a code, and both devices are *)
(* given the same code.                                                     *)
StatusOfLatestRequest ==
  finisher # <<>> =>
    /\ (finisher[1].status = PASS) <=> (asked.code = 0)
    /\ (finisher[1].status = FAIL) <=> (asked.code # 0)
    /\ legacy[1] = asked.code % (Half * Half)
    /\ finisher[1].code = asked.code % Half

(* A program that stops registering handlers at some time ends once it has  *)
(* asked to: the finisher is written, in however many handlers exit is      *)
(* called again.  The assumption is needed: a handler that registers itself *)
(* and returns keeps while (atexit_count > 0) of __linx_do_exit going.      *)
EndsAtFinisher == <>[][~Atexit]_exitVars => (asked.how # "none" ~> finisher # <<>>)

(* What crt0.s says of _start, "This just calls main() and exit()": a       *)
(* program whose main returns has its handlers run.                         *)
ReturnIsExit == finisher # <<>> /\ asked.how = "return" => Excess(1, Len(log)) = 0
=============================================================================
