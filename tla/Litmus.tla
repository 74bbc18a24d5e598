-------------------------------- MODULE Litmus --------------------------------
(***************************************************************************)
(* One run of a litmus test, as run_thread (lib/litmus_test/litmus_test.c) *)
(* takes it: every thread drops to the exception level it starts at and    *)
(* installs its exception handlers, waits at the start barrier, executes   *)
(* its assembly, and returns to the harness.                               *)
(*                                                                         *)
(* The machine is sequentially consistent: accesses happen in program      *)
(* order, and a translation is the one in memory.  The results it gives    *)
(* are those the tests call not relaxed.  A step is one memory access (or  *)
(* one that the harness takes) and the instructions that follow it up to   *)
(* the next one: those touch the registers of their own CPU only.          *)
(***************************************************************************)
EXTENDS LitmusAsm, VarInfo, FiniteSets, Bitwise

CONSTANTS Tests,           \* a set of litmus_test_t
          Miscounted,      \* the names of tests whose no_sc_results is known to be wrong
          Unshowable       \* ... and of those known never to show what they look for

VARIABLES test,            \* the test that runs, its variables placed: test_ctx_t
          run              \* the memory and the CPUs

VCPUs(t)  == 1 .. Len(t.threads)
Undef     == -1            \* a register nothing has been written to

(***************************************************************************)
(* Addresses.  Pages of 4 KiB, 512 in each level 3 table.  One memory      *)
(* holds the cells of the variables, by physical address, and the last two *)
(* levels of the tables and the output registers, which the tests reach    *)
(* through addresses that are always mapped.                               *)
(***************************************************************************)
PAGE     == 4096
PMD      == 512 * PAGE
L3Base   == 100000000
L2Base   == 200000000
OutBase  == 300000000
L3Entry(table, va) == L3Base + table * 512 + ((va \div PAGE) % 512)
L2Entry(va)        == L2Base + va \div PMD
TableDesc(table)   == (1000 + table) * PAGE + 3
PageDesc(va, attr) == (va \div PAGE) * PAGE + attr * 4 + 3
IsValid(desc)      == desc % 2 = 1

(* A placement of the variables that their initial state allows, the same  *)
(* in every run: the PMD each is in and its virtual address, which is also *)
(* its physical address unless it is an alias.                             *)
Vars(t)       == 1 .. Len(t.vars)
IndexIn(t, v) == SelectInSeq(t.vars, LAMBDA w : w = v)
Placement(t, infos) ==
  LET Info(k) == infos[t.vars[k]]
      Idx(v)  == IndexIn(t, v)
      PmdIx[k \in Vars(t)] ==
        IF Info(k).ty = "PINNED" THEN PmdIx[Idx(Info(k).pin_var)] ELSE k
      PageIx[k \in Vars(t)] ==
        CASE Info(k).offset_level = "PMD" /\ Info(k).offset_var # NoVar -> PageIx[Idx(Info(k).offset_var)]
          [] Info(k).ty = "PINNED" /\ Info(k).pin_level = "PAGE" -> PageIx[Idx(Info(k).pin_var)]
          [] OTHER -> k
      Off[k \in Vars(t)] ==
        CASE Info(k).offset_var # NoVar -> Off[Idx(Info(k).offset_var)]
          [] Info(k).ty = "PINNED" -> 16 * k
          [] OTHER -> 0
  IN  [k \in Vars(t) |-> [pmd |-> PmdIx[k], va |-> PmdIx[k] * PMD + PageIx[k] * PAGE + Off[k]]]

(* What each variable is mapped to.                                        *)
Entries(t, infos, place) ==
  [k \in Vars(t) |->
     LET info == infos[t.vars[k]]
     IN  CASE info.ty = "UNMAPPED" -> 0
           [] info.ty = "ALIAS" -> PageDesc(place[IndexIn(t, info.aliased_with)].va, info.attridx)
           [] OTHER -> PageDesc(place[k].va, info.attridx)]

InitialMemory(t, infos, place, entry) ==
  LET backed == {k \in Vars(t) : is_backed_var(infos[t.vars[k]])}
      l2     == {L2Entry(place[k].va) : k \in Vars(t)}
      outs   == {OutBase + r : r \in 1 .. Len(t.regs)}
      l3(k)  == L3Entry(place[k].pmd, place[k].va)
  IN  [va \in {place[k].va : k \in backed} |->
          infos[t.vars[CHOOSE k \in backed : place[k].va = va]].val]
      @@ [a \in {l3(k) : k \in Vars(t)} |-> entry[CHOOSE k \in Vars(t) : l3(k) = a]]
      @@ [a \in l2 |-> TableDesc(a - L2Base)]
      @@ [a \in outs |-> 0]

(* What the operands of the assembly are bound to.                         *)
Operands(t, place, entry) ==
  [o \in {"va", "pte", "pmd", "desc", "pmddesc", "page"} \X {t.vars[k] : k \in Vars(t)} |->
     LET k == IndexIn(t, o[2])
     IN  CASE o[1] = "va"      -> place[k].va
           [] o[1] = "pte"     -> L3Entry(place[k].pmd, place[k].va)
           [] o[1] = "pmd"     -> L2Entry(place[k].va)
           [] o[1] = "desc"    -> entry[k]
           [] o[1] = "pmddesc" -> TableDesc(place[k].pmd)
           [] o[1] = "page"    -> place[k].va \div PAGE]

(* Where an address leads: NoPA when the translation faults.               *)
NoPA == -2
Translate(mem, va) ==
  IF va >= L3Base THEN va
  ELSE LET At(a)  == IF a \in DOMAIN mem THEN mem[a] ELSE 0
           table  == At(L2Entry(va))
           page   == At(L3Entry(table \div PAGE - 1000, va))
       IN  IF va >= 0 /\ IsValid(table) /\ IsValid(page)
           THEN (page \div PAGE) * PAGE + (va % PAGE) ELSE NoPA

(***************************************************************************)
(* A CPU: its registers, its exception state, and the handlers in its      *)
(* vectors for synchronous exceptions from EL0 and from EL1.               *)
(* pc is 4 * k in front of instruction k of the thread; the handlers are   *)
(* at 1000 and 2000.                                                       *)
(***************************************************************************)
Harness   == "harness"
TestCode  == "test"
Handler   == [el \in {0, 1} |-> 1000 * (el + 1)]
CompilerRegs == {C0[2], C1[2]}
RegNames     == 0 .. 12 \union CompilerRegs
HarnessCPU ==
  [phase |-> "start", pc |-> 4, regs |-> [r \in RegNames |-> Undef], wrote |-> {},
   el |-> 1, elr |-> 0, spsr |-> 1, esr |-> 0, eq |-> FALSE,
   vec |-> [el \in {0, 1} |-> Harness]]

Block(thread, pc) ==
  IF pc < 1000 THEN thread.code ELSE thread.handlers[pc \div 1000]
InstrNo(pc) == (pc % 1000) \div 4
AtEnd(thread, pc) == InstrNo(pc) > Len(Block(thread, pc))
Instr(thread, pc) == Block(thread, pc)[InstrNo(pc)]

Value(t, c, o) ==
  CASE o[1] = "x"   -> c.regs[o[2]]
    [] o[1] = "imm" -> o[2]
    [] o[1] = "sys" -> CASE o = Elr -> c.elr [] o = Esr -> c.esr [] OTHER -> 0
    [] o[1] = "out" -> OutBase + o[2]
    [] OTHER        -> t.env[o]

Compute(op, a, b, d) ==
  CASE op = "add" -> a + b
    [] op = "sub" -> a - b
    [] op = "eor" -> a ^^ b
    [] op = "and" -> a & b
    [] op = "lsl" -> a * 2 ^ b
    [] op = "lsr" -> a \div 2 ^ b
    [] op = "bfc" -> d - ((d \div (2 ^ a)) % (2 ^ b)) * (2 ^ a)

SetReg(c, r, val) ==
  [c EXCEPT !.regs[r[2]] = val, !.wrote = @ \union {r[2]}, !.pc = @ + 4]
GoTo(c, to) == [c EXCEPT !.pc = (@ \div 1000) * 1000 + 4 * to]
Skip(c)     == [c EXCEPT !.pc = @ + 4]

(* handle_exception: the harness takes its own calls, 10 to drop to EL0    *)
(* and 11 to raise to EL1, and aborts on what it has no handler for.       *)
handle_exception(c, kind) ==
  CASE kind = "svc" /\ c.esr = 10 -> [c EXCEPT !.el = 0, !.pc = c.elr]
    [] kind = "svc" /\ c.esr = 11 -> [c EXCEPT !.el = 1, !.pc = c.elr]
    [] kind = "svc" /\ c.esr = 12 -> SetReg([c EXCEPT !.el = c.spsr, !.pc = c.elr - 4], X0, 4 * c.spsr)
    [] OTHER -> [c EXCEPT !.phase = "abort"]

Exception(c, kind, imm, return) ==
  LET e == [c EXCEPT !.elr = return, !.spsr = c.el, !.esr = imm, !.el = 1]
  IN  IF c.vec[c.el] = Harness THEN handle_exception(e, kind)
      ELSE [e EXCEPT !.pc = Handler[c.el] + 4]

ExceptionReturn(c) ==
  IF c.el = 0 THEN Exception(c, "undefined", 0, c.pc)
  ELSE [c EXCEPT !.el = c.spsr, !.pc = c.elr]

(* An instruction that does not access memory.                             *)
Execute(t, c, ins) ==
  LET a == Value(t, c, ins.a)
      b == Value(t, c, ins.b)
  IN  CASE ins.op = "mov"  -> SetReg(c, ins.d, a)
        [] ins.op \in {"add", "sub", "eor", "and", "lsl", "lsr", "bfc"} ->
             LET d == Value(t, c, ins.d)
             IN  SetReg(c, ins.d, IF a = Undef \/ b = Undef \/ (ins.op = "bfc" /\ d = Undef)
                                  THEN Undef ELSE Compute(ins.op, a, b, d))
        [] ins.op = "cmp"  -> Skip([c EXCEPT !.eq = (a = b)])
        [] ins.op = "cbz"  -> IF a = 0 THEN GoTo(c, b) ELSE Skip(c)
        [] ins.op = "cbnz" -> IF a # 0 THEN GoTo(c, b) ELSE Skip(c)
        [] ins.op = "b.eq" -> IF c.eq THEN GoTo(c, b) ELSE Skip(c)
        [] ins.op = "b.ne" -> IF ~ c.eq THEN GoTo(c, b) ELSE Skip(c)
        [] ins.op = "b"    -> GoTo(c, b)
        [] ins.op = "svc"  -> Exception(c, "svc", a, c.pc + 4)
        [] ins.op = "eret" -> ExceptionReturn(c)
        [] ins.op = "msr elr_el1" -> Skip([c EXCEPT !.elr = a])

IsAccess(ins) == ins.op \in {"ldr", "str", "cas"}

RECURSIVE Advance(_, _, _)
Advance(t, i, c) ==
  LET thread == t.threads[i]
  IN  CASE c.phase # "run" -> c
        [] c.phase = "run" /\ AtEnd(thread, c.pc) ->
             [c EXCEPT !.phase = IF c.pc < 1000 THEN "after" ELSE "abort"]
        [] OTHER -> LET ins == Instr(thread, c.pc)
                    IN  IF IsAccess(ins) THEN c ELSE Advance(t, i, Execute(t, c, ins))

(***************************************************************************)
(* The harness around the code of a thread.                                *)
(***************************************************************************)
StartsAtEL0(t, i) == t.threads[i].el = 0
HasHandlers(t, i) == [el \in {0, 1} |-> t.threads[i].handlers[el + 1] # <<>>]

set_new_sync_exception_handlers(t, i, c) ==
  [c EXCEPT !.vec = [el \in {0, 1} |-> IF HasHandlers(t, i)[el] THEN TestCode ELSE @[el]]]
restore_old_sync_exception_handlers(t, i, c) ==
  [c EXCEPT !.vec = [el \in {0, 1} |-> IF HasHandlers(t, i)[el] THEN Harness ELSE @[el]]]
(* A call of the harness, which the handlers of a test do not know.        *)
Call(c, n) ==
  IF c.vec[c.el] = Harness THEN Exception(c, "svc", n, c.pc) ELSE [c EXCEPT !.phase = "abort"]
drop_to_el0(c)  == Call(c, 10)
raise_to_el1(c) == Call(c, 11)

switch_to_test_context(t, i, c) ==
  set_new_sync_exception_handlers(t, i, IF StartsAtEL0(t, i) THEN drop_to_el0(c) ELSE c)

(* Mutation of return_to_harness_context: the other way round. *)
return_to_harness_RaisesFirst(t, i, c) ==
  restore_old_sync_exception_handlers(t, i, IF StartsAtEL0(t, i) THEN raise_to_el1(c) ELSE c)

return_to_harness_context(t, i, c) ==
  LET r == restore_old_sync_exception_handlers(t, i, c)
  IN  IF StartsAtEL0(t, i) THEN raise_to_el1(r) ELSE r

(***************************************************************************)
(* The steps a run s of test t can take: the runs it can be in next.       *)
(***************************************************************************)
InPhase(t, s, p)    == {i \in VCPUs(t) : s.cpu[i].phase = p}
AllInPhase(t, s, p) == InPhase(t, s, p) = VCPUs(t)
Phase(c, p)         == IF c.phase = "abort" THEN c ELSE [c EXCEPT !.phase = p]

Arrivals(t, s) ==
  {[s EXCEPT !.cpu[i] = Phase(switch_to_test_context(t, i, @), "ready")] : i \in InPhase(t, s, "start")}

(* bwait on the start barrier.                                             *)
Starts(t, s) ==
  IF AllInPhase(t, s, "ready")
  THEN {[s EXCEPT !.cpu = [i \in VCPUs(t) |-> Advance(t, i, [@[i] EXCEPT !.phase = "run"])]]}
  ELSE {}

(* The access CPU c of thread i is about to make, and where it leads.      *)
NextInstr(t, i, c) == Instr(t.threads[i], c.pc)
Address(t, i, c)   ==
  LET ins == NextInstr(t, i, c)
      a   == Value(t, c, ins.a)
      b   == Value(t, c, ins.b)
  IN  CASE ins.op = "cas" -> b
        [] ins.op # "cas" /\ (a = Undef \/ b = Undef) -> Undef
        [] OTHER -> a + b
PA(t, s, i)  == Translate(s.mem, Address(t, i, s.cpu[i]))
Read(mem, a) == IF a \in DOMAIN mem THEN mem[a] ELSE Undef
Write(mem, a, val) == IF a \in DOMAIN mem THEN [mem EXCEPT ![a] = val] ELSE mem
Accessing(t, s, op) ==
  {i \in InPhase(t, s, "run") : NextInstr(t, i, s.cpu[i]).op = op /\ PA(t, s, i) # NoPA}

(* Mutation of Aborted: the return address is that of the next instruction. *)
AbortedReturnsAfter(t, i, c) == Advance(t, i, Exception(c, "abort", 0, c.pc + 4))

(* The CPU once its load has given it val, or its store is done, or its    *)
(* access has aborted: the return address is then that of the access.      *)
Loaded(t, i, c, val) == Advance(t, i, SetReg(c, NextInstr(t, i, c).d, val))
Stored(t, i, c)      == Advance(t, i, Skip(c))
Aborted(t, i, c)     == Advance(t, i, Exception(c, "abort", 0, c.pc))
Data(t, i, c)        == Value(t, c, NextInstr(t, i, c).d)

Loads(t, s) ==
  {[s EXCEPT !.cpu[i] = Loaded(t, i, @, Read(s.mem, PA(t, s, i)))] : i \in Accessing(t, s, "ldr")}

Stores(t, s) ==
  {[s EXCEPT !.mem = Write(@, PA(t, s, i), Data(t, i, s.cpu[i])), !.cpu[i] = Stored(t, i, @)] :
   i \in Accessing(t, s, "str")}

(* cas d, s, [a]: stores s if it finds d, and gives d what it found.       *)
CompareAndSwaps(t, s) ==
  {LET c   == s.cpu[i]
       old == Read(s.mem, PA(t, s, i))
   IN  [s EXCEPT !.mem = IF old = Data(t, i, c)
                         THEN Write(@, PA(t, s, i), Value(t, c, NextInstr(t, i, c).a)) ELSE @,
                 !.cpu[i] = Loaded(t, i, c, old)] :
   i \in Accessing(t, s, "cas")}

Faults(t, s) ==
  {[s EXCEPT !.cpu[i] = Aborted(t, i, @)] : i \in {j \in InPhase(t, s, "run") : PA(t, s, j) = NoPA}}

(* The teardown functions of checks/: wait for the others, then vCPU 0     *)
(* unmaps the first variable.  The harness' handlers are in place meanwhile. *)
Teardowns(t, s) ==
  IF t.teardown /\ AllInPhase(t, s, "after")
  THEN {[s EXCEPT !.mem[t.env[Pte(t.vars[1])]] = 0,
                  !.cpu = [i \in VCPUs(t) |->
                             [@[i] EXCEPT !.phase = "torn down"]]]}
  ELSE {}

Returns(t, s) ==
  {[s EXCEPT !.cpu[i] = Phase(return_to_harness_context(t, i, @), "done")] :
   i \in InPhase(t, s, IF t.teardown THEN "torn down" ELSE "after")}

Successors(t, s) ==
  Arrivals(t, s) \union Starts(t, s) \union Loads(t, s) \union Stores(t, s)
  \union CompareAndSwaps(t, s) \union Faults(t, s) \union Teardowns(t, s) \union Returns(t, s)

Begins(t, s) == AllInPhase(t, s, "start")
Ended(t, s)  == AllInPhase(t, s, "done")
Result(t, s) == [r \in 1 .. Len(t.regs) |-> s.mem[OutBase + r]]

-----------------------------------------------------------------------------
Init ==
  \E t \in Tests :
  \E infos \in {read_var_infos(t).infos} :
  \E place \in {Placement(t, infos)} :
  \E entry \in {Entries(t, infos, place)} :
    /\ test = t @@ ("env" :> Operands(t, place, entry))
    /\ run  = [mem |-> InitialMemory(t, infos, place, entry), cpu |-> [i \in VCPUs(t) |-> HarnessCPU]]

Arrive         == run' \in Arrivals(test, run) /\ UNCHANGED test
Start          == run' \in Starts(test, run) /\ UNCHANGED test
Load           == run' \in Loads(test, run) /\ UNCHANGED test
Store          == run' \in Stores(test, run) /\ UNCHANGED test
CompareAndSwap == run' \in CompareAndSwaps(test, run) /\ UNCHANGED test
Fault          == run' \in Faults(test, run) /\ UNCHANGED test
Teardown       == run' \in Teardowns(test, run) /\ UNCHANGED test
Return         == run' \in Returns(test, run) /\ UNCHANGED test
Finished       == Ended(test, run) /\ UNCHANGED <<test, run>>

Next == Arrive \/ Start \/ Load \/ Store \/ CompareAndSwap \/ Fault \/ Teardown \/ Return \/ Finished

vars == <<test, run>>
Spec == Init /\ [][Next]_vars

-----------------------------------------------------------------------------
(***************************************************************************)
(* All the results of a test: those of this machine, and those that would  *)
(* be possible if nothing at all were ordered, when each thread may read   *)
(* any value the location ever holds, the entries of the tables included.  *)
(***************************************************************************)
RECURSIVE Reachable(_, _, _)
Reachable(t, seen, frontier) ==
  IF frontier = {} THEN seen
  ELSE LET new == UNION {Successors(t, s) : s \in frontier} \ seen
       IN  Reachable(t, seen \union new, new)

Outcomes(t, s) == {Result(t, r) : r \in {q \in Reachable(t, {s}, {s}) : Ended(t, q)}}

(* V holds what each location may hold, as pairs of an address and a value; *)
(* L the states a thread may be in, as [id, cpu, out], out being its output. *)
IsOut(a)     == a >= OutBase
Holds(V, a)  == LET vals == {p[2] : p \in {q \in V : q[1] = a}} IN IF vals = {} THEN {Undef} ELSE vals
Table(desc)  == desc \div PAGE - 1000
TranslateAny(V, va) ==
  IF va >= L3Base THEN {va}
  ELSE UNION {{Translate([a \in {L2Entry(va), L3Entry(Table(l2), va)} |-> IF a = L2Entry(va) THEN l2 ELSE l3], va) :
               l3 \in Holds(V, L3Entry(Table(l2), va))} : l2 \in Holds(V, L2Entry(va))}

Op(t, l)          == NextInstr(t, l.id, l.cpu).op
AnyPA(t, V, l)    == TranslateAny(V, Address(t, l.id, l.cpu))
ThreadSteps(t, V, l) ==
  LET pas  == AnyPA(t, V, l)
      c    == l.cpu
      vals(a) == IF IsOut(a) THEN {l.out[a]} ELSE Holds(V, a)
  IN  {[l EXCEPT !.cpu = Aborted(t, l.id, c)] : a \in pas \intersect {NoPA}}
      \union (IF Op(t, l) = "str"
              THEN {[l EXCEPT !.cpu = Stored(t, l.id, c), !.out = Write(@, a, Data(t, l.id, c))] : a \in pas \ {NoPA}}
              ELSE {[l EXCEPT !.cpu = Loaded(t, l.id, c, val)] : val \in UNION {vals(a) : a \in pas \ {NoPA}}})

Writes(t, V, l) ==
  LET c == l.cpu
  IN  CASE Op(t, l) = "str" -> {<<a, Data(t, l.id, c)>> : a \in AnyPA(t, V, l)}
        [] Op(t, l) = "cas" -> {<<a, Value(t, c, NextInstr(t, l.id, c).a)>> : a \in AnyPA(t, V, l)}
        [] OTHER -> {}

RECURSIVE Unordered(_, _, _)
Unordered(t, V, L) ==
  LET running == {l \in L : l.cpu.phase = "run"}
      L2 == L \union UNION {ThreadSteps(t, V, l) : l \in running}
      V2 == V \union UNION {Writes(t, V, l) : l \in running}
  IN  IF L2 = L /\ V2 = V THEN L ELSE Unordered(t, V2, L2)

CanShow(t, mem, result) ==
  LET outs   == {OutBase + r : r \in DOMAIN result}
      ready  == [mem |-> mem, cpu |-> [i \in VCPUs(t) |-> Phase(switch_to_test_context(t, i, HarnessCPU), "ready")]]
      begun  == CHOOSE s \in Starts(t, ready) : TRUE
      ends   == {l \in Unordered(t, {<<a, mem[a]>> : a \in DOMAIN mem},
                                 {[id |-> i, cpu |-> begun.cpu[i], out |-> [a \in outs |-> 0]] : i \in VCPUs(t)}) :
                 l.cpu.phase = "after" /\ \A r \in DOMAIN result : l.out[OutBase + r] \in {0, result[r]}}
      \* the outputs that each execution of a thread sets, of those that agree with the result
      sets(i) == {{r \in DOMAIN result : l.out[OutBase + r] # 0} : l \in {m \in ends : m.id = i}}
      together[i \in 0 .. Len(t.threads)] ==
        IF i = 0 THEN {{}} ELSE {x \union y : x \in together[i - 1], y \in sets(i)}
  IN  {r \in DOMAIN result : result[r] # 0} \in together[Len(t.threads)]

-----------------------------------------------------------------------------
(* The handlers of a test handle every exception its threads take, and     *)
(* however those nest each thread returns to the harness at EL1, under the *)
(* vectors it came with: return_to_harness_context has to put those back   *)
(* first, since its own svc goes through them.                             *)
BackInHarness ==
  \A i \in VCPUs(test) : LET c == run.cpu[i]
                      IN  /\ c.phase # "abort"
                          /\ c.phase = "done" => c.el = HarnessCPU.el /\ c.vec = HarnessCPU.vec

(* "this register _must_ be in the clobber list of the test"               *)
(* (litmus_macros.h): the compiler must know of every register that the    *)
(* assembly or a handler that interrupts it writes to.                     *)
ClobbersDeclared ==
  \A i \in VCPUs(test) : run.cpu[i].wrote \ CompilerRegs \subseteq test.threads[i].clobbers

(* interesting_result is the "interesting (relaxed) result to highlight"   *)
(* (litmus_test_def.h): no interleaving of the threads shows it, but the   *)
(* test can show it: it is possible when nothing is ordered.  The self-    *)
(* tests of checks/ look for errors of the harness instead; the tests in   *)
(* Unshowable have a result they can never show.                           *)
InterestingIsRelaxed ==
  /\ Ended(test, run) => Result(test, run) \notin test.interesting
  /\ Begins(test, run) /\ ~ test.teardown =>
       (test.name \in Unshowable <=> \E r \in test.interesting : ~ CanShow(test, run.mem, r))

(* no_sc_results is "a count of SC results, used in sanity-checking        *)
(* output" (litmus_test_def.h): print_results compares it with the number  *)
(* of distinct results seen that are not interesting.  The tests in        *)
(* Miscounted declare another number.                                      *)
ScResultsCounted ==
  Begins(test, run) /\ test.no_sc_results # 0 =>
     (test.name \in Miscounted
        <=> Cardinality(Outcomes(test, run) \ test.interesting) # test.no_sc_results)

(* The lookup table of the histogram has 200 entries (litmus_test_ctx.c:   *)
(* 70-73), and add_results does not compare the index with that: four      *)
(* registers may need 256.  And what run_data_size sets aside for the      *)
(* pointers of each run is enough for what setup_run_data takes, although  *)
(* that adds padding: it would not be for a test with five variables, or   *)
(* one variable and two registers.  Concretization relies on what          *)
(* read_var_infos does not check of the pins and offsets of a test.        *)
H == INSTANCE Results WITH limit <- 200, Interesting <- test.interesting
A == INSTANCE Arena
TestFits ==
  /\ Ended(test, run) =>
       \A r \in {Result(test, run)} \union test.interesting : H!ix_from_values(r) < 200
  /\ Begins(test, run) => \A n \in 1 .. 3 : A!Suffices(n, Len(test.vars), Len(test.regs))
  /\ Begins(test, run) => Concretizable({test.vars[k] : k \in Vars(test)}, read_var_infos(test).infos)
===============================================================================
