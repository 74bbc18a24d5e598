# A TLA+ model of system-litmus-harness

system-litmus-harness boots on bare AArch64 hardware (or QEMU/KVM), and runs small
multi-threaded programs ("litmus tests") many times over to see which outcomes the
machine's relaxed *systems* memory model shows: tests that edit pagetables, take
exceptions, invalidate TLBs.  Much of the program's own logic is the machinery around
a test: bringing the CPUs up, keeping them in step, giving every run fresh variables
and pagetable entries, collecting the results.  That machinery is concurrent C
without an operating system, written over `ldxr`/`stxr`, `wfe`/`sev` and plain
volatile fields.  A mistake in it does not crash: it produces wrong counts in a
histogram.  And the tests are code too: hand-written assembly with handlers,
clobber lists and declared results, each in its own file.  This directory models both,
checks them and proves part of it.

Line numbers refer to `src/`; paths such as `lib/...` and `inc/...` are below it.

## 1. Inventory

| Component | Source | State | Operations | What makes it correct |
|---|---|---|---|---|
| barrier | `lib/arch/sync.c:157-226`, `inc/sync.h:58-66` | `waiting`, `current_state`, `iteration` of each `bar_t`; one `bwait_lock` for all | `bwait` | a group is released when all of it has arrived, never before; nobody returns while a member has not noticed; a barrier can be used again at once; no wake-up is lost |
| bakery lock | `sync.c:30-70` | `entering[]`, `number[]` | `lamport_lock`, `lamport_unlock` | mutual exclusion, first come first served, no starvation |
| mutex, atomic decrement | `sync.c:75-154` | the word, exclusive monitors, event registers | `__atomic_cas`, `mutex_lock`, `mutex_unlock`, `__atomic_dec` | mutual exclusion, no lost update, no lost wake-up |
| lock dispatch | `sync.c:10-28` | `locking_enabled` of each CPU | `lock`, `unlock` | the same lock on both sides |
| boot and dispatch | `lib/arch/cpu_boot.c`, `lib/setup.c:207-225,275-285`, `lib/arch/psci.c`, `lib/spintable.c` | `cpu_data[]` | `ensure_cpus_on`, `cpu_boot`, `run_on_cpu(s)`, `secondary_idle_loop` | each call runs once on each CPU with its own argument, and is over when it returns |
| run loop | `lib/litmus_test/litmus_test.c` | affinities, variables, pagetable entries, barriers of a test | `go_cpus`, `run_thread` and what it calls | runs do not see each other; results are complete; pagetables are put back |
| test context | `litmus_test_ctx.c` | tables of values, shuffled indices, ASIDs | `init_test_ctx`, lookups | the index tables are inverse to each other |
| results | `litmus_test_results.c` | histogram rows, lookup table | `handle_new_result` and lookups | every run is counted once, in the row of its values |
| concretization | `litmus_test_concretization*.c`, `litmus_regions.c`, `concretization/` | addresses of the variables of each run | `concretize_batch`, checkers | owned regions do not overlap; relations between variables hold; the retry loop ends |
| allocator | `lib/valloc/` | free list, allocation list, `top` | `alloc`, `free`, `valloc_memcpy`..., pagetable checkpoints | blocks do not overlap, are aligned; what is freed can be used again |
| pagetables | `lib/arch/vmm/` | translation tables | `vmm_ensure_level`, `vmm_update_pte`, walks, TLB maintenance | every address translates as it was asked to; splitting a block keeps its translation; break before make |
| exceptions | `lib/arch/exceptions.c`, `vector_table.S` | handler tables of each CPU and vCPU | `set_handler`, `reset_handler`, hot-swapped vectors, `handle_exception` | a CPU runs the handler last set for it |
| test definitions | `litmus_test_var_info.c`, `litmus_test_hash.c` | - | `read_var_infos` | what the initial state says of each variable is complete and consistent |
| litmus tests | `litmus/litmus_tests/`, `inc/litmus/` | memory, tables, registers, vectors | the threads of each test with their handlers | back in the harness's state; declared clobbers and results are right; the interesting result can be seen, and only on relaxed hardware |
| random numbers | `lib/rand.c` | `SEED` | `randn`, `shuffle` | - |
| configuration | `lib/config.c`, `lib/argparse.c`, `lib/argc.c`, `lib/re/` | global flags | parsing | - |
| devices | `lib/arch/device.c`, `feat.c`, `cpu_errata.c`, ... | - | register accesses, device tree | - |
| printing, drivers | `lib/printer.c`, `lib/string.c`, ..., `lib/drivers/` | - | output | - |
| tools | `tools/`, `utilities/` | - | offline scripts | - |

How they interact.  CPU 0 boots the others (`ensure_cpus_on`), which then sit in
`secondary_idle_loop`.  For each test it calls `run_on_cpus(go_cpus)`: all CPUs
execute `run_thread` together.  Everything from then on is separated by `bwait`:
`generic_cpu_barrier` for all CPUs, `generic_vcpu_barrier` and the
`start_barriers` for those that play a thread of the test in the current batch.
`bwait` itself uses `bwait_lock`, which is the mutex in the build with
`ENABLE_PGTABLE` (caches on, so exclusives work) and the bakery lock without.
Allocation, concretization and results are called from single CPUs in between.

What is hard to test here (each at its line in `PROJECT.json` "hazards"):

- reads and writes of the same `bar_t` that are *not* under the same lock:
  `waiting` is incremented by a plain load and store under `bwait_lock`, and
  decremented atomically outside of it; `iteration` is read after the unlock;
- barriers that are used again before everybody has left them, and whose *group*
  changes from batch to batch while spare CPUs wait elsewhere;
- `wfe` after a test of a flag somebody else sets, throughout;
- `get_ticket`, which reads `number[j]` twice;
- flags that both sides write (`to_execute`, `finished`);
- a spare CPU running ahead of or behind the CPUs of the test;
- all CPUs putting the same pagetable entries back at once, without a lock;
- the five loops of `__ptable_set_range` over regions of any alignment;
- addresses drawn at random, accepted by one set of rules and checked by another;
- limits met after a long sequence of calls: rows of the histogram, ASIDs of a batch,
  the arena of a batch, chunks of the allocator;
- exception vectors replaced by a test that itself changes exception level;
- numbers written down by hand: of results without reordering, of registers a
  handler uses.

## 2. Modules

```
ForkJoin      <- Dispatch                       one call at a time on several CPUs
LockSpec      <- Bakery, Atomics                the two implementations of LOCK
Rendezvous    <- Barrier  (atomic lock)         bwait
Rendezvous    -> Harness                        go_cpus, on abstract barriers
Results       -> Harness                        the histogram
Vmm                                             the pagetables that Harness sees as one value
VarInfo       -> Concretize                     initial state to addresses
LitmusAsm     -> LitmusData, LitmusExc, LitmusTrans, LitmusBBM, LitmusPages   the tests
LitmusAsm, VarInfo -> Litmus -> MCLitmus        one run of each of them
Results, Arena -> Litmus                        whether a test fits what is set aside for it
Valloc                                          the allocator
```

`A <- B` reads "B is shown to implement A", `A -> C` "C is built on A".  The first
chain is assume/guarantee: Bakery and Atomics justify that the lock in Barrier is one
variable `owner`; Barrier justifies that Harness uses Rendezvous for its barriers;
and Harness checks, and proves, the one thing Barrier assumes of its
callers (`RegroupsQuietly`): the group of a barrier is only replaced while nobody is
inside it.

| Module | Models | State and actions |
|---|---|---|
| `Rendezvous` | what `bwait` promises | per barrier and CPU: out, in, go, passed |
| `Barrier` | `bwait` | the fields of `bar_t`, `owner`, event registers, and `pc` and locals of each CPU; one action per access to shared memory, named after the statement (`IncLoad`/`IncStore` are the two halves of `bar->waiting++`) |
| `LockSpec` | what LOCK/UNLOCK promise | a queue for the first-come-first-served lock, a set of requests for the other |
| `Bakery` | `lamport_lock` | `entering`, `number`; `Scan` and `Reread` are the comparison and the assignment of `get_ticket`; `Spin`, `Check`, `Less`, `Equal` the single reads of the scan of the others |
| `Atomics` | `__atomic_cas`, `__atomic_dec`, mutex | two words of memory (the mutex and a counter), the exclusive monitor and event register of each CPU |
| `ForkJoin` | what `run_on_cpus` promises | call, each CPU once, return |
| `Dispatch` | boot, idle loop, `run_on_cpu(s)` | the four fields of `cpu_data[]`, one access per action |
| `Results` | the histogram | pure: rows, lookup table, `add_results`, the numbers `print_results` gives |
| `Harness` | `go_cpus`, `run_thread` | `affinity`, the state of each run's variables and pagetable entries (not yet written, initial, changed by the test), output registers, histogram, TLBs, per-CPU `vcpu`, `j`, loop index and saved descriptors |
| `Vmm` | translation tables: building them from regions, `set_init_pte`, concurrent `vmm_ensure_level` and walks of `setup_run_data`, the concurrent `vmm_update_pte` of `clean_run_data` | `mem`, the entries of each table; `owner` of `_vmm_lock`; per-CPU `pc`, level and table of its walk, saved pointers and descriptors; one action per entry read or written |
| `VarInfo` | `read_var_infos` | pure: what each `INIT_...` of a test changes in the `var_info_t` of a variable, and when it is refused; `Concretizable`, what it does not check and concretization relies on |
| `Concretize` | `concretize_batch`, random and fixed, up to the check at the use | `st`, the choices so far for the variables of a run; `todo`, the variables still to be placed, in the order `Sooner` of the two loops; `values`, the addresses of the runs so far; one action per variable placed, per offset imposed, per validation |
| `Valloc` | `alloc`, `alloc_with_alignment`, `free`, `free_all` | `top`, `freelist` in its order, `blocks`; `pc` and `chunk` of a free that is under way: an allocation is one action, and so is each round of the loops in which `free` merges chunks |
| `Arena` | `run_data_size`, the arena, what `setup_run_data` takes from it | pure |
| `LitmusAsm` | the instructions, operands and `INIT_...` macros the tests use | pure: constructors, one per macro or mnemonic |
| `LitmusData`, `LitmusExc`, `LitmusTrans`, `LitmusBBM`, `LitmusPages` | 201 tests: plain accesses, exceptions, translation, break before make, whole pages | each test as a record: variables, registers, initial state, code and handlers of its threads with their exception level and clobbers, results |
| `Litmus` | one run of a test: `switch_to_test_context`, the threads, exceptions and their vectors, translation by the tables the test edits, `return_to_harness_context` | memory, and of each CPU registers, exception level, syndrome and vectors; one action per access to memory, or exception it takes |
| `MC*` | | instances for TLC |
| `*Proofs` | | theorems about Barrier, Bakery, Atomics, Dispatch, Harness with Results, Vmm, Concretize, Valloc |

Operators whose comment begins with "Mutation of" are wrong variants of the
definition that follows them, as a plausible slip of the code would give.  They
are used by nothing; putting one in place of its original must break the
property `PROJECT.json` names, which shows that the property depends on that
line of the code.

Abstractions, per module:

- Memory is sequentially consistent.  The code puts `dmb`/`dsb` between the
  accesses that matter; whether it has *enough* of them is a question about the
  Arm memory model, and not asked here.
- `Barrier`: the lock is one step.  `bwait`'s refusal to run before
  `per_cpu_setup` is left out.  The 64-bit `iteration` wraps at `IterMax`.
- `Bakery`: a ticket is a natural number; `MaxTicket` bounds it in the guard of
  `Reread`.  A real ticket has 32 bits and goes back to 1 whenever nobody
  holds or wants the lock.
- `Atomics`: an exclusive monitor is lost when another CPU stores to the word, and,
  at most `MaxLosses` times, for no reason; losing it sets the event register,
  as the architecture says.
- `Dispatch`: call numbers stand for both function and argument and are used again
  after `MaxJobs` calls.
- `Vmm`: tables have `Fanout` entries, addresses count pages, an entry is its two low
  bits and an address.  `want` records what the pagetable was asked to map,
  `stale` what TLBs may still hold.  `Settings` may leave a variable without a page,
  which `write_init_state` does not do: then the lookups of several CPUs have to add
  the tables, as `vmm.c:45-47` allows them to.  A test overwrites one entry per
  batch.  No CPU is spare here.  The check for regions that overlap
  (`vmm_pgtable.c:241-245`) is no step, since it never fails: it compares with `r_prev`, which
  keeps the zeros it is initialised with (`:234`).  That regions do not overlap is therefore a premise
  (`LayoutsApart`, section 4) and not something the code ensures.
- `Harness`: the default configuration (ephemeral concretization, one ASID per run,
  random affinity) of a test that edits pagetables and installs no handler; a
  variable or an entry only records who wrote it last; what the threads of a run
  store in the output registers is a constant of the test.  Test functions, whatever
  they do, end.
- `Concretize`: `randn` may give anything; of what it can give, the offsets named by the
  constants are tried, and both ends of every range.  8M regions are numbered.
- `Valloc`: the allocation list is a set, of which only the number is limited.  Programs free
  only what they have allocated, and once: the errors for other pointers are left out.  The
  alignment a block is checked for is the rounded one: `alloc_with_alignment` drops a larger
  alignment for less than 24 bytes, which no caller asks for.
- `Litmus`: an instruction that does not access memory, other than by raising an
  exception, is no step of its own: it touches the registers of its CPU only.
  Barriers, TLB and cache maintenance have no effect on a sequentially consistent
  machine without TLBs.  A value is a number; an entry of a table is a page number,
  attributes and two bits; 201 tests of `litmus/litmus_tests/` are given
  instruction by instruction.

## 3. Runs

| Run | Instance | Shows |
|---|---|---|
| `barrier_pt` | 3 CPUs; one barrier for all, one for {1,2} or {2,3}; `iteration` modulo 2 | with pagetables: `CountExact`, `IterStable`, refinement of Rendezvous, and that all members return |
| `barrier_nopt` | 3 CPUs, a barrier for all and one of size 1 that two of them use | the other build, in which the decrement is under the lock and no unlock sends an event: all members return; that the poll loop at `sync.c:178` keeps phases apart where a round is asked for while another is being left; and `StuckForWantOfCaller`: if nobody inside gets further, somebody has not called |
| `bakery` | 3 CPUs, tickets to 2 | mutual exclusion, first come first served, no starvation; CPUs never all wait for each other |
| `atomics` | 3 CPUs, 1 lost monitor | no decrement is lost, the mutex is a lock, unlock never waits, every operation ends that should; nobody sleeps unless somebody awake is to wake it |
| `dispatch` | 3 CPUs, 2 call numbers | refinement of ForkJoin for calls of both kinds, nothing left over at return, every call returns; CPU 0 never sleeps waiting for a CPU that is off or asleep |
| `harness` | 3 CPUs, 3 runs in batches of 2, 2 ASIDs, 2 histogram rows; tests with 2 threads and a spare CPU, with 3 threads, with registers beyond the lookup table, with 3 results | isolation of runs, an exact histogram, no failed prefetch, pagetables put back if no CPU is spare, quiet change of affinities, termination; CPUs never all held up at barriers |
| `harness_restore` | 3 CPUs, 2 threads | **violated**: with a spare CPU pagetables need not be put back, see below |
| `vmm` | 2 CPUs, tables of 2 entries, 4 layouts, 2 variables, 2 batches | every address translates as asked, before and after tests; entries are broken before they are made; saved pointers stay right while tables are added |
| `vmm_split` | a variable in a region mapped by blocks | **violated**: splitting a block loses its translation, see below |
| `litmus` | 201 tests, each with all interleavings | every thread returns to the harness as it came, clobbers are declared, interesting results are not sequentially consistent but possible, declared numbers of results are right, a test fits the lookup table, the arena and what concretization assumes |
| `concretize` | 8 jobs: tests of each shape in batches of 1 or 2, both types | relations of the initial state hold, what is accepted is usable |
| `valloc` | 3 programs of 3 or 4 calls on a heap of 256 bytes, 4 blocks | blocks never overlap each other, the free list or the space below `top`; free chunks are merged and given back |

Why the bounds are enough.  Three CPUs are the smallest number at which a barrier
has a first, a middle and a last arrival, at which one CPU may re-enter while
another is in each half of the release, and at which a lock has two waiters to
choose from.  The poll loop of `bwait` only turns if a barrier has more users than its size, which none of
the harness's has; `barrier_nopt` has the smallest such barrier, and `BarrierNoMixedPhases` is proved
for every size in both builds.  `IterMax` = 1 makes the iteration wrap every second round, which is
harder than the real width.  Three runs in batches of two give a full batch, an
incomplete one and a change of affinities between them.  Two threads on three
CPUs is the smallest test with a spare CPU.  Tables of two entries still have four
levels and blocks of three sizes; the regions begin and end inside blocks,
meet inside one, and have physical addresses aligned better, worse and not at all
compared with the virtual ones.  `MaxPages` tables are never all used.  Two runs in
a batch are the smallest number whose variables could collide; two regions, and offsets
near both ends of a page and of 2M, give every collision of the coarser and finer
levels.  A heap of 256 bytes fills up after a few blocks, so that chunks are
split with padding, merged from both sides and given back in every order.  `litmus` has no
bound: every test is finite.  The proofs take the bounds away for the locks, the
barrier, the dispatch of calls, the run loop with its histogram, the allocator and
concretization, and for the pagetables all bounds but the 4 levels, which are those of the
hardware.

The type invariants of Barrier, Bakery, Atomics, Dispatch and Harness are conjuncts of the inductive
invariants in section 4 and proved for all constants (`BarrierTypeOK` and so on), so the
runs do not check them again.

Deadlock is checked in the runs of locks, dispatch and litmus (a finished test
stutters by `Finished`).  The barrier runs switch it off: nobody need call `bwait`,
and a group that is not complete waits for ever, which is right; `StuckForWantOfCaller`
and `AllReturn` say what must not get stuck.  The harness terminates, `Vmm` stops after `Batches`
batches, `Concretize` when a batch is written or refused, and `Valloc` when the program
ends with an error.

Fairness.  A CPU is a core of its own and keeps executing, so every CPU has weak
fairness on its own steps; `wfe` blocks until the event register is set.  Calling
a function of the harness is never fair: a CPU may stop calling.  Acquiring a
lock needs more: in the build without pagetables it is the bakery lock, which is
first come first served (checked and proved in Bakery), so strong fairness of
acquisition in `Barrier` is what the code provides.  The compare-and-swap mutex
promises no particular CPU its turn, and there `Barrier` only has weak fairness;
`AllReturn` holds nevertheless, since a CPU that leaves the barrier decrements
without the lock.  `Harness` has no loop that could turn for ever, and there it is
enough that some step is taken as long as there is one (`WF_vars(Next)`); that a
complete group is released is `AllReturn`.

### What the checks found

`harness_restore`.  Every CPU saves the pagetable entries of a batch in
`setup_run_data` (`litmus_test.c:411`) and puts its own copy back in
`clean_run_data` (`:453`).  Between the two, only CPUs with a thread meet at
`start_barriers` (`:433`).  A spare CPU that is slow in `setup_run_data` can
therefore save an entry which the test function has changed already.  If it is also
the last to clean up, the changed entry stays, against the comment at `:214-216`
that the pagetables are reset "back to what they were before we ran the test
function".  The next batch reuses the pagetable.  `RestoredWithoutSpares`, checked and
proved, says that it takes a spare CPU.

`vmm_split`.  When `vmm_ensure_level` meets a block, it allocates a table for the next
level and computes, for each entry, the part of the block it should map
(`new_desc`, `vmm.c:82-86`), which it prints as "writeback block" (`:87`).  It then
stores `write_desc(desc)` (`:89`), the descriptor of the *whole* block in the encoding
of the old level.  On level 3 the hardware takes such an entry as invalid, on
level 2 every entry maps the start of the old block.  `inc/vmm/vmm.h:22-25` promises
"a block translation exists at level ensure_level".  A test with
`INIT_IDENTITY_MAP(x)` gets there, since `vmm_pgtable.c:311-314` maps the test data
with 2M blocks for it: `set_init_pte` then writes the entry of `x`, but the other 511
pages of the block are gone from the test pagetable.

Properties that hold, but not for everything the code admits.  Where a rule has
exceptions they are named in the model, so that a change of the code that adds one, or
removes one, shows:

- *Counts and results of tests* (`WrongCount`, `NeverShows` in MCLitmus).
  `no_sc_results` is "a count of SC results, used in sanity-checking output"
  (`inc/litmus/litmus_test_def.h:167`).  20 tests declare another number than their
  interleavings give; print_results then warns of a correct run.  Among them are tests
  that copied the number of a variant; six S tests with 12 instead of 13; and tests
  whose table entry already holds the page they write, so that old and new cannot be
  told apart (ROT).  The tests in `NeverShows` cannot show the "interesting (relaxed)
  result to highlight" (`:163`) on any hardware: they store a constant where another
  variant has a value read, or change a page for itself; in `MP+fault+dmb` the handler that
  would write `y` never runs, since `y` is mapped and `z`, which no thread uses, is not.
- *Pins* (`AtEdge` in Concretize).  `ALIGN_UP_TO` is given a number of bits
  (`litmus_regions.c:36`) and takes a size.  If a root variable is drawn within the
  last 32 bytes of its page, the range for what is pinned to it ends in the next page,
  which `unittests/tests/concretization/test_generic.c:162` says it never is in.
- *Half identity mapped tests* (`BatchDisjoint`).  validate_selection compares virtual
  addresses, so an identity mapped variable may get the place of one that is not.
  No test in the catalogue maps only some of its variables to themselves.
- *Fixed concretization* of batches with more than one run does not end: every run gets
  the addresses of the first, and concretize_batch tries again until they differ.
- *ASIDs* (`Isolated`).  ASID 0 is "reserved" for the harness (`litmus_test_ctx.c:191`),
  but `sanity_check_test` admits as many runs in a batch as there are ASIDs: with
  256, the last uses 256, of which the TLB sees 0.
- *The arena* (`TestFits`).  run_data_size leaves room for two more pointers a
  variable; padding needs more than that for 5 variables, for 1 with 2 or 3 registers
  and for 2 with 5 to 7.  No test of the catalogue has such a shape.
- *The allocator*.  Pieces of up to 24 bytes that are left when a chunk is cut are
  lost until `free_all`; a chunk of exactly the size asked for is not reused, since
  `find_best` compares with `>` (`valloc_freelist.c:39`); and `ALIGN_UP_TO` skips one
  multiple of the alignment.  None of these makes blocks overlap.

## 4. Proofs

All are checked by TLAPS for every value of the constants, under the assumptions
named in the modules (sets of CPUs are finite; sizes and bounds are natural
numbers).

**Barrier** (`BarrierProofs`).  `CountExact` is not inductive.  The invariant `IInv` adds: who
holds the lock (`LockInv`); a CPU between the load and the store of `waiting` holds
the current value (`TmpInv`); CPUs count themselves in while `current_state` is 0
and out while it is 1 (`ClosedInv`, `OpenedInv`); a round is restarted with
`waiting` 0 and opened with `waiting` = `sz` (`EdgeInv`).  A CPU that leaves the loop at
`sync.c:178` does not look at `current_state` again; `ReopenInv` says why it need not:
whoever closes the barrier counts itself in before it releases the lock, so `waiting` is
found 0 only while the barrier is still open.  Hence no increment or decrement is lost, the atomic
decrement never meets a plain increment, and `iteration` is read in one's own round, for
*any* sizes of groups, also those that share a barrier with more users than `sz`.

Where a barrier has exactly as many users as the `sz` they pass (`ExactBars`), more is true.
`RoundInv`: while a round is open, either everybody has taken itself out, or every
member is still inside `bwait`.  `TailInv`: a CPU in the slow release finds its own iteration until
the barrier is restarted, and another one from then on.  `LoopInv`: the loop at `sync.c:178`
never turns.  `BarrierPollUnused` and `BarrierRefines` assume that all barriers are like that
(`ExactGroups`), which holds for the harness's (`sz` is `NO_CPUS` or the number of threads,
and affinities are a permutation); `BarrierRefines` proves that `bwait` implements `Rendezvous`:
every step is a step of it or a stutter.

`BarrierStuckForWantOfCaller` adds two facts to `IInv`: a closed barrier has all its callers counted
only while one of them is about to open it (`FullInv`), and whoever sleeps at an open
barrier has the SEV of the CPU that opened it still to come (`WakeInv`).  If nobody inside gets
any further, nobody holds a lock, hence nobody waits for one, and a sleeper's barrier is closed and
not full.  A CPU held up in the slow release finds its own iteration, so that its barrier is still open
(`TailInv`) and somebody still counted in it; but at an open barrier that one can take itself out.

**Bakery** (`BakeryProofs`).  The usual invariant of the algorithm, with two
additions for this code: in `get_ticket`, `number[j]` may have fallen between its
two reads, so the ticket is only known to exceed the numbers of CPUs that were
waiting *before* we began; and the order of holders is by (ticket, CPU).
`BakeryRefines` proves first-come-first-served for any number of CPUs.
`BakerySomebodyMoves` is about the two spinning loops: if somebody is still in the
doorway, it waits for nobody; if all are past it, there is a first in line, the least by
(ticket, CPU) (`FirstInLine`, from the well-foundedness of `<`), and it does not wait.

**Atomics** (`AtomicsProofs`).  A CPU whose monitor is still set has the current value
in its register (`MonInv`); the mutex is 1 exactly while some operation holds it
(`LockInv`); the counter is its start less the decrements that were stored (`DecInv`).
From these follow `DecExact`, `UnlockNeverWaits` and the refinement of
`LockSpec`, for any number of CPUs and lost monitors.  `AtomicsNoLostWakeup`: before it sleeps, a
CPU has given up (`clrex`) the monitor that could have woken it, so that there must be a holder
whose unlock is still to come, or an SEV already on its way.

**Dispatch** (`DispatchProofs`).  `QuietAtReturn` speaks of the moment of return only.
The invariant gives every secondary a stage during a call (idle, told but not begun,
done but flags not yet down, over) and says for each what `to_execute`, `finished`,
`fn` and `arg` hold and which loop of CPU 0 still has to look at it: `HandedTo` says
whom CPU 0's loop has reached, `StartInv` relates the boot flags to `started`, `OwnInv`
is CPU 0's own part of the call.  Both sides write the flags, and the point
is that no stage lets both write at once.  `DispatchRefines` proves that calls number of CPUs, one or all, are calls of `ForkJoin`.
`DispatchNoLostWakeup` needs `WakeInv` besides: if a CPU sleeps without an event pending,
either the flag it waits for is still down or the one who raised it has the SEV still to send.

**Harness** (`HarnessProofs`).  None of the properties is inductive, since a CPU knows nothing of
where the others are other than through the barriers.  `Together` says that
all CPUs are in the same `Stage` of the same `Round` between two waits at
generic_cpu_barrier, where a CPU that was released already counts as being in the next
stage; `TurnInv` says the same of the threads of a test and their two kinds of
barrier; `BarInv` that nobody is in a barrier other than the one it waits at.  With
these, `InitInv` (thread 0 has initialised a batch before anybody looks at it),
`TlbInv` (what a TLB holds of other batches has been invalidated, and ASIDs within a
batch are distinct) and `RestoreInv` (without a spare CPU, what is saved was not
changed, and what was changed somebody will still put back) are inductive, and
give `Isolated`, `PrefetchNeverFails`, `RestoredWithoutSpares` and `RegroupsQuietly`.
`NeverAllHeldUp` follows from `Together`, `TurnInv` and `BarInv`: if all CPUs were held up, either all
would be at generic_cpu_barrier, or all threads of the test at the same one of their own barriers, and a
barrier at which all its users are lets them through.  All of this is for any
numbers of CPUs, threads and runs and any batch that `sanity_check_test` admits
(`SizesAssumption`, `TestsAssumption`).

**Vmm** (`VmmProofs`).  What a step of one CPU does to the walk of another hangs on two facts about
the pagetable as a whole, which the invariant states of some `lev`, the level of every
table, and some `s`, the pagetable as it was when the last test began (both are
quantified: no variable of the model holds them).  `Good`: an entry that leads to a table
leads to one of the next level, and only to pages that were handed out; so no table
has two levels, and a write to an entry that leads to none disturbs no walk (`KeepsIf`).
Hence a CPU's path stays what the hardware would walk (`PathInv`), also between the
breaking and the making of a link by the owner of the lock (`LockInv`), and so
do the saved pointers (`PtrInv`).  `CleanInv` is about `clean_run_data`, where
no lock is held: whatever differs from `s` is still pending on some CPU, and all who are restoring an
entry write the value it has in `s`, so that one may make what another has made
already.  What a TLB may hold other than what is in memory too (`Harmless`) is about to be flushed
by somebody (`StaleInv`).  These give `TypeOK`, `PointersStable` and `BreakBeforeMake`, for any
numbers of CPUs, variables, batches and pages, any fan-out, any regions, and whatever
page or block a test puts where (`VmmAssumption`).

`MappedAsAsked` says what the tables are for, and needs a second invariant, `MapInv`, about the
same `s`.  No table is reached by two ways (`Tree`), so that a write to an entry changes
the translation of one block of addresses and no other: that is arithmetic on addresses
as numbers of four digits (`Digits`, `NearStep`, `Blocks`), from which what
`set_block_or_page` is asked for is exactly that block (`Asked`).  A new table is empty and
unreachable until it is linked, and takes the place of an entry that translated nothing
(`FreshInv`, `LinkTrans`).  The loops of `__ptable_set_range` begin where they can map blocks of their
level or have nothing to do (`RangeInv`), so that every block is aligned and inside of its region
(`RangeTurn`).  With these, `Mapped` holds: every address
translates as asked, or its entry is between its break and its make.  All of it needs
`Unsplit`: `vmm_ensure_level` meets no block, where it would not write what it announces (`vmm_split`, section
3), and `set_block_or_page` finds no table where it is to put a block.
`VmmMapsUnlessSplit` has it as its premise; `VmmMapsAsAsked` derives it (`ApartInv`,
`ApartUnsplit`) from `LayoutsApart`: the regions of a pagetable do not overlap and
the variables are outside of them.  That is so for the regions of
`vmm_pgtable.c:258-397` if memory ends below 16 GiB, where `STACK_MMAP_BASE` is: the
identity mapping of the test data goes up to `TOP_OF_MEM` (`device.c:116`).  And it is so for the
variables of a test, whose addresses begin at 128 GiB, unless `INIT_IDENTITY_MAP` or a fixed address
puts one inside of a region.  TLC evaluates `LayoutsApart` for the layouts of
`vmm` (`RunIsApart`); those of `vmm_split` do not meet it.  `AddressAssumption` says that
regions and variables are addresses the tables can translate at all.

**Histogram** (`HarnessProofs`).  `HistogramExact` speaks of the end of a batch; in between,
CPU 0 collects one run after the other while other CPUs may be ahead of it or behind.
`CollectInv` says what has been recorded and collected at each point: a thread that is past a run is
among those whose registers the run has (`OutsInv`), so that CPU 0 collects
complete results; nobody is released from the last barrier of a run that is not collected
(`DoneInv`); CPU 0 gives up only when all rows are taken by other results (`OverInv`); and the rows are
`Exact` for the runs collected so far: one row for each result, counting the runs that had it.
`AddResultsExact` is the sequential half: `add_results` keeps rows exact, whether it finds a row
by the lookup table or by comparing.  It rests on `ix_from_values` giving different results of
the same length different numbers, and on the totals that print_results computes, which are numbers
in base 1 of the same recursion `horner`.  `RegistersAssumption` says that all runs of a test fill the same
registers and that the lookup table, where it is used, has an entry for them.

**Concretize** (`ConcretizeProofs`).  `JobsAssumption` states what read_var_infos does not
check: a pin asks for no larger region than its root owns and both are identity mapped
or neither is, offsets keep both within that region, and offsets do not go in circles
(`Concretizable`).  That all tests of the catalogue are like that is part of `TestFits`.  `ConcInv` follows
an address from being drawn to being used.  `PlacedRight` relates where a variable
is to where it was drawn (`OffsetRight`) and that to where its root was drawn (`PinRight`);
`PickInv` says that whatever has no place yet is going to get one, so that the two `fail_on` of
concretize_random_one never fail; `RunsInv` that the addresses of every run are `Usable`, also
those copied by the fixed concretization, and that runs which were compared use different
ones.  From `PinOffs`, what pick_pin_region may draw, follows `PinsHold`: the end of a
region is the only place at which a pin can miss.  `UsableChecked` is the point where two sets
of rules meet: validate_selection compares what owns a region with what owns a region,
concretization_postcheck compares it with every variable, and they agree if all pins hold.  The
batch, the drawn offsets and the number of variables are not bounded.

**Valloc** (`VallocProofs`).  `HeapInv` describes the heap also in the middle of a free: blocks
and chunks of the free list are `Laid` between `top` and the end without touching each other;
between any two chunks there is a block, but for the one that is being merged (`Separated`); the
lowest chunk is above a block, except in the middle of a free (`LowestAboveBlock`); and as long as
only `alloc` is called, which rounds to powers of two, everything lies in pieces of 32 bytes up to the
end of the heap (`NothingLost`): bytes that `alloc_with_alignment` cuts off do get lost, until all is freed.
This gives `BlocksApart` and `FreeIsCompact` for any heap, number of blocks and sequence of calls
(`HeapAssumption`, `ProgramsAssumption`).  What aligning to and rounding to powers of two do is proved by
induction.

Induction over data is possible where the property is given as a *set* of numbers rather
than as an operator: `NatLeast` follows from the well-foundedness of `<`, and
`StrongInduction` and `RecursionDefines` from it, which gives the value of a recursive
function.  The lemmas on the powers of two, on numbers of a result and on sums are proved in
this way.

Only model-checked: all liveness (fairness and ENABLED are beyond the prover), and all of
`Litmus`, whose properties are computed from
the text of each test, with recursive operators and bitwise arithmetic: there is nothing in them to
generalise over, and the run covers every interleaving of every test.

Of liveness, the part that is a state property is proved for any number of CPUs: nobody sleeps without
somebody awake who is to wake it (`NoLostWakeup` of Atomics and Dispatch), and the CPUs never
all wait for each other (`SomebodyMoves`, `StuckForWantOfCaller`, `NeverAllHeldUp`).  That the
one who can move does, and that this ends, is what the runs check under fairness.

## 5. Not modelled, and what could come next

In this order:

1. `Vmm`: lookups of a spare CPU while a test edits upper levels; the pagetables of
   the harness itself, which share `zalloc_ptable`, and the free list of pages
   (`valloc_pgtable.c`).
2. The runners other than `RUNNER_EPHEMERAL`, `start_of_test`/`end_of_test`, linear
   concretization and addresses from the command line: other values of one global
   flag each.

Left out, with the reason:

- the tables of C handlers in `exceptions.c`: no test in `litmus/litmus_tests` sets one,
  and the default handlers are those of `Litmus`;
- the tests `SEA_R_detect` and `SEA_W_detect`, whose outcome is up to external aborts, and
  `MP.times+pos`, which measures time;
- `realloc` and `vmm_ptable_unmap`, which nobody calls;
- `rand.c` and the shuffle of run indices: any number is possible in the models, and
  a permutation only renames runs;
- configuration, argument parsing and regular expressions (`config.c`, `argparse.c`, `re/`),
  printing and strings: sequential transformations of text, where the unit tests reach
  what a model would;
- devices, features and drivers: register accesses of one CPU and reading a device tree;
- `tools/` and `utilities/`: offline scripts.
