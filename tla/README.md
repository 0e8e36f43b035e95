# A TLA+ model of jitlib

jitlib builds a JIT library in C from a description of a virtual machine (a
`.vmdef` file). A Python generator writes the C code; machine code comes from
DynASM, whose preprocessor is a Lua program that the build runs with minilua;
and the library has a concurrent hash map and an emulation of C11 threads. This
directory models the parts that have state or that compute something a test
would hardly exhaust, checks the models with TLC and proves the main facts
about them with TLAPS. Paths are relative to the repository's root.

To check a run: `tlc -config MapTable_mixed.cfg MapTableMC`; to check the
proofs: `tlapm MapTable_proofs.tla`. `PROJECT.json` says which definition models
which lines, which run checks which property, and a plausible error of the code
that breaks each property.

## 1. Inventory

| Part | Code | State | Operations | Modules |
|---|---|---|---|---|
| Concurrent hash map | `include/generic/map.h`, `include/internal/map_base.h` | the chain of tables from `hm->latest` through `prev`; per table the slots (`key`, `val` with a prime bit), `count`, `moved`, `move_done` | `put`, `remove`, `get`, `resize_barrier`; inside them `move_items`, `put_if_match`, `raw_lookup` | `MapTable`, `MapIntern` |
| Reclamation of tables | `map.h` 50-60, 148-165, `src/internal/map.c.tmp` 50-123 | a time with a pin bit per thread, the list of entries, `states[]` | `ebr_try_init`, `enter_pinned`, `exit_pinned`, the two walks of `map_thread_fn` | `MapChain`, `MapReclaim` |
| Hand-over of tables | `map.h` 105-140, `map.c.tmp` 30-60 | the list of nodes, its head and tail, two counters, a futex | the append, the wake, the wait, the take | `FreeList`, `FreeQueue` |
| C11 threads | `include/threads.h`, `include/internal/c11threads` | counters, semaphores and a monitor per condition variable; a table of destructors; the state of each thread | mutexes, waits, signals, `call_once`, create, join, detach, exit, thread-specific storage | `CondVar`, `ThreadLife` |
| Bytecode buffer | `gen/data/scope.h`, the builders of `gen/gen/ir.py` | `len`, `alloc`, `mem` | `push`, one builder per opcode | `Bytecode` |
| Assembler | `gen/data/syntax.c`, `Syntax` in `ir.py`, `include/io.h` | the copy of the text, the cursor, the strings of a line | read, split a line, choose an overload, parse, build | `Assembler` |
| Interpreters, the x86 machine | `gen/data/base/interp.c`, `interp.dasc`, `test/x86.vmdef`, `src/x86.c` | index, registers, machine code | one case per opcode, compiling and interpreting | `X86` |
| Run-time assembler | `dep/dasm/src/dasm_x86.h` | a buffer of positions per section, chains of label references | `dasm_put`, `dasm_link`, `dasm_encode` and the calls around them | `DasmX86` |
| minilua: compiler and machine | `dep/minilua.c`: `luaK_`, the parser, `luaV_`, `luaD_`, `luaF_` | the function being compiled; the stack, the frames, the open upvalues | one per grammar rule; one per instruction | `LuaCode`, `LuaParse`, `LuaVM`, `LuaMeaning` |
| minilua: tables | `dep/minilua.c`: `luaH_` | the array part, the nodes and their chains, `lastfree` | get, set, rehash, next, the border | `LuaTable`, `LuaMap` |
| minilua: collector | `dep/minilua.c`: `luaC_` | colours, the gray lists, the sweep's position, userdata to finalize | the steps of a cycle, the barriers, finalizers | `LuaGC` |
| Table sizes, lists, generator, code memory, machine `interp`, the rest of `dep/` | see `PROJECT.json` | - | - | - |

How they interact. A `.vmdef` goes through the generator, which instantiates
the templates in `gen/data`: the buffer, the interpreters and the assembler of
one machine. The assembler calls the builders, the builders push on the
buffer, an interpreter runs over the buffer, and one of kind `dasc` emits
machine code instead of acting: its source was turned into calls of
`dasm_put` by DynASM's preprocessor, under minilua, at build time. The hash map
is a library of its own: a client defines `MAP_FN` and includes `map.h` once
per type of key. Its threads share the tables through C11 atomics, hand tables
that were migrated away to one freeing thread through a lock-free list and a
futex, and that thread waits for the clients' pins before it unmaps. The thread
emulation gives C11 names to what Windows and POSIX have.

What is hard. In the map: any number of threads at arbitrary points of a probe,
a claim, a freeze and a copy; a thread that looked at the world before a resize
and acts after it; a retired table that somebody still reads; a wake-up that
comes before the wait. In the thread emulation: a wait that times out while its
signal is on its way, a registration that nothing protects. In DynASM: three
passes that must agree on the length of every instruction, and labels whose
references are chained through buffers that move. In minilua: code emitted in
one pass and patched afterwards, upvalues that outlive their stack slots, keys
that drive one another out of their places, and a collector that stops between
any two steps. In the rest: an allocation that fails in the middle of an
instruction, a line that ends where the assembler expected more, two
implementations of one instruction. `PROJECT.json` lists these hazards at their
lines.

What makes each part correct. The map: a key owns one slot per table and every
probe finds it; a counter never runs ahead of what it counts; a table is
retired once, and only when its contents are in the next one; whoever interns a
key gets a pointer to it, and the key stays; calls return, as far as they do
(section 3). Reclamation: no thread has a
pointer to an unmapped table, and every retired one is unmapped, as far as pins
are seen and threads last. Hand-over: the
list is a queue, and no wake-up is lost. Threads: a signal wakes one of those
that waited, a broadcast all, values reach their destructors, a function runs
once. Buffer, assembler, interpreters: the bytes are the program, the text is
never left, what is written is what is built, the interpreter returns what a
program computes, and the compiled code does as far as its two-operand `imul` can.
Encoder: the code means what the lines mean. minilua: a program does what it
says; a table is a map and a traversal meets every field; what the program can
reach is never freed and what it cannot reach is.

## 2. Plan

Done, in this order: `MapTable` with interning; `MapChain` and `MapReclaim`,
whose clients follow pointers as `MapTable` was checked to do; `FreeList`;
`Bytecode`, `Assembler` and `X86`, each extending the one before; `CondVar` and
`ThreadLife`; `DasmX86`; `LuaCode`, `LuaParse` and `LuaVM`, each extending the
one before, against `LuaMeaning`; `LuaTable` against `LuaMap`; `LuaGC`.

What could come next: the generator's names and its replacement of template
variables; `map_compute_cap` and `hash2index` over a narrow word;
`test/test.vmdef` as a second instance, where overloads matter; metatables and
coroutines in `LuaVM`, prototypes in `LuaGC`.

## 3. The hash map: `MapTable`

`MapTable.tla` models `map.h` one shared-memory access at a time. A thread's
program counter (`pc`) names its next access; its locals are the records
`top` (the locals of the four operations), `mv` (`move_items`), `pm`
(`put_if_match`) and `scan` (`raw_lookup` and the probe of `get`). A frame that
is not in use is reset, so that states differ only where behaviour can.

| Actions | Code |
|---|---|
| `Begin`, `LoadLatest`, `LoadPrev`, `Reload`, `Exit` | the common frame of the four operations |
| `MvClaim`, `MvKey`, `MvPrime`, `MvDone`, `MvDetach` | `move_items` |
| `PmTop`, `PmLatest`, `PmPrev`, `PmVal`, `PmKey`, `PmCount`, `PmBarrier`, `PmAdopt`, `PmWrite` | `put_if_match` |
| `ScanVal`, `RlKey`, `GetKey` | `raw_lookup`, the probe of `get` |

Two reductions. A load followed by a compare-and-swap loop that reloads the
same word on failure is one action, taken at the successful exchange. And the
tables a thread holds are never reused: whether the memory behind them may have
been freed is the subject of `MapReclaim`. A failed `assert` is a program
counter of its own, and stops the program (`Aborted`); so the invariants speak
of executions up to the first failed assertion. `assert(done <= cap)` (map.h:104)
is not among them: that the model's sums keep to it is part of `MoveSound`,
which is proved.

`exp` is always `&MAP_NO_MATCH_OLD` in the code that is compiled (the one other
use is inside `#if 0`), so its test (map.h:283) is always true and is left out.

A key stands for all the pointers that `cmp` finds equal, and the constant
`Denotes` gives the key that a value points to, if it does to any. The barrier
of `put_if_match` looks `val` up instead of `key` (map.h:261); `Sought` is what
it then finds, a key only where values are pointers to keys, as in interning.

`InternSet` is the abstract specification of the interning use (map_base.h:4),
`put(k, p)` with pointers `p` to `k`: a set of keys that only grows, in which a
key is present before its `put` returns, with a pointer to that key. It does not
say that all callers of equal keys get one pointer, which interning means but
`put` does not do: `put` accepts any value it finds and writes its own over it
(map.h:281-290), and `put_if_null`, which would not, is inside `#if 0`
(`OnePointer`, section 11). `MapIntern` maps the tables to that set (`Visible`: the keys
that have a value in a table reachable from `latest`; `Answer`: the pointer
about to be returned) and checks the refinement. It also maps `MapTable` to
`MapChain` (section 4) through `MapHeld`, which says what tables a thread has
pointers to.

`CallsReturn` says that every call returns, and excepts, besides a failed
assertion, two situations in which
the code goes round for ever, both with three tables. A `put` that is displaced
keeps `latest` and `prev` (map.h:275); if `prev` was loaded during a migration
that is over by now, the `put` neither grows the table nor loads the pointers
again (`Stuck`). And a thread that moves an item of a chunk into a table that
others have filled may not grow it, since its own chunk keeps `prev` from
becoming `NULL` (`Jammed`); then everybody waits for that thread. `WritesLater`
and `BiggerTable` are what the code's comments say at these places, and TLC
refutes both in the setting of `MapIntern_nested` (section 11).

Bounds, in `MapSizes.tla` and the configurations. The code's capacities start
at 253 (`map_compute_cap`); the model's tables have 2 to 6 slots. What matters
is kept: the load limit is 75% of the capacity, home slots collide, probes wrap
around the last slot, a migration has several chunks (but in
`MapIntern_nested`, where liveness needs the smallest tables that still make
three of them). `MaxTables` bounds the
tables; a `put` that would create another one stops, and clients may stop
calling, which is why the runs say `CHECK_DEADLOCK FALSE`. `ThreadSymmetry` is
used only by `MapTable_mixed`, where all threads have the same calls and no
liveness is checked.

| Run | Bounds | Question | Result |
|---|---|---|---|
| `MapTable_mixed` | 2 threads, 2 keys, tables of 3 and 6 slots, chunks of 2 (the last one is short), `put` of either key and `remove` of one | do probes find every key (`KeysOnPath`), do calls return usable words (`WriteResults`), are a claimed key and a frozen word final (`FrozenForever`) | holds |
| `MapIntern_set` | 2 threads, 2 keys, two pointers to one of them, one resize, `put`, `get`, `resize_barrier` | does interning refine `InternSet`: keys stay, and `put` returns a pointer to its key | holds |
| `MapIntern_nested` | 2 threads, 3 keys, 3 tables of 2, 2 and 6 slots, so that a resize may begin in a migration; a chunk is a table | does `count` count each slot once and in its own table (`CountLags`), are retired tables migrated, do threads come by tables only as `MapChain` says, does every `put` return but for the two exceptions (`CallsReturn`) | holds |

Each interesting case happens within these bounds: a thread that fills the
first table to its limit while the other is anywhere in a call, chunks moved
by different threads at once, a writer displaced by a freeze, a table whose last
chunk is finished by a thread that did not claim it last. The passing runs fire
every action.

Fairness is weak and per thread, for threads that are inside a call
(`Fairness`): the operating system schedules every runnable thread, and clients
may stop calling. The code has no locks, so no stronger assumption is needed or
justified.

Most of what the code does not do as it says is about `get`, values and third
tables: section 11.

### What is proved

`MapTable_proofs.tla`, for any number of threads, keys, tables, slots and any
chunk size, under `SizeAssumption` (capacities are positive, home slots lie in
their table) and `CallAssumption` (keys, values, `NULL` and the tombstone are
different; `put` is called with a value; a value points to a key or to none):

* `TypeCorrect`: `TypeOK`, which includes `FrameInUse`, is inductive by itself.
  A step changes the locals of one thread only (`LocalStep`), so each action
  needs that its tables stay typed and that its own thread's frame stays
  consistent; the lemmas `PuttingFacts`, `ProbingFacts`, `MovingFacts` and
  `ScanningFacts` say what is known at each place.
* `ProbesFindKeys`: `KeysOnPath` relates the slots to the home slots (a claimed
  key has only claimed slots, of other keys, before it on its path) and to the
  threads that are probing (they have passed such slots only). Only a claim
  writes a key (`KeyWrites`); `DistanceFacts` is the arithmetic of wrapping
  around. With `TypeOK` it is inductive.
* `KeysAreUnique`: two slots of one key would each lie before the other.
* `ResultsAreUsable` and `MigrationFreezes` need a second invariant, `Settled`:
  the word a thread expects in its slot is never frozen when it writes, and if
  it saw a value then the slot still has one. `ValSteps` shows that values only
  grow (`ValGrows`: a word that is not empty never becomes empty, a frozen one
  never changes).

`MapMove_proofs.tla`, under the same assumptions, proves what happens when the
map grows, and that the map interns:

* `CountsLag`: `CountLags`. `CountSound` says it with the finiteness of the set
  of threads between their claim and their `fetch_add`: a claim adds one to the
  slots and one to that set, the `fetch_add` moves one from the set to `count`.
* `MapIsChain`: `ImplementsChain`, the refinement of `MapChain`. Its invariant is
  `MoveSound`. `Linked`: each table points to the one below until that one is
  retired. `Framed`: the tables in a thread's frames are at most `latest`, `prev`
  is the one below `latest`, a chunk lies below `moved`, and a thread at the
  detach has a table whose count is complete and which is not retired yet.
  `Chunked`: no slot is in two threads' chunks, and `move_done` is the number of
  the slots that were taken in a chunk and are in nobody's chunk any more
  (`Accounted`), so that it reaches the capacity once, for one thread. None of
  the three is inductive without the others.
* `RetiredIsMigrated`: `RetiredMigrated`. `ItemsSound` follows one slot: it is
  not frozen before its turn in a chunk (`SlotsSound`), while its mover is in
  `put_if_match` the frame has its key (`Relocates`), and once it is accounted
  for it is frozen and the key of its value is in a newer table (`Done`). A word
  that is not empty stays so, hence later steps cannot undo it (`SlotStays`).

Its last part proves `MapInterns`: `ImplementsInternSet`, the refinement of
`InternSet`, from three hypotheses. `NothingRemoved`, no client calls
`remove`, and `PutsOwnPointers`, the value of a `put` points to its key: that is
what interning is. `[]NoNesting`: no table points to one that
points to a third, the condition that `put_if_match` asserts at one place
(map.h:260); the code does not establish it (section 11), and without it a key
may disappear, so it cannot be dropped. With two tables it always holds. The
invariant, `InternSound`, goes beyond `Done`: a slot with a value keeps one
(`Valued`), whatever a retired table had is in a table that is not retired
(`Placed`, which needs `Tidy`: the retired tables are all but the last or the
last two), a mover's value is still in its old slot, and a value that
`put_if_match` has seen is still in its slot, so that a `put` which returns leaves
its key with a value (`Honest`). That the returned pointer is one to the key is
a second invariant, `Pointing`: every value in a slot points to the slot's key
(`SlotsNamed`), and so does what a thread is about to write or to return
(`Points`); it needs the first, because a barrier copies what it finds in the
older table, and because a mover freezes a slot after it has read the key. Then
every step of the map is a step of the set
or none: only a client that puts a key makes it visible (`PresentGrows`), and
freezing, copying and retiring change nothing that can be seen.

What is not proved of the map: `CallsReturn`, since liveness is beyond the
prover.

## 4. Reclamation: `MapChain` and `MapReclaim`

`MapChain` is what reclamation needs to know of the map: a chain of tables, and
threads that come by a table from `latest` or from the `prev` of one they have,
grow the chain, and detach its last table. `MapIntern_nested` checks that
`MapTable` implements it, and `MapIsChain` (section 3) proves it. `MapReclaim` adds the entries, the pins and the
freeing thread; that thread takes any retired table, since `FreeList` is about
the order.

| Actions | Code |
|---|---|
| `Call`, `Insert` | `ebr_try_init` (map.h 150-165) |
| `EnterPinned`, `ExitPinned`, `GetHit` | `enter_pinned`, `exit_pinned` (map.h 50-60), the return inside the loop of `get` (389) |
| `Operate` | the body of an operation, by `MapChain` |
| `ThreadExit` | the end of a thread, and of its `map_ebr` |
| `Pop`, `ReadCount`, `LoadList`, `NoteEntry`, `SpinEntry`, `EndWalk`, `Free` | `map_thread_fn` |
| `ReadGone`, `Astray` | a walk that reads the entry of an ended thread |
| `Drain` | a release store that becomes visible (x86 store buffer) |

`states[]` is not initialised in the code: when its second walk begins, an
entry that was not written holds any time. An entry is thread-local: when its
thread ends (`ThreadExit`) it stays in the list and its memory is gone, so a walk
that comes to it leaves the defined part of the program (`ReadGone`, `free_pc` is
`"astray"`). From there the model lets the freeing thread unmap any table
(`Astray`); what else it may write is not modelled, and the properties of freeing
make an exception of it. The history variable `early` has the threads that came
by a table while other threads did not see them pinned: because the pin still
waited in their store buffer (map.h:53), or because an earlier `get` had returned
pinned (389) and entering then unpinned them. A thread leaves it when it has no
table any more.

`Hitting`, `Ending` and `Late` bound which threads may return pinned, end and
have late stores, `MaxDelayed` how many stores are late at once, `MaxTime` the
calls of a thread. No property mentions these bounds.

| Run | Bounds | Question | Result |
|---|---|---|---|
| `MapReclaim_freed` | two threads, one of them hitting, ending and late; 2 tables, 2 calls each, one store may wait | does no thread but the early ones have a freed table (`NoUseAfterFree`), was its entry noted as unpinned rightly (`UnpinnedHoldsNothing`), is a retired table unreachable, is every one freed unless a thread strays or the freeing thread goes astray (`EveryTableFreed`) | holds |

Two threads suffice for a registration at every point of both walks and for a
pinned and an unpinned entry side by side. Fairness: the freeing thread is
scheduled, and so is each client thread inside a call; clients need not call
again, which is the case in which the freeing thread must see the exit.

Proved in `MapReclaim_proofs.tla`, for any number of threads, tables and calls:
`ChainSafe` (a retired table is not reachable), `ReclaimTypeCorrect`, and
`FreeingIsSafe` (`NoUseAfterFree`) and `UnpinnedIsFree`
(`UnpinnedHoldsNothing`). The invariant of the last two, `FreeInv`, says that a
thread has tables only inside an operation, and is early or seen pinned then
(`PinnedInside`); and, until the freeing thread goes astray, what it knows of a
thread that has the table about to be freed (`Waited`): its id is counted, its
entry is still ahead of the first walk or noted with its present time, and then
still ahead of the second walk. A late or stray thread is early at most, and what
it does to its own entry does not reach the entries of others. That every table
is freed is checked by TLC only.

## 5. Hand-over: `FreeList` and `FreeQueue`

`FreeList` has one action per access of the append (`TestAndSet`, `Create`,
`Alloc`, `LoadTail`, `Walk`, `Link`, `Swing`, `Count`, `Wake`) and of the
freeing thread (check, wait, take). The comparison inside `FUTEX_WAIT` and the
decision to sleep are one action, as the kernel makes them. The tail pointer
may lag, even behind the head. `FreeQueue` is a queue; `ImplementsFreeQueue`
maps to it the nodes that are linked and not taken: a history variable,
`linked`, keeps the nodes in the order of the successful compare-and-swaps, so
the property says that following `next` from the head finds exactly these, in
this order. If the count has changed when the freeing thread is about to sleep,
`WaitOnAddress` returns and nobody looks at its result (Windows, FALSE in
`Asserted`); `FUTEX_WAIT` fails, and the code asserts that it does not (Linux,
TRUE in `Asserted`): the program ends (`Aborted`). The source calls `futex`
without defining it; its arguments are those of `syscall`.

| Run | Bounds | Question | Result |
|---|---|---|---|
| `FreeList_queue` | 2 threads, 4 tables | is the list a queue from which each table is taken once; is every table taken (`EveryTableTaken`), with the wait of Windows whatever happens, with that of Linux unless the assertion ends the program | holds |

Four tables let each thread append twice, once with a stale tail. Fairness is
weak per thread, as above.

Proved in `FreeList_proofs.tla`, for any number of threads and tables:
`ListIsQueue`, the refinement of `FreeQueue`. The inductive invariant (`ListInv`)
has three parts besides the types. `ChainInv`: each node points to the one
linked after it, the last one and every node not linked point to nothing, and
none is linked twice. `HeadInv`: the head is the last node taken. `PendingInv`:
each appending thread has a node of its own that is not linked, and it searches
on nodes that are, as does the tail pointer; hence a node without a successor
that it finds is the last one, and a compare-and-swap that succeeds appends. The
proof's only assumption is that `MAP_DUMMY` is none of the nodes and `NULL`
neither. That every table is taken is liveness, and only model-checked.

## 6. Bytecode, assembler and the x86 machine

`Bytecode` is the buffer, the builders and the reads of an interpreter;
`Assembler` extends it with `syntax.c`; `X86` extends that with the compile
loop, the processor, the interpreter and `src/x86.c`, whose `main` builds a
program, compiles and runs it, then interprets it. Its call of the assembler
is commented out; the model has both: `pc` starts at `read` with a file or at
`build`. `main` repeats the runs to measure time; the model runs each once. The
interpreter's own error, at the end of a program without `ret`, cannot happen
there: the compiled code of that program has run off its end before.

Data. A byte of the buffer says which value of which type it is a part of, so
a misread shows. A text is a sequence of symbols: separators, NUL, the byte
0xFF and whole words. A register is its index; one that was not written holds what
it happened to hold (`Fresh`, a negative number for each), in the interpreter's
uninitialized `r64s` as in the processor; a result that comes from such contents
is any number, a different one for each back end (`Outcomes`). The code is emitted
without a prologue (jitlib.dash 47-57), so it returns to a caller only if every
callee-saved register of the System V convention is what it was (`Intact`);
otherwise anything may happen (`Crash`). Arithmetic wraps at `Modulus` (signed
overflow in `imul` is taken to wrap, as the machine code does). Encoding by
DynASM (section 8) and `mmap` are left out. What a parser gives for a string is `Parse`; on an empty
operand `sscanf` stores nothing and does not return 0, so the operand is any
value.

| Actions | Code |
|---|---|
| `Call`, `PushField` | a builder (ir.py 361-375), `push` (scope.h 44-59) |
| `ReadFile`, `Line`, `Name`, `Argument`, `TooMany`, `EndArgs` | `io_read`, `syntax.c` |
| `Build`, `Reject` | the generated overloads (ir.py 224-246), the error path |
| `Compile`, `Export` | `interp.dasc` with x86.vmdef 32-55 |
| `Execute`, `Leave`, `Crash` | the compiled function |
| `Interpret`, `Return` | `interp.c` with x86.vmdef 10-30 |
| `Lost` | either of them at bytes that are no instruction |

| Run | Question | Result |
|---|---|---|
| `X86_agrees` | is the buffer large enough and what it should be (`BufferOK`), does the assembler stay in its text (`NoOverrun`) and rebuild what was written (`RoundTrip`), do the interpreter and the compiled code return what the program computes, and does the code return to its caller (`BackendsAgree`, which is exact on what it excepts), does `main` come to an end (`MainEnds`); `realloc` may fail | holds |

`BackendsAgree` compares both results with a third thing: what the program
computes, taken from its instructions alone (`Reached`, `Final`). For the compiled
code that is the program in which `imul a, b, a` reads `imul a, b, b`
(`AsCompiled`): the property says what that instruction does rather than except
the programs with it. It asks nothing of a result that the program did not
compute.

Bounds: four registers, two of them callee-saved, operands of 1 and 2 bytes (so that the buffer grows in
the middle of an instruction), `Modulus` 8, programs of up to four
instructions, every text of up to three symbols, every line of `mov` and up to
four more symbols, and the canonical text of programs of up to three
instructions, `ret` also in front of others. `Instructions` bounds what is built by calls. Fairness is weak on
the one thread. The program ends, hence `CHECK_DEADLOCK FALSE`.

Proved in `X86_proofs.tla`, for any machine, sizes, texts and programs, under
`SizeAssumption`, `OpcodesAssumption`, `FilesAssumption` and
`InstructionsAssumption` (operands have the types of the builder's parameters):
`BufferFits` (`len` never exceeds `alloc`) and `StaysInText` (no scan leaves the
text unless it stops in a comment). Their inductive invariant adds to `BufferOK`
that the fields still to be pushed have known types (`PendingOK`) and, for the
assembler (`AsmInv`), that the text from the cursor on is as it was loaded: it
overwrites only what it has passed, so the last terminator is there when a scan
needs it.

`CompilerAgrees` is about the machine of `test/x86.vmdef`: its hypothesis
`X86Machine` gives `Opcodes` and `Parse` the values the run gives them. Registers,
sizes, texts, programs and the modulus are any
(`RegistersAssumption`, `NumbersAssumption`, `NullAssumption`). `BackendsAgree`
follows from `MachineInv`:

* `Layout`: the bytes are the program, instruction after instruction and field
  after field, each where the one before ends, those still pending included; so
  `Fetch` reads at the start of an instruction what its builder pushed
  (`LayoutCall`, `LayoutPush`, `FetchIs`).
* `PhaseAt`: while the compiler runs, its index is the start of instruction `i`
  and the code is that of the instructions before it (`Coded`); while the
  processor runs, its registers are what the compiled program makes of the fresh
  ones up to instruction `i` (`Reached` of `AsCompiled`), or it stands between the
  two machine instructions of an `imul` (`Halfway`); while the interpreter runs,
  its registers are what the program itself makes of them, it is not past the
  first `ret`, and the processor's result and callee-saved registers were right.
* `Reached` is defined by recursion, and `ReachedIs` shows that such a function
  exists and starts and goes on as it should; `FinalIs` finds the first `ret`.

The step it turns on is `HalvesMultiply`: after the `mov` the third operand holds
the second one if it is the destination, and its own value otherwise.

`WrittenIsRead` is `RoundTrip`, for any opcodes, sizes, parsers and texts. What a
written text is, `WrittenLine` says and `FilesAssumption` requires of the files
with a `want`: mnemonic, space, operands with commas between, line feed; no
opcode before the instruction's own has its mnemonic and number of operands; and
each string parses to its operand and to nothing else. Behind a mnemonic without
operands the space is needed, unless the text ends there: the assembler
overwrites the symbol that ends the mnemonic and looks for operands behind it,
so with a line feed there it would read on in the next line. TLC evaluates the
assumption for the files of the run. The invariant, `TripInv`, is in terms of
the lines, `at[k]` being where the line of the k-th instruction starts
(`Following`): so far the program is the first instructions of `want`; between
two lines the cursor is at the start of the next one or at the line feed before
it (`Arrived`); inside a line the mnemonic and the operands passed have been cut
out, each a string of its own in the copy (`Named`, `Collected`), and the cursor
is at the next operand or at the space before it (`Collecting`). So neither
`TooMany` nor `Reject` can happen: a line has the operands of its opcode, at most
`MaxArgs` (`NeverTooMany`), and the smallest opcode that fits is its own
(`MatchedIs`).
`MainEnds` is liveness: TLC only.

## 7. C11 threads: `CondVar` and `ThreadLife`

`CondVar` has the mutexes and condition variables of both back ends: the
counters, semaphores and monitor with which `threads_msvc.h` builds a condition
variable where Windows has none, and the calls of `threads_posix.h`. `ThreadLife`
has threads, `call_once` and thread-specific storage, with the table of
destructors that no lock protects. A thread runs a script of legal calls, a
constant; `todo` is what is left of it. One action is one step on shared state:
one semaphore, one critical section, one read or write of a counter or of an
entry of the table.

| Actions | Code |
|---|---|
| `MtxLock`, `MtxTryLock`, `MtxUnlock`, `TimedLock`, `Attempt` | `mtx_...` |
| the steps of `WaitStep` | `impl_cond_do_wait` (msvc 122-171), `cnd_wait`, `cnd_timedwait` |
| the steps of `SignalStep` | `impl_cond_do_signal` (msvc 85-120), `cnd_signal`, `cnd_broadcast` |
| `ThrdCreate` ... `ThrdJoin`, `CallOnce`, `OnceDone`, `Spin` | `thrd_...`, `call_once` |
| `TssCreate`, `Register`, `SetKey`, `SetDtor`, `TssDelete`, `TssSet` | `tss_...`, `impl_tss_dtor_register` |
| `InvokeCheck`, `InvokeCall`, `Ended` | `impl_tss_dtor_invoke` at the end of a thread |

Three history variables name the executions in which the code loses something
(section 11): `raced`, `collided`, `recycled`. The properties say that it loses
nothing in all others.

| Run | Bounds | Question | Result |
|---|---|---|---|
| `CondVar_emulation` | 4 threads, 4 combinations of scripts with up to three waits, timed waits, signals and broadcasts at once; `INT_MAX / 2` is 2 (`GoneLimit`), so that `gone` is folded; one second | are tokens and counters in step (`TokensMatch`), does no emulated wait take a token that is not its own (`NoSpuriousWakeup`), does a broadcast end every wait it finds (`BroadcastWakes`) | holds |
| `ThreadLife_all` | 3 threads, 4 keys, 2 indexes, a table of 2 destructors, 4 combinations of scripts | does a value go to its own destructor, is none forgotten, has a function run once before anybody returns from `call_once` | holds |

Three waiters allow one that times out, one that is woken and one that stays.
Fairness is weak per thread: both systems let whoever can go on go on; time
passes (`Tick`), so that a timed wait ends on Windows. On POSIX it need not:
`cnd_timedwait` passes a time that it has not initialised (`PosixTimeout`). A
POSIX wait may also end for no reason and `cnd_wait` returns success then
(`PosixWake`), and a signal wakes at least one sleeper, perhaps more
(`PosixSignal`). None of the three is under the fairness assumption, and
`NoSpuriousWakeup` speaks of the emulation alone. The scripts end, hence
`CHECK_DEADLOCK FALSE`.

Proved in `ThreadLife_proofs.tla`, for any threads, keys, table size and typed
scripts (`LifeAssumption`, `ScriptsAssumption`), on both platforms:

- `OnceIsOnce`: `InitialisedOnce`. The invariant `OnceInv` ties the flag to the
  threads: nobody is inside `call_once` while it is 0, one thread runs the
  function while it is 1, none does at 2.
- `DestructorsMatch`: `OwnDestructor`. `OwnDestructor` speaks of calls already
  made, so the invariant has to say why the next one is right: no two keys share
  an index and a value is that of the key with its index or of a key no more
  (`Owned`); and, unless registrations collided or an index in the table was
  handed out again, threads that register have entries of their own, every entry
  with a destructor has the index of its key or of nobody, with that key's values
  only, and the entry for which an ending thread has found a value keeps its
  destructor (`TableInv`). The scripts need not be legal programs for it: a
  thread may use a key that another is still registering, and delete it.
- `ValuesAreDestroyed`: `ValuesDestroyed`, of programs that give a key no value
  before its `tss_create` has returned (`UsedAfterCreation`; a program that does
  so uses an index it has read from a variable another thread is still to
  finish, and there the value is lost: its thread may end before the entry is
  written). The invariant `WalkInv`, which holds until registrations collide,
  says that each key with a destructor is in the table or a thread is entering it
  (`EachEntered`), that nobody has a value for a key being entered
  (`NoValueYet`), and that an ending thread has destroyed a value, or its walk
  has yet to come to the key's entry, or has just found that very value there
  (`EachDue`). Entries stay where they are once they have a destructor, keys may
  be deleted and created again, and indices reused, without disturbing it.

`CondVar_proofs.tla` proves, for any finite set of threads (`CondAssumption`; the
tokens are counted), any scripts and any `GoneLimit`:

- `TokensAreMatched`: `TokensMatch`, by the invariant `CondInv`: unless a time-out
  has crossed a signal (`raced`), the counters count the threads that are in a
  wait (`WaitersCounted`), the tokens are as many as they should be
  (`TokensCounted`), the gate is shut during a batch and while its last thread
  drains what the time-outs left (`GateShut`), and the monitor is held between
  two batches (`MonitorHeld`). Each needs the others: what a time-out may take
  off depends on the batch, and when a batch ends on the number of waits.
- `WakeupsAreCalled`: `NoSpuriousWakeup`, of the emulation only, by the part
  `CallsFollow` of the same invariant: while the gate is shut every thread between its count and its token
  was there when the signal came.

That a broadcast ends every wait (`BroadcastWakes`) is liveness, and only
model-checked.

## 8. The run-time assembler: `DasmX86`

`DasmX86` is the encoding engine of DynASM for x86 and x64. `CallPut` is one
call of `dasm_put`: it follows the action list, checks the room of the buffer
once, stores the arguments and links the references to labels (pass 1); `Link`
lays the sections out (pass 2), `Encode` writes the bytes (pass 3); `Setup`,
`GrowPC`, `CheckStep`, `Free` and `Freed` are the calls around them. Action
lists are data: `DasmX86MC` has the bytes that the preprocessor writes for the
lines named there. The model is of the build with `DASM_CHECKS`; the
library's build does not define it, which makes no difference to calls that pass
the checks and leaves the others undefined.

`DasmX86MC` also has what each of those lines means: the bytes by the
processor's manual, and a plain assembler that knows all lines from the start,
keeps no chains and estimates nothing.

| Run | Bounds | Question | Result |
|---|---|---|---|
| `DasmX86_lines` | every sequence of up to 4 calls on labels and sections, of 3 on mixed lines and addresses, of 2 on calls with errors; every operand form with the registers 0, 4, 5, 12 and 13 and displacements and numbers at the limits of a byte; one state used twice | is the code what the lines mean, with the labels the client asks for (`CodeIsMeant`); do the passes count the same bytes (`PassesAgree`); does no call outgrow its buffer (`RoomSuffices`) | holds |

The registers are those whose encoding is special (rsp, rbp, r12, r13) and one
that is not. `MaxSecPos` is 8 here, so that the buffer's limit is met.

## 9. minilua: `LuaVM`, `LuaTable`

### Compiler and machine

`LuaCode` is the code generator: expressions are delayed as `expdesc`s, and
conditions become lists of jumps linked through the jumps' own offsets. Each
operator takes the state of the function being compiled and returns the next
one. `LuaParse` is the parser, one operator per grammar rule, over tokens.
`LuaVM` is the machine: one step is one instruction, or a part of a library
function that calls back. `LuaMeaning` is the abstract specification: it
evaluates the tree of a program, with one cell per variable and no registers,
jumps or upvalues, and writes the tree out as tokens.

| Actions | Code |
|---|---|
| `Load` | `f_parser`, `luaY_parser` |
| `Loads`, `SetUpval`, `GetTable`, `SetTable`, `NewTable`, `SetItems`, `ArithStep`, `LengthOrConcat`, `Jumps`, `Compare`, `ForPrep`, `ForLoop`, `TForCall`, `TForResult`, `Close`, `MakeClosure`, `VarArg` | the instructions, in `luaV_execute` |
| `Call`, `TailCall`, `Return` | `luaD_precall`, `luaD_poscall` |
| `ErrorCalled`, `PCall`, `PCallReturned`, `IPairs`, `IPairsAux` | functions of the base library, `luaD_pcall` |

| Run | Bounds | Question | Result |
|---|---|---|---|
| `LuaVM_programs` | 34 listed programs, each about one feature, six that the parser must refuse, and every condition of two operators deep over three leaves, in five contexts: 7870 programs | does each end as its tree says, errors included (`MeansWhatItSays`); does its code keep to its registers, constants and jumps (`CodeSound`); are the open upvalues sorted, without duplicates, and in frames that run (`UpvaluesOpen`) | holds |

`MaxRK` and `Flush` are 2 instead of 255 and 50, so that constants that do not
fit an operand and tables stored in parts occur. The cfg's `Compiled` and
`Meanings` are tables of the compiled programs and of their meanings, made once.
The stack is large enough for the programs and never moves. Strings are not
converted to numbers or compared by order, and `/` is not among the operators;
there are no metatables and coroutines. `Fairness` says
that the machine takes a step while it can.

### Tables

`LuaTable` is `luaH_...`: an array part, nodes in which a key that is not in its
main position is driven out by one that is, `lastfree`, `rehash` with
`computesizes`, `next`, and the border that `#` finds. `Assign` is a whole
`luaH_set` with the rehash it may cause, `Collect` is what the collector does to
the keys of empty fields, `Traverse` and `Step` are a traversal, which goes on
while fields are changed or emptied. `LuaMap` is the abstract specification: a
map, and some border.

| Run | Bounds | Question | Result |
|---|---|---|---|
| `LuaTable_keys` | 5 keys (three integers, a string, an object) that collide in tables of every size, `INT_MAX` 7, initial parts of 0 and 3 | is the table a `LuaMap` (`KeepsValues`); does a traversal give each key once and miss none that stays (`EachOnce`) | holds |

## 10. minilua: `LuaGC`

`LuaGC` is the incremental collector beside the program. `Collect` is one step:
`MarkRoot`, `PropagateMark` (one gray object), `SweepString`, `Sweep` (one object),
`CallFinalizer`, `EndCycle`, and between marking and the sweep what `atomic` does,
taken apart into the steps that end with a `propagateall`: `RemarkUpvals`,
`RemarkWeak`, `RemarkAgain`, `Separate`, `EndAtomic`, with `PropagateMark` in
between, while the program waits (phases `Atomic`). `reallymarkobject` is `MarkAll`
of a set of values, since what it paints does not depend on the order. `Program` is what an instruction may do
to memory: make an object, store into a table, an upvalue, an environment,
leave a block (closing its upvalues), read, intern a string, each with the
barrier the code has there. They alternate in any way, while the code steps
when enough bytes have been allocated.

Bounds: three objects beside the main thread and the table of globals, of the
kinds that `Mixes` gives; tables with one entry, closures with one upvalue, one
local, one string to intern. Closures of one program thus share an upvalue one
after the other, and no finalizer is called within another. The code sweeps up to 40 objects in a step, in the
order of a list; here one, in any order. Four mixes bring the parts out: tables
that change while they are traversed and ephemerons; closures that share
upvalues; finalizers; strings that come back.

| Run | Question | Result |
|---|---|---|
| `LuaGC_heap` | is what the program can reach allocated (`NoDangling`); does no black object refer to a white one, and has nothing reachable the colour of the dead (`Tricolour`); is an object in one list of the collector (`ListsSound`); does the collector change nothing the program sees but weak entries (`CollectorInvisible`); is a finalizer called once, for what is not reachable (`FinalizedOnce`); is garbage freed in the end (`GarbageFreed`) | holds |

`Fairness` is weak fairness of the collector's steps, told by what only they
change, except while it waits for a finalizer, and weak fairness of the return
of a finalizer: a program that goes on allocating goes on collecting. `Watched`
is one place, since places of a kind are alike. A program that stops allocating
may stop, hence `CHECK_DEADLOCK FALSE`.

### What is proved

`LuaGC_proofs.tla` proves the five safety properties of the run for a memory of any
size, any number of locals and any mixes (tables have one entry, closures one
upvalue, and one string is interned, in the theorems too: that is the model); `GCAssumption` says no more than that the
constants have the right types. The properties are about `Reachable`, which no
step looks at: the collector knows colours. None of them is inductive, and the
invariant that carries them, `GCInv` (theorem `GCInvariant`), is about colours only.
TLC checks it on `LuaGC_heap`'s instance as well. Its parts:

* `HeapTyped`, the types.
* `SoundOf`: a live object (one that does not have the colour of the dead) refers
  to live objects, and so do the stack and the collector's lists; open upvalues
  belong to the stack, and what is to be finalized is a userdata.
* `ColouredOf`: while the collector marks nothing is dead; while it sweeps, what
  does not have the new white is in the part that is still to be swept, or waits
  for its finalizer; at rest everything has the current white.
* `MarkOf`: while the collector marks, what a black object keeps alive is marked
  (`Keeps`, which leaves out the weak half of a weak entry); the three lists are disjoint and hold the gray objects that are to be traversed
  (`LinkedOf`); and each step of `atomic` has found what the next one builds on
  (the roots are marked, no open upvalue refers to a white value, `gray` is empty).

The argument, in the order of the module. `MarkAll` and the steps that use it only
make white things gray or black and keep `MarkOf` (`GrowKeeps`, `MarkAllMarks`). At
the end of `atomic` no gray object is left to traverse, so the marked objects are
closed under references and contain the roots (`NonWhiteClosed`), hence contain all
that is reachable (`ReachableMarked`); turning the white at that moment makes
exactly the unmarked ones dead, which gives `SoundOf` for the sweep. For the
program, every store either paints its object or marks what it stores, and a value
that it can name is live, since the roots are live and `SoundOf` is closed
(`ReachableIn`: what is reachable is in every set that has the roots and is closed;
the levels of the search are a recursive function, which exists by the least
number at which it would not). Then:

* `NothingDangles` and `BarriersSuffice`: a reachable object is live.
* `ListsAreSound`: `LinkedOf`, with what `IsInjective` says of a concatenation.
* `FinalizersOnce`: only `Separate` adds to the list, and only what is white when
  everything reachable is marked.
* `CollectorIsInvisible`: one step of the collector at a time. Marking only
  removes the key of an entry that is empty, the sweep frees nothing reachable, and
  what `ClearTables` takes from a weak entry is white or was finalized.

`GarbageFreed` is liveness and stays with TLC. Nothing of sections 8 and 9 is
proved: the encoder, the compiler, the machine and the tables compute by recursion
over programs and lists, which is beyond the prover.

## 11. Observations

What the models show of the code beside the properties above. Where a name and
a run follow, the modules state what a comment or an assertion of the code claims
under that name, and TLC refutes it when it is put in the place of the properties
in that run's configuration.

Hash map.

* A `get` may miss a key that was present all along: a slot that another
  thread has claimed in the new table, and not written yet, hides the older
  table, because `get` decides by the key alone where to look (map.h:382-389).
  Two threads, two keys, one resize.
* A single client may not read what it wrote last: `move_items` writes the
  older value over a newer one that was put in the new table (map.h:92), and
  `resize_barrier` does the same (261). One thread, one resize. Where all
  values of a key point to it, as in interning, only another pointer to the same
  key can be seen, which is why the properties above are about interning.
* Interning does not give equal keys one pointer: the second `put` overwrites
  what the first one returned (map.h:281-290; `OnePointer` in `MapIntern_set`).
* A value read during a migration may carry the prime bit, and this return of
  `get` leaves the thread pinned (map.h:389): the freeing thread then waits for
  ever, or the thread's next call runs unpinned, without harm to other threads
  (`NoUseAfterFree`).
* The key of a slot is loaded before its value is frozen, so the mover may copy
  a value with a NULL key (map.h:82-92), and `assert(key)` (188) fails.
* With three tables, a displaced `put` may retry for ever in a table that is
  frozen (`WritesLater` in `MapIntern_nested`), and a mover in one that is full
  (`BiggerTable` there).
  The capacities of the code (253, 509, 1021) make the second one rare: a mover
  must be suspended while the others fill the new table.
* A second resize may begin during a migration, and `assert(prev->prev == NULL)`
  (map.h:260) fails; the second table may be detached while the first still has the
  only copy of a key, which disappears from view.
* A release store of the pin does not order the load of `latest` that follows
  it (map.h:53): a thread whose stores wait in a buffer may hold a table that
  is unmapped (`NoMoreRefs` in `MapReclaim_freed`).
* The entry of a thread that has ended is read from the list (map.h:157,
  `EntriesLast` in `MapReclaim_freed`).
* `FUTEX_WAIT` returns `EAGAIN` when the counter has changed, and the assertion
  on its result (map.c.tmp:45) ends the program (`WaitSucceeds` in
  `FreeList_queue`).

C11 threads.

* When a wait times out while a signal is on its way and other threads are
  blocked, the counters and the tokens part: a later wait may take the token,
  or a broadcast leave a thread asleep (threads_msvc.h:139). The properties say
  `raced` for these executions.
* Two threads that create keys at once may take one entry of the table of
  destructors (threads_msvc.h:180); and after `tss_delete` the old destructor
  gets the values of the next key with that index (437). The properties say
  `collided` and `recycled`.

Bytecode, assembler, x86.

* After a `realloc` that fails in the middle of an instruction the bytecode
  begins with an operand, and nobody is told (scope.h:53).
* A comment in the last line without a line feed takes the assembler out of its
  text (syntax.c:38); a line feed directly after a mnemonic is lost, so the next
  line is read as its operands (59); a comment after operands is read as further
  operands.
* `imul a, b, a` compiles to `mov a, b; imul a, a` (x86.vmdef:49), which is the
  square of `b`: `AsCompiled` in `BackendsAgree`.
* The compiled code saves no register, yet a program may write `rbx`, `rsp`, `rbp`
  or `r12` to `r15`, on which its C caller relies (jitlib.dash:47; `Intact`).
* A program that returns an `rax` it never wrote returns what the caller left
  there when compiled, and an uninitialized array element when interpreted
  (x86.vmdef:12, 28).

minilua.

* A value that is a userdata whose finalizer was called is removed from a table
  even when only the table's keys are weak (`iscleared`; `Loses` in `LuaGC`).

Generator, by reading: for both machines in `test/` it names types it does not
declare (`int8_t` becomes `x86_int8_t_t`), and in `test/test.vmasm` line 4,
`add r3, r1, r2`, the first overload with three operands is the one that takes a
number, whose parser fails the line.

## 12. What is not modelled

`PROJECT.json` gives each part and its reason: the sizes of tables (TLC's
integers are narrower than the code's), lists (a growing array), the generator
(a sequential program that runs at build time, whose output is modelled), code
memory (wrappers of system calls), the second test machine, minilua's lexer,
strings, library, metatables and coroutines, DynASM's preprocessor and its
encoders of other processors (not built), build rules, and the sources that the
makefile does not find.
