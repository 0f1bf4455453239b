# Verification of the C-stack trace subsystem (`src/src/os/pl-cstack.c`)

This directory holds TLA+ models of the SWI-Prolog C-stack backtrace code, the
TLC configurations that model-check them, and TLAPS proofs about the slot
reservation.

## The system

`pl-cstack.c` (1164 lines) is one file holding several alternative builds. The
preprocessor keeps exactly one of them:

| build | lines | frames | store lookup |
|---|---|---|---|
| libunwind (`HAVE_LIBUNWIND`, no `dladdr`) | 56-230 | names and offsets inside the store | `get_trace_store` 91-115 |
| glibc (`execinfo.h`, `backtrace()`) | 236-511 | a `malloc()`ed return-address buffer per slot, resolved at print time by `dladdr`/`addr2line` | 271-296 |
| Windows (`dbghelp`) | 526-886 | inside the store, walked by `StackWalk64` under `PL_LOCK(L_CSTACK)` | 573-594 |
| fallback (no tracer) | 1024-1097 | none; stubs print "not supported" | none |

The parts and how they interact:

- **Trace store.** Each thread has a ring of `SAVE_TRACES` (10) labelled traces.
  The thread's engine holds it in `LD->btrace_store`, and it is created on first
  use. A thread without an engine gets a private store from
  `get_trace_store(TRUE)`, and that store is destroyed after use.
- **Slot reservation.** `next_btrace_id()` is one function with three
  identical copies (127-147, 303-323, 600-620). It is a `COMPARE_AND_SWAP`
  retry loop, or a plain increment and wrap. It may run inside a signal
  handler that interrupts itself.
- **Capture.** `save_backtrace(why)` reserves a slot, walks the stack into it
  and labels it.
- **Queries.**
  - `print_backtrace(last)` shows the last-th most recent capture.
  - `print_backtrace_named(why)` and `bstore_print_backtrace_named()` scan
    backwards from the cursor for a label.
  - `print_c_backtrace(why)` captures and prints at once.
  - The Prolog predicates `c_backtrace_clear/0` and `c_backtrace_print/1`
    (986-1008) clear the store and print by label.
- **Crash handler.** `initBackTrace()` installs `sigCrashHandler()` for SEGV,
  ILL, BUS, FPE and SYS (505-523). The handler then:
  - resets dispositions;
  - arms `alarm(10)`;
  - prints a banner, the "crash" C trace and the Prolog stack;
  - runs the on_halt hooks with status 128+sig;
  - re-raises the signal with `kill`, or calls `abort()`.

  On Windows, the exception filter `crashHandler()` (873-879) captures,
  prints by label and aborts. The fallback handler (1059-1085) does a reduced
  version of this.
- **Not a state machine.** `addr2line()` (355-414) and `CStackSize()`
  (1100-1164) change no shared state.

## Modules

| module | models | state | actions |
|---|---|---|---|
| `NextBtraceId` | `next_btrace_id()` in both builds, called from `save_backtrace()`, under nested signal preemption | `current` (bt->current); `active` (number of live activations); per activation `pc`, the loaded value `r`, the wrap-test value `w` and the returned `idx`; ghosts `granted`, `ticket`, `inner` | `Call`, `CasLoad`, `CasSucceed`, `CasFail`, `IncLoad`, `IncStore`, `WrapTest`, `WrapStore`, `Finish`, `Interrupt`, `Return` |
| `SlotCounter` | what reservation promises: an atomic fetch-and-increment modulo the ring | `cursor`, `held` | `Reserve`, `Release` |
| `NextBtraceIdProofs` | TLAPS proofs about `NextBtraceId`: type correctness and distinct overlapping slots | | |
| `NextBtraceIdRefinement` | TLAPS proof that the CAS build refines `SlotCounter` | | |
| `NextBtraceIdCursor` | TLAPS proof of `CursorSane` for both builds | | |
| `NextBtraceIdFill` | TLAPS proof of `FillDistinct` for the plain build, with the arithmetic of positions after a slot | | |
| `BTraceStore` | store lookup, capture, the queries, clear and the crash report, in the libunwind, glibc and Windows builds (`Variant`) | `heap` (store objects: unalloc, live or freed), `stores` (the cursor, the labels and whether each slot's frames exist), `ld`, `out` (what the last operation printed), ghosts `hist` (the captures since the store was made) and `crashAt` | `SaveBacktrace`, `PrintBacktrace`, `PrintBacktraceNamed`, `Clear`, `CrashReport`, with the Windows NULL-`LD` fault folded into each through `Op` |
| `BTraceStoreProofs` | TLAPS proof of `TypeOK` for all three builds, with the arithmetic modulo the ring and the closed form of the named scan | | |
| `BTraceStoreRing` | TLAPS proofs of `RingHoldsRecent`, `PrintLatestCorrect`, `NamedFindsLatest` and `CrashTraceRendered` for the Unix builds | | |
| `MCBTraceStore` | the TLC instance: ring 3, labels `{gc, crash}`, 3 store objects, 4 captures | | |
| `CrashHandler` | `sigCrashHandler()` in the tracer build and the fallback (`Build`), on each of the `Threads` | per thread `stacks[t]` (its nested activations: signal, pc, stuck); process-wide `disp` (the disposition of each signal), `alarmOn`, `status`, `termSig`, `hookRuns`, `faults` | `Fault(t, s)`, and per thread `Reset`, `ArmAlarm`, `Banner`, `CTrace`, `PlTrace`, `Hooks`, `Kill`, `Block`; `AlarmFire` |
| `CrashHandlerProofs` | TLAPS proof of `DeadlineArmed` for any threads and faults | | |

### Correspondence with the code

- **NextBtraceId.**
  - Every load and every store of `bt->current` is a step of its own, because
    a signal can arrive between any two.
  - Preemption is a stack of activations: level 0 is the thread, level l is the
    l-th nested handler, and only the innermost live level runs
    (`Top`, `Interrupt`, `Return`).
  - In the plain build, the wrap test `if (bt->current >= SAVE_TRACES)`
    (line 142) reads a non-volatile field. The compiler may reload it or reuse
    the incremented register, so `WrapTest` chooses between both values.
  - The ghost `granted` numbers reservations. `ticket[l]` is the number of
    l's reservation, and `inner[l]` collects the reservations made by
    handlers nested in l. These ghosts exist only to state which
    reservations overlap in time.
- **BTraceStore.**
  - Each operation is one step: the thread performs them one at a time, and
    their preemption is NextBtraceId's subject.
  - `GetTraceStore` returns the store, `LD->btrace_store` afterwards, and the
    object it allocated. It follows the three code copies:
    - Unix with an engine creates the thread store on first use.
    - Unix without an engine allocates a private store only for `create`.
    - Windows returns a fresh private store to every `create` caller once a
      thread store exists, and reads `LD` without testing it.
  - Every `malloc()` may fail: the `ok` choices.
  - In the glibc build, the frame buffer's `malloc()` may fail independently
    (`okBuf`), and `SaveIn` keeps the order of the code: the size is set,
    the buffer is NULL, the label is set.
  - `PrintTrace` prints a labelled slot as a trace and an unlabelled one as
    "No stack trace". In the glibc build, a labelled slot whose buffer is NULL
    is the fault that `print_trace` would take.
  - `NamedScan` is the loop of `bstore_print_backtrace_named` written as the
    sequence `Me[i]` of the values of `me`. It keeps the un-normalised end
    test `--me == bt->current-1`.
  - `CrashReport` is `print_c_backtrace("crash")` as called from the Unix
    handler (save, print by label, destroy a private store), or the Windows
    `crashHandler()`, which looks the store up a second time.
- **CrashHandler.**
  - Each thread has its own stack of activations, and only its innermost
    one runs; the threads interleave freely.
  - Signal dispositions and the alarm timer belong to the process: one
    thread's `signal(SIGSEGV, SIG_DFL)` makes a SIGSEGV on another thread
    fatal at once, and one thread's `alarm(10)` restarts the deadline the
    other armed. The blocked signals are per thread.
  - `kill(pid, sig)` with the thread id targets the process on Linux. The
    signal is at its default by then, so the process dies of it, whichever
    thread takes it.
  - While an activation for signal s runs, s is blocked. `signal()` gives BSD
    semantics without `SA_NODEFER`, and a synchronous fault of a blocked
    signal takes the default action.
  - The steps that format, walk a stack or run hooks can fault (`Fault`) or
    block for ever on a lock (`Block`). `alarm()` and `signal()` are system
    calls and do neither.
  - SIGALRM and SIGABRT start with any disposition the rest of the program
    gave them.
  - In the fallback build, `initBackTrace()` is empty. The model assumes
    that the handler is installed for the same signals by code outside this
    file.

## Runs

| run | cfg | expect | checks |
|---|---|---|---|
| `nbt_cas` | `NextBtraceId_cas.cfg` | pass | TypeOK, OverlapDistinct, CursorSane, SlotCounterSpec (refinement) |
| `nbt_plain` | `NextBtraceId_plain.cfg` | pass | TypeOK, CursorSane, FillDistinct |
| `store_glibc` | `BTraceStore_glibc.cfg` | pass | TypeOK, RingHoldsRecent, PrintLatestCorrect, NamedFindsLatest, CrashTraceRendered |
| `store_unwind` | `BTraceStore_unwind.cfg` | pass | the same, for libunwind |
| `store_glibc_nold` | `BTraceStore_glibc_nold.cfg` | pass | CrashTraceRendered on a thread without an engine |
| `store_glibc_fault` | `BTraceStore_glibc_fault.cfg` | violation | NoFault |
| `store_windows_crash` | `BTraceStore_windows_crash.cfg` | violation | CrashTraceRendered |
| `store_windows_nold` | `BTraceStore_windows_nold.cfg` | violation | NoFault |
| `crash_btrace` | `CrashHandler_btrace.cfg` | pass | DeadlineArmed, Termination |
| `crash_reentry` | `CrashHandler_reentry.cfg` | violation | NoReentry |
| `crash_fallback_hang` | `CrashHandler_fallback_hang.cfg` | violation | Termination |
| `crash_fallback_status` | `CrashHandler_fallback_status.cfg` | violation | HookStatusConvention |

What the properties say:

- **OverlapDistinct.** Two reservations that overlap in time, one made in a
  handler nested in the other's, hold distinct slots unless a whole lap of the
  ring lies between them.
- **FillDistinct.** Two activations that fill slots at the same time (a
  handler, and the code it interrupted while that code filled its own slot)
  fill distinct slots, unless the ring has wrapped between their
  reservations. The plain build hands one slot to two calls only when the
  handler ran between the load and the store of `bt->current++`. That
  handler has finished before the interrupted call starts to fill. This is
  the "consistency of the datastructures" that the comment of lines 118-124
  promises. In the glibc build, a shared slot would have its frame buffer
  freed twice (lines 338-341).
- **CursorSane.** When no activation is inside the plain increment and wrap,
  `bt->current` indexes the ring. The plain build can hand out a slot twice,
  which is the documented weaker guarantee of spec 4.2. The cursor itself must
  never end up outside the ring.
- **SlotCounterSpec.** `SC == INSTANCE SlotCounter WITH cursor <- current,
  held <- AbsHeld` maps each successful swap to `Reserve` and each return to
  `Release`.
- **RingHoldsRecent.** The store's cursor is the number of captures modulo the
  ring. Slot s holds the most recent of the last `SAVE_TRACES` captures that
  maps to s, or nothing. This also covers `c_backtrace_clear` and failed
  allocations.
- **PrintLatestCorrect** and **NamedFindsLatest.** The queries return what
  the history says they should (spec 8, items 1 to 4).
- **CrashTraceRendered.** The crash report prints the very slot the crash
  capture was written to.
- **DeadlineArmed.** Whenever the handler is at a step that can block, an
  alarm is pending and SIGALRM has its default action.
- **Termination.** Once any thread has entered the handler, the process
  ends, however the two threads' reports interleave.

Each property of a passing run has a mutant in `PROJECT.json`: an operator
defined just before the mapped definition, which changes it the way a
plausible bug would. TLC finds every one of them violated.

### Findings

- **glibc NULL dereference.** When the frame buffer's `malloc()` fails,
  `save_backtrace()` leaves a labelled slot with a NULL buffer and a non-zero
  size, and `print_trace()` then dereferences it (lines 338-342 and 426).
- **Windows crash trace.** `get_trace_store(TRUE)` hands a new private store
  to every capture after the first. The crash handler writes into that store,
  which is then leaked, and prints from the thread's store: an older "crash"
  trace, or nothing (lines 585-590 and 874-875).
- **Windows NULL `LD`.** `get_trace_store()` dereferences `LD` without testing
  it (line 577).
- **Re-entry.** The handler resets only its own signal, SIGALRM, SIGABRT and
  SIGSEGV. A SIGILL, SIGBUS, SIGFPE or SIGSYS raised during the report
  re-enters it, against spec 7 (d).
- **Fallback deadline.** The fallback handler has no deadline, so a blocking
  report hangs the process.
- **Fallback hook status.** The fallback handler runs the hooks with status 4
  rather than 128+sig.

### Bounds and why they are enough

- **NextBtraceId.**
  - Ring 3, 3 levels (the thread and two nested handlers), 5 calls.
  - With 3 levels, a handler can interrupt between every pair of steps of the
    level below, and be interrupted itself.
  - With 5 calls against a ring of 3, the cursor wraps while calls are
    outstanding.
- **BTraceStore.**
  - Ring 3 with 4 captures wraps the ring, and lets a label recur and be
    overwritten.
  - 3 store objects allow a store to be created, cleared and created again,
    while each `malloc` can still fail.
  - Two labels make the named lookup both hit and miss.
- **CrashHandler.**
  - Two threads are the smallest instance in which reports run concurrently
    and one re-arms the other's deadline.
  - 3 faults give both threads a handler and one of them a nested
    activation, or one thread a nested activation inside a nested one.
  - They also let a fault strike each reporting step, and allow fatal
    repeats.
  - The proof of `DeadlineArmed` covers every number of threads and faults.

### Fairness

- **CrashHandler.**
  - `WF_vars(Progress(t))` for each thread: the OS schedules every thread
    that runs the handler.
  - `WF_vars(AlarmFire)`: a pending alarm eventually fires.
  - Faults and blocking are choices that are never forced.
  - The terminal states (`status # "running"`) are final, which is why the
    CrashHandler cfgs say `CHECK_DEADLOCK FALSE`.
- **BTraceStore.** The crash report ends the process, and the capture bound
  stops the other operations, so these cfgs also say `CHECK_DEADLOCK FALSE`.
- **NextBtraceId.** These runs check deadlock.

## Proofs (TLAPS)

`NextBtraceIdProofs`, `NextBtraceIdRefinement`, `NextBtraceIdCursor`,
`NextBtraceIdFill`, `CrashHandlerProofs`, `BTraceStoreProofs` and `BTraceStoreRing`.

The proofs assume `SAVE_TRACES \in Nat \ {0}`, `Levels \in Nat \ {0}`,
`MaxCalls \in Nat` and `Atomic \in BOOLEAN`. The BTraceStore proofs assume
`StoreAssumption` (a non-empty ring, `CrashLabel \in Labels`, a known
`Variant`, a Boolean `HasLD`, natural bounds) and `LabelAssumption` (no
caller's label is the NULL of an unused slot). The theorems are:

- **`TypeCorrect == Spec => []TypeOK`**, for both builds.
  - `TypeOK` is not inductive. The strengthening `TypeInv` adds three facts:
    - levels at or above `active` are idle (`LiveIdle`);
    - in the CAS build, `current` and every loaded value index the ring, and
      no activation is in the plain-build states (`CasShape`);
    - in the plain build, no activation is at the swap (`PlainShape`).
  - `TypeInit` and `TypeStep` (one step per action) prove it inductive.
- **`CasOverlapDistinct == Atomic => (Spec => []OverlapDistinct)`.** The
  inductive invariant `OverlapInv` strengthens `TypeInv` with three facts:
  - `Numbered`: the cursor is the number of reservations modulo the ring, and
    every held or recorded slot is its ticket modulo the ring, with tickets
    below `granted`;
  - `NestedLater`: every reservation of a handler is numbered after those of
    the levels it interrupted;
  - `OwnDistinct`: no recorded reservation shares the ticket of the one its
    level holds.

  Distinct tickets fewer than `SAVE_TRACES` apart have distinct residues
  (lemma `DistinctTicketsDistinctSlots`), which gives `OverlapDistinct`.

- **`CasRefinesSlotCounter == Atomic => (Spec => SlotCounterSpec)`**
  (`NextBtraceIdRefinement`).
  - `Init` maps to `SlotCounter`'s `Init`: no activation holds a slot.
  - Under `TypeInv`, every step maps to a `SlotCounter` step or a stutter
    (`RefStep`, one step per action):
    - a successful swap is `Reserve`, because the cursor is a slot and
      `CasNext` of a slot is its successor modulo the ring (`CasNextSlot`);
    - `Finish`, and `Return` of a handler that holds a slot, are `Release`;
    - every other step leaves `current` and `AbsHeld` alone;
    - the plain-build steps cannot occur, by `CasShape`.
- **`DeadlineArmedHolds == Tracer => (Spec => []DeadlineArmed)`**
  (`CrashHandlerProofs`), for the tracer build with `alarm()`, any set of
  threads and any `MaxFaults`. It assumes `CrashAssumption`.
  - `DeadlineArmed` is not inductive: it says nothing of an activation at
    the reset or the alarm, which the next step moves on.
  - The inductive invariant `Armed` says: while the process runs, every
    activation of every thread past the reset has SIGALRM at its default,
    and every one past `alarm(10)` has an alarm pending.
  - Nothing sets SIGALRM back. The alarm is only spent by firing, which
    kills the process once any activation is past the reset. A fault only
    pushes an activation at the reset. So `Armed` is preserved
    (`InvStep`, one step per action; the lemmas `NewTop`, `ArmedTop`
    and `GotoArmed` treat a change of the innermost activation once).

- **`CursorSaneHolds == Spec => []CursorSane`** (`NextBtraceIdCursor`),
  for both builds.
  - `CursorSane` is not inductive. In the plain build, a handler that
    preempts between the increment and the wrap test sees the cursor at
    `SAVE_TRACES` and increments it further.
  - The inductive invariant `CursorRepaired` says a cursor past the ring is
    always being repaired: some live activation is at the wrap test with
    `r + 1` equal to the cursor, or at the wrap store with `w` equal to it.
  - That activation is the last one to have stored the cursor. The handlers
    above it store and reduce values of their own before it runs again. Its
    wrap test then reads the same value, whether it reloads the field or
    reuses its register, so it goes on to reduce it.
  - In the CAS build, `CasShape` already keeps the cursor in the ring.

- **`TypeCorrect == Spec => []TypeOK`** (`BTraceStoreProofs`), for all
  three builds, with and without an engine, every ring size and bound.
  - `TypeOK` is not inductive. It allows a thread store that is not marked
    shared, and the Unix crash handler frees the store it used unless it is
    shared, which would leave `ld` pointing at freed memory. The
    strengthening `StoreInv` adds `LdShared` (the thread's store is marked
    shared) and `NoStoreNoHist` (with an engine and no store there is no
    history), which the ring proofs below also use.
  - `GetFacts` states once what every outcome of `get_trace_store()`
    returns; `AfterFacts` what the allocation does to the heap and stores.
    One lemma per action (`SaveStep`, `PrintStep`, `NamedStep`,
    `ClearStep`, `CrashStep`, `FaultStep`) gives `StoreStep`.
  - `NamedScanForm` gives the loop of `bstore_print_backtrace_named()` in
    closed form: the value of `me` at iteration i normalises to
    `(current - 1 - i) % SAVE_TRACES`, the loop ends after `SAVE_TRACES`
    iterations, and it returns the first hit. `ScanMeForm` proves the
    closed form of the recursive function `ScanMe` through
    `FiniteNatInductiveDef`; the first hit exists by well-founded induction
    on `Nat` (`LeastExists`).
- **`RingHoldsRecentHolds`, `PrintLatestCorrectHolds`,
  `NamedFindsLatestHolds`, `CrashTraceRenderedHolds`**, each
  `Unix => (Spec => []P)` (`BTraceStoreRing`), for the libunwind and glibc
  builds, with and without an engine.
  - The hypothesis is needed. The Windows `get_trace_store(TRUE)` gives every
    capture after the first a private store, so the thread's store stops
    following its history (TLC finds `RingHoldsRecent` violated in two
    steps), and `store_windows_crash` shows `CrashTraceRendered` violated.
  - The inductive invariant `RingInv` is `StoreInv`, the three report
    properties, and `RingRecent`: the thread's store is `RingAt` its
    history, i.e. the d-th most recent capture is in slot
    `(Len(hist) - d) % SAVE_TRACES` and the cursor is
    `Len(hist) % SAVE_TRACES`. It was model-checked in the four Unix
    configurations of `MCBTraceStore` before it was proved.
  - A capture preserves `RingAt` (`RingSave`): it writes the slot at the
    cursor, and every other recent capture is in a different slot, because
    its number differs by less than the ring (`SlotApart`).
  - `LatestReport`: `LatestSlot` is `(Len(hist) - last) % SAVE_TRACES`.
    `NamedRing`: the scan's i-th slot holds the (i+1)-th most recent
    capture, so its first hit is the latest match. `CrashScan`: the crash
    scan hits at its first iteration, on the slot just written.
    `RingHolds` turns `RingAt` into the `Holder`/`Latest` form of
    `RingHoldsRecent`.

- **`FillDistinctHolds == ~Atomic => (Spec => []FillDistinct)`**
  (`NextBtraceIdFill`), for every ring size and nesting depth.
  - The plain build can lose a handler's reservation, and the wrap can
    store a stale value, so the cursor moves back. `FillDistinct` alone is
    not inductive, and neither is a statement about the cursor alone.
  - The inductive invariant `FillAfter` says: once activation `l` has
    stored its increment, everything `l` or a handler above it can still
    read or write lies `1 .. granted - ticket[l]` places after `l`'s slot,
    modulo the ring (`Ahead`). This covers `bt->current`, each loaded value,
    each incremented value and each compared value. Each slot a handler above
    `l` took lies `1 .. ticket[k] - ticket[l]` places after it (`Pair`).
  - The reason is that every such value was stored by an increment made
    after `l`'s. An increment moves a value one place further
    (`AheadSucc`). A reduction modulo the ring keeps it where it is
    (`AheadMod`). A new reservation moves every older one a step further
    from its slot (`AheadMono`).
  - `FillSafe`: two holding activations fewer than a ring of reservations
    apart are `1 .. SAVE_TRACES - 1` places apart, so their slots differ
    (`AheadApart`).
  - There is one lemma per action that moves a value (`FillIncLoad`,
    `FillIncStore`, `FillWrapTest`, `FillWrapStore`). `FillFrame` covers the
    steps that only enter or leave an activation. The CAS actions are
    disabled by `PlainShape`.

Only model-checked:

- BTraceStore's properties on the Windows build, where they fail or are not
  claimed, and CrashHandler's other properties;
- `Termination`. Liveness and `ENABLED` are outside the prover's reach.

## Not modelled

- **Stack walkers and `addr2line`.** They only call the OS, or spawn and
  parse a subprocess. Their output is abstracted to a frame buffer that is
  present or missing.
- **`CStackSize()`.** A cached query of OS limits.
- **The fallback stubs** (1024-1057) change no state: they return NULL or
  print a fixed message.
- **`PL_LOCK(L_CSTACK)`** in `win_save_backtrace`. It is the critical
  section that spec section 5 names as the one wait point. A recursive lock
  (`PL_LOCK` is defined outside this file) does not deadlock a fault raised
  on the thread that holds it.
- **`print_backtrace(last)` outside 1..SAVE_TRACES.** The contract comment
  excludes it, and the queries are modelled on that range. The hazard is
  recorded in `PROJECT.json`.
