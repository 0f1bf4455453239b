---------------------------- MODULE BTraceStore -----------------------------
(***************************************************************************)
(* The per-thread trace store and its query API (src/src/os/pl-cstack.c),  *)
(* in the three builds the file provides (constant Variant):               *)
(*   "unwind" : libunwind, lines 56-230, frames kept inside the store;     *)
(*   "glibc"  : execinfo backtrace(), lines 236-511, return addresses in a *)
(*              separately malloc()ed buffer per slot;                     *)
(*   "windows": dbghelp, lines 526-880, frames kept inside the store.      *)
(* Each operation is one step: they are called by the thread itself, one   *)
(* at a time (the preemption of next_btrace_id() by signal handlers is the *)
(* subject of NextBtraceId).  Every malloc() may fail.                     *)
(*                                                                         *)
(* The heap holds store objects named 1..MaxStores; LD->btrace_store is    *)
(* ld (Null when unset).  HasLD tells whether the thread has a Prolog      *)
(* engine (HAS_LD / LD != NULL).  A frame buffer is abstracted to whether  *)
(* bt->retaddr[i] is non-NULL; labels are model values.                    *)
(***************************************************************************)
EXTENDS Integers, Sequences, FiniteSets

CONSTANTS
  SAVE_TRACES,  \* ring capacity, the #define of line 54
  Labels,       \* the "why" strings callers pass
  CrashLabel,   \* "crash", the label of the crash handler's trace
  Variant,      \* which implementation is compiled in
  HasLD,        \* the calling thread has a Prolog engine
  MaxStores,    \* bound on the number of store objects ever allocated
  MaxSaves      \* bound on the number of captures

ASSUME StoreAssumption ==
  /\ SAVE_TRACES \in Nat \ {0}
  /\ CrashLabel \in Labels
  /\ Variant \in {"unwind", "glibc", "windows"}
  /\ HasLD \in BOOLEAN
  /\ MaxStores \in Nat /\ MaxSaves \in Nat

Slot == 0 .. SAVE_TRACES - 1
Ids == 1 .. MaxStores
Null == 0
NoLabel == "NULL"

\* A label is a string the caller passes, never the NULL of an unused slot.
ASSUME LabelAssumption == NoLabel \notin Labels

\* A store as memset(s, 0, sizeof(*s)) leaves it, with its shared flag.
EmptyStore(shared) ==
  [shared |-> shared, current |-> 0,
   why |-> [i \in Slot |-> NoLabel], addrs |-> [i \in Slot |-> FALSE]]

VARIABLES
  heap,    \* heap[n]: "unalloc", "live" or "freed"
  stores,  \* stores[n]: the content of store object n
  ld,      \* LD->btrace_store
  out,     \* what the last operation reported
  hist,    \* ghost: labels captured on this thread since its store was made
  alive,   \* the process has not yet been ended by the crash handler
  saves,   \* captures so far, bounded by MaxSaves
  crashAt  \* ghost: the store and slot the crash handler's capture used

vars == <<heap, stores, ld, out, hist, alive, saves, crashAt>>

\* What an operation printed: the operation and its argument (last or the
\* label asked for), the message kind, and the store, slot and label shown.
Report == [op : {"init", "save", "clear", "latest", "named", "crash"},
           last : 0 .. SAVE_TRACES, query : Labels \cup {NoLabel},
           kind : {"none", "trace", "empty", "nostore", "notfound", "fault"},
           store : {Null} \cup Ids, slot : {-1} \cup Slot,
           label : Labels \cup {NoLabel}]

NoReport == [op |-> "init", last |-> 0, query |-> NoLabel, kind |-> "none",
             store |-> Null, slot |-> -1, label |-> NoLabel]

\* The store object malloc() returns on heap hp; Null when it fails.
Fresh(hp, ok) ==
  IF ok /\ \E n \in Ids : hp[n] = "unalloc"
  THEN CHOOSE n \in Ids : hp[n] = "unalloc" /\ \A m \in Ids : hp[m] = "unalloc" => n <= m
  ELSE Null

(***************************************************************************)
(* get_trace_store(create) (lines 91-115, 271-296, 573-594): the store it  *)
(* returns, LD->btrace_store after it, and the object it allocated.  The   *)
(* Unix builds make the thread's store on first use whatever create says; *)
(* without an engine they make a private store only when create is TRUE.  *)
(* The Windows build tests LD->btrace_store without testing LD, and once   *)
(* the thread's store exists it returns a new private store to every       *)
(* caller that passes create = TRUE.                                       *)
(***************************************************************************)
GetTraceStore(l, hp, create, ok) ==
  LET n == Fresh(hp, ok) IN
  IF Variant = "windows"
  THEN IF l = Null
       THEN [ret |-> n, ld |-> n, new |-> n, shared |-> TRUE]
       ELSE IF create
            THEN [ret |-> n, ld |-> l, new |-> n, shared |-> FALSE]
            ELSE [ret |-> l, ld |-> l, new |-> Null, shared |-> FALSE]
  ELSE IF HasLD
       THEN IF l = Null
            THEN [ret |-> n, ld |-> n, new |-> n, shared |-> TRUE]
            ELSE [ret |-> l, ld |-> l, new |-> Null, shared |-> FALSE]
       ELSE IF create
            THEN [ret |-> n, ld |-> Null, new |-> n, shared |-> FALSE]
            ELSE [ret |-> Null, ld |-> Null, new |-> Null, shared |-> FALSE]

\* The Windows build reads LD->btrace_store with no engine: LD is NULL.
DerefsNullLD == Variant = "windows" /\ ~HasLD

\* The store contents and the heap once get_trace_store() has run.
StoresAfter(sts, g) ==
  IF g.new = Null THEN sts
  ELSE [sts EXCEPT ![g.new] = EmptyStore(g.shared)]

HeapAfter(hp, g) == IF g.new = Null THEN hp ELSE [hp EXCEPT ![g.new] = "live"]

\* Mutant: the wrap test of next_btrace_id() written with ">".
NextBtraceIdOffByOne(c) == IF c + 1 > SAVE_TRACES THEN 0 ELSE c + 1

\* next_btrace_id() run without interruption (lines 127-147 and copies):
\* the cursor's successor in the ring.
NextBtraceId(c) == IF c + 1 = SAVE_TRACES THEN 0 ELSE c + 1

\* Mutant: the trace is written to the slot after the one reserved.
SaveInNext(st, why, okBuf) ==
  [st EXCEPT !.current = NextBtraceId(st.current),
             !.why[NextBtraceId(st.current)] = why,
             !.addrs[NextBtraceId(st.current)] =
                IF Variant = "glibc" THEN okBuf ELSE TRUE]

(***************************************************************************)
(* The body of save_backtrace() once it has a store: reserve the slot,     *)
(* walk the stack into it and label it (lines 154-170, 331-342, 771-777).  *)
(* The glibc build frees the slot's old buffer and mallocs a new one; when *)
(* that fails bt->retaddr[current] is NULL while bt->sizes[current] holds  *)
(* the frame count.  The other builds keep the frames in the store.        *)
(***************************************************************************)
SaveIn(st, why, okBuf) ==
  [st EXCEPT !.current = NextBtraceId(st.current),
             !.why[st.current] = why,
             !.addrs[st.current] = IF Variant = "glibc" THEN okBuf ELSE TRUE]

\* The history of the thread's captures after one with label why into the
\* store g returned.
HistAfter(g, why) ==
  IF ~HasLD \/ g.ret = Null THEN hist
  ELSE IF g.ret = g.ld /\ g.new = g.ld THEN <<why>>
  ELSE Append(hist, why)

(***************************************************************************)
(* print_trace(bt, me) (lines 176-192, 417-457, 789-835): a labelled slot  *)
(* is printed frame by frame, an unlabelled one as "No stack trace".  The  *)
(* glibc build reads bt->retaddr[me][i] for i < bt->sizes[me], a NULL      *)
(* dereference when the buffer could not be allocated.                     *)
(***************************************************************************)
PrintTrace(op, n, st, me) ==
  [op |-> op, last |-> 0, query |-> NoLabel,
   store |-> n, slot |-> me, label |-> st.why[me],
   kind |-> IF st.why[me] = NoLabel THEN "empty"
            ELSE IF Variant = "glibc" /\ ~st.addrs[me] THEN "fault"
            ELSE "trace"]

\* Mutant: "int me = bt->current-last+1", one slot too recent.
LatestSlotOffByOne(cur, last) ==
  IF cur - last + 1 < 0 THEN cur - last + 1 + SAVE_TRACES ELSE cur - last + 1

\* int me = bt->current-last; if ( me < 0 ) me += SAVE_TRACES;
\* (lines 200-202, 464-466, 844-846)
LatestSlot(cur, last) ==
  IF cur - last < 0 THEN cur - last + SAVE_TRACES ELSE cur - last

\* Normalisation at the head of the named scan's loop.
Wrap(me) == IF me < 0 THEN me + SAVE_TRACES ELSE me

\* The values of me at the head of the named scan's iterations, from
\* start on: each iteration normalises me and then decrements it.
ScanMe(start) ==
  LET Me[i \in 0 .. SAVE_TRACES] ==
        IF i = 0 THEN start ELSE Wrap(Me[i - 1]) - 1
  IN Me

\* Mutant: the named scan starts at bt->current, the oldest slot.
NamedScanFromCurrent(st, why) ==
  LET Me == ScanMe(st.current)
      Stop == CHOOSE i \in 0 .. SAVE_TRACES - 1 : Me[i + 1] = st.current - 1
      Hits == {i \in 0 .. Stop : st.why[Wrap(Me[i])] = why}
  IN IF Hits = {} THEN -1 ELSE Wrap(Me[CHOOSE i \in Hits : \A j \in Hits : i <= j])

(***************************************************************************)
(* The loop of bstore_print_backtrace_named() (lines 211-227, 475-493,     *)
(* 855-871): me starts at bt->current-1, is normalised into the ring at    *)
(* the head of each iteration, and the loop ends at the first slot whose   *)
(* label equals why, or when --me comes back to bt->current-1.  Me[i] is   *)
(* the value of me at the head of iteration i; the result is the slot      *)
(* found, or -1.                                                           *)
(***************************************************************************)
NamedScan(st, why) ==
  LET Me == ScanMe(st.current - 1)
      Stop == CHOOSE i \in 0 .. SAVE_TRACES - 1 : Me[i + 1] = st.current - 1
      Hits == {i \in 0 .. Stop : st.why[Wrap(Me[i])] = why}
  IN IF Hits = {} THEN -1 ELSE Wrap(Me[CHOOSE i \in Hits : \A j \in Hits : i <= j])

\* What bstore_print_backtrace_named(bt, why) reports; only the glibc
\* build prints "No backtrace named ...".
NamedReport(op, n, st, why) ==
  IF n = Null THEN [NoReport EXCEPT !.op = op, !.query = why]
  ELSE LET me == NamedScan(st, why) IN
       IF me = -1
       THEN [NoReport EXCEPT !.op = op, !.query = why, !.store = n,
                             !.kind = IF Variant = "glibc" THEN "notfound" ELSE "none"]
       ELSE [PrintTrace(op, n, st, me) EXCEPT !.query = why]

-----------------------------------------------------------------------------

Init ==
  /\ heap = [n \in Ids |-> "unalloc"]
  /\ stores = [n \in Ids |-> EmptyStore(FALSE)]
  /\ ld = Null
  /\ out = NoReport
  /\ hist = <<>>
  /\ alive = TRUE
  /\ saves = 0
  /\ crashAt = [store |-> Null, slot |-> -1]

(* save_backtrace(why) (lines 150-173, 326-345, 767-786). *)
SaveBacktrace(why) ==
  /\ alive
  /\ saves < MaxSaves
  /\ \E ok, okBuf \in BOOLEAN :
       LET g == GetTraceStore(ld, heap, TRUE, ok)
           st == StoresAfter(stores, g)
       IN /\ heap' = HeapAfter(heap, g)
          /\ ld' = g.ld
          /\ stores' = IF g.ret = Null THEN st
                       ELSE [st EXCEPT ![g.ret] = SaveIn(st[g.ret], why, okBuf)]
          /\ hist' = HistAfter(g, why)
  /\ saves' = saves + 1
  /\ out' = [NoReport EXCEPT !.op = "save"]
  /\ UNCHANGED <<alive, crashAt>>

(* print_backtrace(last) for 1 <= last <= SAVE_TRACES (lines 195-208,     *)
(* 459-472, 839-852).                                                      *)
PrintBacktrace(last) ==
  /\ alive
  /\ \E ok \in BOOLEAN :
       LET g == GetTraceStore(ld, heap, FALSE, ok)
           st == StoresAfter(stores, g)
       IN /\ heap' = HeapAfter(heap, g)
          /\ ld' = g.ld
          /\ stores' = st
          /\ out' = IF g.ret = Null
                    THEN [NoReport EXCEPT !.op = "latest", !.last = last,
                                          !.kind = "nostore"]
                    ELSE [PrintTrace("latest", g.ret, st[g.ret],
                                     LatestSlot(st[g.ret].current, last))
                          EXCEPT !.last = last]
          /\ hist' = IF g.new # Null THEN <<>> ELSE hist
  /\ UNCHANGED <<alive, saves, crashAt>>

(* print_backtrace_named(why) (lines 899-902), also reached through the   *)
(* c_backtrace_print/1 predicate (lines 998-1008).                        *)
PrintBacktraceNamed(why) ==
  /\ alive
  /\ \E ok \in BOOLEAN :
       LET g == GetTraceStore(ld, heap, FALSE, ok)
           st == StoresAfter(stores, g)
       IN /\ heap' = HeapAfter(heap, g)
          /\ ld' = g.ld
          /\ stores' = st
          /\ out' = NamedReport("named", g.ret, st[g.ret], why)
          /\ hist' = IF g.new # Null THEN <<>> ELSE hist
  /\ UNCHANGED <<alive, saves, crashAt>>

(* c_backtrace_clear/0 (lines 986-995): free the thread's store and forget *)
(* it, so that the next capture makes a new one.                           *)
Clear ==
  /\ alive
  /\ HasLD
  /\ ld # Null
  /\ heap' = [heap EXCEPT ![ld] = "freed"]
  /\ ld' = Null
  /\ hist' = <<>>
  /\ out' = [NoReport EXCEPT !.op = "clear"]
  /\ UNCHANGED <<stores, alive, saves, crashAt>>

(***************************************************************************)
(* The capture and report of the crash handler, after which the process   *)
(* is ended.  Unix: print_c_backtrace("crash") (lines 905-912, called at   *)
(* line 946): save, print by label from the store just used, and destroy  *)
(* that store when it is private.  Windows: crashHandler() (lines         *)
(* 873-879): win_save_backtrace("crash", ...), then                        *)
(* print_backtrace_named("crash") on get_trace_store(FALSE), then abort(). *)
(***************************************************************************)
CrashReport ==
  /\ alive
  /\ \E ok, okBuf, ok2 \in BOOLEAN :
       LET g == GetTraceStore(ld, heap, TRUE, ok)
           st == StoresAfter(stores, g)
           hp == HeapAfter(heap, g)
           saved == IF g.ret = Null THEN st
                    ELSE [st EXCEPT ![g.ret] = SaveIn(st[g.ret], CrashLabel, okBuf)]
           \* Windows: print_backtrace_named() looks the store up again.
           g2 == GetTraceStore(g.ld, hp, FALSE, ok2)
           st2 == StoresAfter(saved, g2)
       IN /\ hist' = HistAfter(g, CrashLabel)
          /\ crashAt' = [store |-> g.ret,
                         slot |-> IF g.ret = Null THEN -1 ELSE st[g.ret].current]
          /\ IF Variant = "windows"
             THEN /\ heap' = HeapAfter(hp, g2)
                  /\ ld' = g2.ld
                  /\ stores' = st2
                  /\ out' = NamedReport("crash", g2.ret, st2[g2.ret], CrashLabel)
             ELSE /\ heap' = IF g.ret # Null /\ ~saved[g.ret].shared
                             THEN [hp EXCEPT ![g.ret] = "freed"] ELSE hp
                  /\ ld' = g.ld
                  /\ stores' = saved
                  /\ out' = NamedReport("crash", g.ret, saved[g.ret], CrashLabel)
  /\ alive' = FALSE
  /\ UNCHANGED saves

(* Without an engine, the Windows get_trace_store() dereferences LD (line  *)
(* 577) on its first call, from save_backtrace(), print_backtrace() or the *)
(* crash handler alike: the process faults.                                *)
NullLDFault ==
  /\ out' = [NoReport EXCEPT !.kind = "fault"]
  /\ alive' = FALSE
  /\ UNCHANGED <<heap, stores, ld, hist, saves, crashAt>>

\* Operation A as the build runs it: it begins with get_trace_store().
Op(A) == IF DerefsNullLD THEN alive /\ NullLDFault ELSE A

Next ==
  \/ \E why \in Labels : Op(SaveBacktrace(why)) \/ Op(PrintBacktraceNamed(why))
  \/ \E last \in 1 .. SAVE_TRACES : Op(PrintBacktrace(last))
  \/ Clear
  \/ Op(CrashReport)

Spec == Init /\ [][Next]_vars

-----------------------------------------------------------------------------

Store == [shared : BOOLEAN, current : Slot,
          why : [Slot -> Labels \cup {NoLabel}], addrs : [Slot -> BOOLEAN]]

(* Every variable has its type; LD->btrace_store is Null or a live store. *)
TypeOK ==
  /\ heap \in [Ids -> {"unalloc", "live", "freed"}]
  /\ stores \in [Ids -> Store]
  /\ ld \in {Null} \cup Ids
  /\ ld # Null => heap[ld] = "live"
  /\ out \in Report
  /\ hist \in Seq(Labels)
  /\ alive \in BOOLEAN
  /\ saves \in 0 .. MaxSaves
  /\ crashAt \in [store : {Null} \cup Ids, slot : {-1} \cup Slot]

\* The captures of hist that the ring can still hold in slot s: among the
\* SAVE_TRACES most recent, the one numbered s modulo the ring.
Holder(s) ==
  {j \in 1 .. Len(hist) : j > Len(hist) - SAVE_TRACES /\ (j - 1) % SAVE_TRACES = s}

Latest(J) == CHOOSE j \in J : \A k \in J : k <= j

(* The thread's store holds exactly its SAVE_TRACES most recent captures,  *)
(* the n-th capture since the store was made in slot (n-1) mod the ring,   *)
(* and its cursor is the number of captures mod the ring: the ring         *)
(* property of save_backtrace() and next_btrace_id() (spec 8, items 2 and  *)
(* 6: after c_backtrace_clear the next capture is the only trace).         *)
RingHoldsRecent ==
  HasLD /\ ld # Null =>
    /\ stores[ld].current = Len(hist) % SAVE_TRACES
    /\ \A s \in Slot :
         stores[ld].why[s] = IF Holder(s) = {} THEN NoLabel
                             ELSE hist[Latest(Holder(s))]

(* print_backtrace(last) shows the last-th most recent capture of the      *)
(* thread, or "No stack trace" when there have been fewer than last (spec  *)
(* 8, item 1).                                                             *)
PrintLatestCorrect ==
  out.op = "latest" /\ HasLD =>
    IF out.last <= Len(hist)
    THEN out.kind \in {"trace", "fault"} /\ out.label = hist[Len(hist) - out.last + 1]
    ELSE out.kind \in {"empty", "nostore"}

(* print_backtrace_named(why) shows the most recent of the thread's        *)
(* captures still in the ring whose label is why, and reports none when    *)
(* there is no such capture (spec 8, items 3 and 4).                       *)
NamedFindsLatest ==
  out.op = "named" /\ HasLD =>
    LET J == {j \in 1 .. Len(hist) :
                j > Len(hist) - SAVE_TRACES /\ hist[j] = out.query}
    IN IF J = {} THEN out.kind \in {"notfound", "none"}
       ELSE /\ out.slot = (Latest(J) - 1) % SAVE_TRACES
            /\ out.label = out.query

(* The crash handler renders the very trace it has just captured: the     *)
(* report shows the store and slot the "crash" capture was written to     *)
(* (spec 4.3 step 4, and the fault-path scenario of spec 8).              *)
CrashTraceRendered ==
  out.op = "crash" /\ crashAt.store # Null =>
    /\ out.store = crashAt.store
    /\ out.slot = crashAt.slot
    /\ out.kind \in {"trace", "fault"}

(* Rendering a trace never faults: reading a slot yields a complete, an    *)
(* empty or a torn trace, never a crash (spec 3, Trace Store invariant).   *)
NoFault == out.kind # "fault"

=============================================================================
