---------------------------- MODULE NextBtraceId ----------------------------
(***************************************************************************)
(* Slot reservation in the C-stack trace store (src/src/os/pl-cstack.c,    *)
(* next_btrace_id(), lines 127-147; identical copies at 303-323 and        *)
(* 600-620).  The store is thread-local, so the only concurrency is        *)
(* preemption of a thread by its own signal handlers: level 0 is the       *)
(* thread's ordinary code, level l > 0 the l-th nested handler.  Only the  *)
(* innermost live level runs; a handler runs to completion before the      *)
(* level it interrupted takes another step.                                *)
(*                                                                         *)
(* next_btrace_id() is compiled in one of two ways (constant Atomic):      *)
(*   Atomic = TRUE : the COMPARE_AND_SWAP retry loop of lines 133-138;     *)
(*   Atomic = FALSE: the plain "bt->current++ % SAVE_TRACES" and           *)
(*                   "bt->current %= SAVE_TRACES" of lines 140-143.        *)
(* Every read and every write of bt->current is a step of its own, since a *)
(* signal may arrive between any two of them.                              *)
(*                                                                         *)
(* The caller is save_backtrace() (lines 326-345): it reserves a slot,     *)
(* fills it while holding the index, and returns.                          *)
(***************************************************************************)
EXTENDS Integers, FiniteSets

CONSTANTS
  SAVE_TRACES,  \* ring capacity, the #define of line 54
  Levels,       \* live activations at most: the thread plus nested handlers
  MaxCalls,     \* bound on the number of calls of next_btrace_id()
  Atomic        \* TRUE iff COMPARE_AND_SWAP is defined

ASSUME KAssumption == SAVE_TRACES \in Nat \ {0}
ASSUME LevelsAssumption == Levels \in Nat \ {0}
ASSUME MaxCallsAssumption == MaxCalls \in Nat
ASSUME AtomicAssumption == Atomic \in BOOLEAN

Lvl == 0 .. Levels - 1
Slot == 0 .. SAVE_TRACES - 1

VARIABLES
  current,   \* bt->current, the next slot to fill
  active,    \* number of live activations; active - 1 is the running one
  pc,        \* pc[l]: where activation l is in save_backtrace()
  r,         \* r[l]: the value of bt->current activation l has loaded
  w,         \* w[l]: the value the wrap test of line 142 compares
  idx,       \* idx[l]: the slot next_btrace_id() returned to l
  granted,   \* ghost: reservations that have taken effect so far
  ticket,    \* ghost: ticket[l] is the value of granted when l reserved
  inner,     \* ghost: reservations completed by handlers nested in l
  calls      \* number of calls started, bounded by MaxCalls

vars == <<current, active, pc, r, w, idx, granted, ticket, inner, calls>>

PCs == {"idle", "load", "cas", "store", "wload", "wstore", "hold"}
Reservation == [idx : Slot, ticket : Nat]

\* The activation that runs: the innermost live one.
Top(l) == l = active - 1

Live == 0 .. active - 1

\* Mutant: the wrap test of line 136 written with ">" instead of "==".
CasNextOffByOne(c) == IF c + 1 > SAVE_TRACES THEN 0 ELSE c + 1

\* next = current+1; if ( next == SAVE_TRACES ) next = 0;   (lines 135-137)
CasNext(c) == IF c + 1 = SAVE_TRACES THEN 0 ELSE c + 1

Init ==
  /\ current = 0
  /\ active = 1
  /\ pc = [l \in Lvl |-> "idle"]
  /\ r = [l \in Lvl |-> 0]
  /\ w = [l \in Lvl |-> 0]
  /\ idx = [l \in Lvl |-> 0]
  /\ granted = 0
  /\ ticket = [l \in Lvl |-> 0]
  /\ inner = [l \in Lvl |-> {}]
  /\ calls = 0

(* save_backtrace() calls next_btrace_id() (line 333). *)
Call(l) ==
  /\ Top(l)
  /\ pc[l] = "idle"
  /\ calls < MaxCalls
  /\ pc' = [pc EXCEPT ![l] = "load"]
  /\ inner' = [inner EXCEPT ![l] = {}]
  /\ calls' = calls + 1
  /\ UNCHANGED <<current, active, r, w, idx, granted, ticket>>

(* current = bt->current;   (line 134) *)
CasLoad(l) ==
  /\ Atomic
  /\ Top(l)
  /\ pc[l] = "load"
  /\ r' = [r EXCEPT ![l] = current]
  /\ pc' = [pc EXCEPT ![l] = "cas"]
  /\ UNCHANGED <<current, active, w, idx, granted, ticket, inner, calls>>

\* Mutant: the swap of line 138 done as a plain store, without comparing.
CasSucceedNoCompare(l) ==
  /\ Top(l)
  /\ pc[l] = "cas"
  /\ current' = CasNext(r[l])
  /\ idx' = [idx EXCEPT ![l] = r[l]]
  /\ ticket' = [ticket EXCEPT ![l] = granted]
  /\ granted' = granted + 1
  /\ pc' = [pc EXCEPT ![l] = "hold"]
  /\ UNCHANGED <<active, r, w, inner, calls>>

\* Mutant: the function returns next instead of current (line 146).
CasSucceedReturnsNext(l) ==
  /\ Top(l)
  /\ pc[l] = "cas"
  /\ current = r[l]
  /\ current' = CasNext(r[l])
  /\ idx' = [idx EXCEPT ![l] = CasNext(r[l])]
  /\ ticket' = [ticket EXCEPT ![l] = granted]
  /\ granted' = granted + 1
  /\ pc' = [pc EXCEPT ![l] = "hold"]
  /\ UNCHANGED <<active, r, w, inner, calls>>

(* COMPARE_AND_SWAP(&bt->current, current, next) succeeds: the function   *)
(* returns current (lines 138, 146).                                       *)
CasSucceed(l) ==
  /\ Top(l)
  /\ pc[l] = "cas"
  /\ current = r[l]
  /\ current' = CasNext(r[l])
  /\ idx' = [idx EXCEPT ![l] = r[l]]
  /\ ticket' = [ticket EXCEPT ![l] = granted]
  /\ granted' = granted + 1
  /\ pc' = [pc EXCEPT ![l] = "hold"]
  /\ UNCHANGED <<active, r, w, inner, calls>>

(* The swap fails because a handler moved bt->current: loop (line 138). *)
CasFail(l) ==
  /\ Top(l)
  /\ pc[l] = "cas"
  /\ current # r[l]
  /\ pc' = [pc EXCEPT ![l] = "load"]
  /\ UNCHANGED <<current, active, r, w, idx, granted, ticket, inner, calls>>

(* The load of bt->current in "bt->current++"   (line 140). *)
IncLoad(l) ==
  /\ ~Atomic
  /\ Top(l)
  /\ pc[l] = "load"
  /\ r' = [r EXCEPT ![l] = current]
  /\ pc' = [pc EXCEPT ![l] = "store"]
  /\ UNCHANGED <<current, active, w, idx, granted, ticket, inner, calls>>

\* Mutant: line 140 returning the loaded value without "% SAVE_TRACES".
IncStoreNoMod(l) ==
  /\ Top(l)
  /\ pc[l] = "store"
  /\ current' = r[l] + 1
  /\ idx' = [idx EXCEPT ![l] = r[l]]
  /\ ticket' = [ticket EXCEPT ![l] = granted]
  /\ granted' = granted + 1
  /\ pc' = [pc EXCEPT ![l] = "wload"]
  /\ UNCHANGED <<active, r, w, inner, calls>>

\* Mutant: the slot taken from bt->current as it is at the store, not as loaded.
IncStoreReread(l) ==
  /\ Top(l)
  /\ pc[l] = "store"
  /\ current' = r[l] + 1
  /\ idx' = [idx EXCEPT ![l] = current % SAVE_TRACES]
  /\ ticket' = [ticket EXCEPT ![l] = granted]
  /\ granted' = granted + 1
  /\ pc' = [pc EXCEPT ![l] = "wload"]
  /\ UNCHANGED <<active, r, w, inner, calls>>

(* The store of "bt->current++"; current = loaded % SAVE_TRACES (line 140) *)
IncStore(l) ==
  /\ Top(l)
  /\ pc[l] = "store"
  /\ current' = r[l] + 1
  /\ idx' = [idx EXCEPT ![l] = r[l] % SAVE_TRACES]
  /\ ticket' = [ticket EXCEPT ![l] = granted]
  /\ granted' = granted + 1
  /\ pc' = [pc EXCEPT ![l] = "wload"]
  /\ UNCHANGED <<active, r, w, inner, calls>>

\* Mutant: the test of line 142 written "bt->current > SAVE_TRACES".
WrapTestOffByOne(l) ==
  /\ Top(l)
  /\ pc[l] = "wload"
  /\ \E v \in {current, r[l] + 1} :
       IF v > SAVE_TRACES
       THEN /\ w' = [w EXCEPT ![l] = v]
            /\ pc' = [pc EXCEPT ![l] = "wstore"]
       ELSE /\ w' = w
            /\ pc' = [pc EXCEPT ![l] = "hold"]
  /\ UNCHANGED <<current, active, r, idx, granted, ticket, inner, calls>>

(* "if ( bt->current >= SAVE_TRACES )" (line 142).  bt->current is not    *)
(* volatile, so the compiler may reload it or reuse the incremented value *)
(* it still holds in a register: both are outcomes of the build.          *)
WrapTest(l) ==
  /\ Top(l)
  /\ pc[l] = "wload"
  /\ \E v \in {current, r[l] + 1} :
       IF v >= SAVE_TRACES
       THEN /\ w' = [w EXCEPT ![l] = v]
            /\ pc' = [pc EXCEPT ![l] = "wstore"]
       ELSE /\ w' = w
            /\ pc' = [pc EXCEPT ![l] = "hold"]
  /\ UNCHANGED <<current, active, r, idx, granted, ticket, inner, calls>>

(* "bt->current %= SAVE_TRACES" stores the reduced value (line 143). *)
WrapStore(l) ==
  /\ Top(l)
  /\ pc[l] = "wstore"
  /\ current' = w[l] % SAVE_TRACES
  /\ pc' = [pc EXCEPT ![l] = "hold"]
  /\ UNCHANGED <<active, r, w, idx, granted, ticket, inner, calls>>

(* The thread's own save_backtrace() has filled its slot and returns      *)
(* (lines 335-344).                                                        *)
Finish(l) ==
  /\ l = 0
  /\ Top(l)
  /\ pc[l] = "hold"
  /\ pc' = [pc EXCEPT ![l] = "idle"]
  /\ UNCHANGED <<current, active, r, w, idx, granted, ticket, inner, calls>>

(* A signal arrives and a handler preempts the running activation. *)
Interrupt ==
  /\ active < Levels
  /\ active' = active + 1
  /\ pc' = [pc EXCEPT ![active] = "idle"]
  /\ inner' = [inner EXCEPT ![active] = {}]
  /\ UNCHANGED <<current, r, w, idx, granted, ticket, calls>>

(* The innermost handler returns, after its save_backtrace() or without   *)
(* calling it; what it reserved is recorded for the levels it interrupted. *)
Return(l) ==
  /\ l > 0
  /\ Top(l)
  /\ pc[l] \in {"idle", "hold"}
  /\ LET mine == IF pc[l] = "hold"
                 THEN {[idx |-> idx[l], ticket |-> ticket[l]]}
                 ELSE {}
     IN inner' = [m \in Lvl |-> IF m < l THEN inner[m] \cup inner[l] \cup mine
                                ELSE inner[m]]
  /\ active' = active - 1
  /\ pc' = [pc EXCEPT ![l] = "idle"]
  /\ UNCHANGED <<current, r, w, idx, granted, ticket, calls>>

Next ==
  \/ Interrupt
  \/ \E l \in Lvl :
       \/ Call(l) \/ CasLoad(l) \/ CasSucceed(l) \/ CasFail(l)
       \/ IncLoad(l) \/ IncStore(l) \/ WrapTest(l) \/ WrapStore(l)
       \/ Finish(l) \/ Return(l)

Spec == Init /\ [][Next]_vars

-----------------------------------------------------------------------------

(* Every variable has its type; bt->current and the values loaded from it *)
(* may exceed the ring transiently in the plain build, so they are naturals.*)
TypeOK ==
  /\ current \in Nat
  /\ active \in 1 .. Levels
  /\ pc \in [Lvl -> PCs]
  /\ r \in [Lvl -> Nat]
  /\ w \in [Lvl -> Nat]
  /\ idx \in [Lvl -> Slot]
  /\ granted \in Nat
  /\ ticket \in [Lvl -> Nat]
  /\ inner \in [Lvl -> SUBSET Reservation]
  /\ calls \in 0 .. MaxCalls

(* Two calls of next_btrace_id() that overlap in time (one runs in a      *)
(* handler that interrupted the other) get distinct slots, unless K        *)
(* reservations lie between them and the ring has legitimately wrapped:    *)
(* the guarantee the CAS loop of lines 133-138 exists for (spec 4.2).      *)
OverlapDistinct ==
  \A l \in Live :
    pc[l] = "hold" =>
      \A e \in inner[l] :
        (e.ticket - ticket[l] < SAVE_TRACES /\ ticket[l] - e.ticket < SAVE_TRACES)
          => e.idx # idx[l]

(* Two activations that fill slots at the same time (one is a handler     *)
(* that interrupted the other while it filled its slot) fill distinct      *)
(* slots unless the ring has wrapped between their reservations: even the  *)
(* plain build, which may hand one slot to two calls, keeps "consistency   *)
(* of the datastructures" (comment of lines 118-124).  In the glibc build  *)
(* a shared slot would have its frame buffer freed twice (lines 338-341).  *)
FillDistinct ==
  \A l, m \in Live :
    (l < m /\ pc[l] = "hold" /\ pc[m] = "hold" /\ ticket[m] - ticket[l] < SAVE_TRACES)
      => idx[l] # idx[m]

(* When no activation is inside the increment and wrap of lines 140-143,  *)
(* bt->current indexes the ring: the plain fallback may lose a reservation *)
(* but never leaves the cursor itself corrupted (comment of lines 118-125).*)
Quiescent == \A l \in Live : pc[l] \notin {"store", "wload", "wstore"}

CursorSane == Quiescent => current \in Slot

(* The reservation seen through the abstraction: the cursor, and the slot *)
(* each live activation holds while it fills it.                          *)
AbsHeld == [l \in Lvl |-> IF l < active /\ pc[l] = "hold" THEN idx[l] ELSE -1]

SC == INSTANCE SlotCounter WITH cursor <- current, held <- AbsHeld

(* With COMPARE_AND_SWAP, next_btrace_id() implements an atomic           *)
(* fetch-and-increment modulo SAVE_TRACES: every successful swap of line  *)
(* 138 is one SlotCounter reservation, every other step a stutter.        *)
SlotCounterSpec == SC!Spec

=============================================================================
