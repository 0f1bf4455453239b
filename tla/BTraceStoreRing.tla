--------------------------- MODULE BTraceStoreRing --------------------------
(***************************************************************************)
(* Proofs of the ring and report properties of BTraceStore in the Unix     *)
(* builds (libunwind and glibc), for every ring size, label set and bound. *)
(* There save_backtrace() always writes to the thread's own store once it  *)
(* exists; the Windows build gives later captures private stores, and the  *)
(* store_windows_crash run shows the report property failing there.        *)
(***************************************************************************)
EXTENDS BTraceStoreProofs

USE KPos

\* The builds whose get_trace_store() returns LD->btrace_store once set.
Unix == Variant # "windows"

\* Store s holds the SAVE_TRACES most recent labels of h: the d-th most
\* recent in slot (Len(h) - d) mod the ring, NULL where h is shorter, and
\* its cursor is Len(h) mod the ring.
RingAt(s, h) ==
  /\ s.current = Len(h) % SAVE_TRACES
  /\ \A d \in 1 .. SAVE_TRACES :
       s.why[(Len(h) - d) % SAVE_TRACES] =
         IF d <= Len(h) THEN h[Len(h) - d + 1] ELSE NoLabel

\* The thread's store is that ring of its captures.
RingRecent == HasLD /\ ld # Null => RingAt(stores[ld], hist)

(* The inductive invariant behind the ring and report properties: the     *)
(* store invariant, the ring form of the thread's store, and the three     *)
(* report properties, each of which holds of the report the last          *)
(* operation left and the state it left.                                   *)
RingInv ==
  /\ StoreInv
  /\ RingRecent
  /\ PrintLatestCorrect
  /\ NamedFindsLatest
  /\ CrashTraceRendered

-----------------------------------------------------------------------------
(* The cursor arithmetic of next_btrace_id() and print_backtrace(). *)

(* next_btrace_id() is the successor modulo the ring. *)
LEMMA NextMod ==
  ASSUME NEW c \in Slot
  PROVE  NextBtraceId(c) = (c + 1) % SAVE_TRACES
  <1>1. CASE c + 1 = SAVE_TRACES
    <2>1. (SAVE_TRACES * 1 + 0) % SAVE_TRACES = 0
      BY ModUnique DEF Slot
    <2> QED
      BY <1>1, <2>1 DEF NextBtraceId
  <1>2. CASE c + 1 # SAVE_TRACES
    <2>1. c + 1 \in Slot
      BY <1>2 DEF Slot
    <2> QED
      BY <1>2, <2>1, ModOfSlot DEF NextBtraceId
  <1> QED
    BY <1>1, <1>2

(* The cursor of a ring of n captures advances to that of n + 1. *)
LEMMA CursorSucc ==
  ASSUME NEW n \in Int
  PROVE  NextBtraceId(n % SAVE_TRACES) = (n + 1) % SAVE_TRACES
  <1>1. n % SAVE_TRACES \in Slot
    BY ModRange
  <1>0. -1 \in Int
    OBVIOUS
  <1>2. ((n % SAVE_TRACES) - (-1)) % SAVE_TRACES = (n - (-1)) % SAVE_TRACES
    BY <1>0, ModSub
  <1>3. (n % SAVE_TRACES) + 1 = (n % SAVE_TRACES) - (-1) /\ n + 1 = n - (-1)
    BY <1>1 DEF Slot
  <1> QED
    BY <1>1, <1>2, <1>3, NextMod

(* "me = bt->current-last; if ( me < 0 ) me += SAVE_TRACES" is the slot    *)
(* last captures back.                                                     *)
LEMMA LatestMod ==
  ASSUME NEW n \in Int, NEW last \in 1 .. SAVE_TRACES
  PROVE  LatestSlot(n % SAVE_TRACES, last) = (n - last) % SAVE_TRACES
  <1> DEFINE c == n % SAVE_TRACES
  <1>1. c \in Slot
    BY ModRange
  <1>2. LatestSlot(c, last) \in Slot
    BY <1>1, LatestSlotType
  <1>3. LatestSlot(c, last) = (c - last) + SAVE_TRACES * (IF c - last < 0 THEN 1 ELSE 0)
    BY <1>1 DEF LatestSlot, Slot
  <1>4. (LatestSlot(c, last)) % SAVE_TRACES = (c - last) % SAVE_TRACES
    <2>1. ((c - last) + SAVE_TRACES * (IF c - last < 0 THEN 1 ELSE 0)) % SAVE_TRACES
            = (c - last) % SAVE_TRACES
      <3>1. (c - last) \in Int /\ (IF c - last < 0 THEN 1 ELSE 0) \in Int
        BY <1>1 DEF Slot
      <3> QED
        BY <3>1, ModShift
    <2> QED
      BY <1>3, <2>1
  <1>5. (c - last) % SAVE_TRACES = (n - last) % SAVE_TRACES
    <2>1. last \in Int
      OBVIOUS
    <2> QED
      BY <2>1, ModSub
  <1> QED
    BY <1>2, <1>4, <1>5, ModOfSlot

(* Within one turn of the ring, slots of distinct captures differ. *)
LEMMA SlotApart ==
  ASSUME NEW n \in Int, NEW e \in 1 .. SAVE_TRACES - 1
  PROVE  (n - e) % SAVE_TRACES # n % SAVE_TRACES
  <1> SUFFICES ASSUME (n - e) % SAVE_TRACES = n % SAVE_TRACES PROVE FALSE
    OBVIOUS
  <1>0. n - e \in Int /\ (n - e) - n < SAVE_TRACES /\ n - (n - e) < SAVE_TRACES
    OBVIOUS
  <1>1. n - e = n
    BY <1>0, ModWindow
  <1> QED
    BY <1>1

-----------------------------------------------------------------------------
(* The ring form under the store operations. *)

(* A store as get_trace_store() makes it is the ring of no capture. *)
LEMMA RingEmpty ==
  ASSUME NEW b \in BOOLEAN
  PROVE  RingAt(EmptyStore(b), <<>>)
  <1>1. \A d \in 1 .. SAVE_TRACES : (0 - d) % SAVE_TRACES \in Slot
    BY ModRange
  <1>2. 0 % SAVE_TRACES = 0
    BY ModOfSlot DEF Slot
  <1> QED
    BY <1>1, <1>2 DEF RingAt, EmptyStore

(* save_backtrace() on a ring of h writes why in the slot at the cursor,  *)
(* and leaves the ring of h followed by why.                               *)
LEMMA RingSave ==
  ASSUME NEW s \in Store, NEW h \in Seq(Labels), RingAt(s, h),
         NEW why \in Labels, NEW b \in BOOLEAN
  PROVE  RingAt(SaveIn(s, why, b), Append(h, why))
  <1> DEFINE H == Len(h)
             c == s.current
             s2 == SaveIn(s, why, b)
             h2 == Append(h, why)
  <1>0. H \in Nat /\ c = H % SAVE_TRACES /\ c \in Slot
    BY DEF RingAt, Store
  <1>1. Len(h2) = H + 1 /\ h2[H + 1] = why
        /\ \A j \in 1 .. H : h2[j] = h[j]
    OBVIOUS
  <1>2. s2.current = (H + 1) % SAVE_TRACES
    <2>1. s2.current = NextBtraceId(c)
      BY DEF SaveIn, Store
    <2> QED
      BY <1>0, <2>1, CursorSucc
  <1>3. \A x \in Slot : s2.why[x] = IF x = c THEN why ELSE s.why[x]
    BY <1>0 DEF SaveIn, Store
  <1>4. ASSUME NEW d \in 1 .. SAVE_TRACES
        PROVE  s2.why[(H + 1 - d) % SAVE_TRACES] =
                 IF d <= H + 1 THEN h2[H + 1 - d + 1] ELSE NoLabel
    <2>1. CASE d = 1
      <3>1. (H + 1 - d) % SAVE_TRACES = c
        BY <1>0, <2>1
      <3> QED
        BY <1>0, <1>1, <1>3, <2>1, <3>1
    <2>2. CASE d # 1
      <3> DEFINE e == d - 1
      <3>1. e \in 1 .. SAVE_TRACES - 1 /\ H + 1 - d = H - e
        BY <2>2
      <3>2. (H - e) % SAVE_TRACES # c /\ (H - e) % SAVE_TRACES \in Slot
        <4>1. H \in Int /\ H - e \in Int
          BY <1>0, <3>1
        <4>2. (H - e) % SAVE_TRACES # H % SAVE_TRACES
          BY <4>1, <3>1, SlotApart
        <4> QED
          BY <1>0, <4>1, <4>2, ModRange
      <3>3. s2.why[(H - e) % SAVE_TRACES] = s.why[(H - e) % SAVE_TRACES]
        BY <1>3, <3>2
      <3>4. s.why[(H - e) % SAVE_TRACES] =
              IF e <= H THEN h[H - e + 1] ELSE NoLabel
        <4>1. e \in 1 .. SAVE_TRACES
          BY <3>1
        <4>2. \A dd \in 1 .. SAVE_TRACES :
                s.why[(H - dd) % SAVE_TRACES] =
                  IF dd <= H THEN h[H - dd + 1] ELSE NoLabel
          BY DEF RingAt
        <4> QED
          BY <4>1, <4>2
      <3>5. e <= H => h2[H - e + 1] = h[H - e + 1]
        BY <1>0, <1>1, <3>1
      <3> QED
        BY <3>1, <3>3, <3>4, <3>5
    <2> QED
      BY <2>1, <2>2
  <1> QED
    BY <1>1, <1>2, <1>4 DEF RingAt

-----------------------------------------------------------------------------
(* What the reports show of a ring. *)

(* print_backtrace(last) on the ring of h shows the last-th most recent   *)
(* capture, or the empty slot of a ring holding fewer.                     *)
LEMMA LatestReport ==
  ASSUME NEW s \in Store, NEW h \in Seq(Labels), RingAt(s, h),
         NEW n \in Ids, NEW last \in 1 .. SAVE_TRACES
  PROVE  LET r == [PrintTrace("latest", n, s, LatestSlot(s.current, last))
                   EXCEPT !.last = last]
         IN  /\ r.op = "latest" /\ r.last = last
             /\ IF last <= Len(h)
                THEN r.kind \in {"trace", "fault"} /\ r.label = h[Len(h) - last + 1]
                ELSE r.kind \in {"empty", "nostore"}
  <1> DEFINE H == Len(h)
             me == LatestSlot(s.current, last)
  <1>1. H \in Nat /\ s.current = H % SAVE_TRACES
    BY DEF RingAt
  <1>2. me = (H - last) % SAVE_TRACES /\ me \in Slot
    <2>1. H \in Int /\ H - last \in Int
      BY <1>1
    <2>2. LatestSlot(H % SAVE_TRACES, last) = (H - last) % SAVE_TRACES
      BY <2>1, LatestMod
    <2>3. (H - last) % SAVE_TRACES \in Slot
      BY <2>1, ModRange
    <2> QED
      BY <1>1, <2>2, <2>3
  <1>3. s.why[me] = IF last <= H THEN h[H - last + 1] ELSE NoLabel
    <2>1. \A dd \in 1 .. SAVE_TRACES :
            s.why[(H - dd) % SAVE_TRACES] =
              IF dd <= H THEN h[H - dd + 1] ELSE NoLabel
      BY DEF RingAt
    <2> QED
      BY <1>2, <2>1
  <1>4. last <= H => s.why[me] \in Labels /\ s.why[me] # NoLabel
    BY <1>1, <1>3, LabelAssumption
  <1> QED
    BY <1>3, <1>4 DEF PrintTrace

(* The crash handler's scan of the store it has just written finds that  *)
(* capture first: the slot at the cursor before the capture.              *)
LEMMA CrashScan ==
  ASSUME NEW s \in Store, NEW why \in Labels, NEW b \in BOOLEAN
  PROVE  /\ NamedScan(SaveIn(s, why, b), why) = s.current
         /\ SaveIn(s, why, b).why[s.current] = why
  <1> DEFINE c == s.current
             s2 == SaveIn(s, why, b)
  <1>1. c \in Slot /\ s2.current = (c + 1) % SAVE_TRACES
    <2>1. c \in Slot
      BY DEF Store
    <2>2. s2.current = NextBtraceId(c)
      BY DEF SaveIn, Store
    <2> QED
      BY <2>1, <2>2, NextMod
  <1>2. s2.why[c] = why
    BY <1>1 DEF SaveIn, Store
  <1>3. (s2.current - 1 - 0) % SAVE_TRACES = c
    <2>1. c + 1 \in Int /\ 1 \in Int
      BY <1>1 DEF Slot
    <2>2. (((c + 1) % SAVE_TRACES) - 1) % SAVE_TRACES = (c + 1 - 1) % SAVE_TRACES
      <3> DEFINE x == c + 1
      <3>1. ((x % SAVE_TRACES) - 1) % SAVE_TRACES = (x - 1) % SAVE_TRACES
        BY <2>1, ModSub
      <3> QED
        BY <3>1, <1>1 DEF Slot
    <2> QED
      BY <1>1, <2>2, ModOfSlot DEF Slot
  <1>4. s2.current \in Slot
    BY <1>1 DEF Slot, ModRange
  <1>5. 0 \in ScanHits(s2, why)
    BY <1>2, <1>3 DEF ScanHits
  <1>6. FirstHit(ScanHits(s2, why)) = 0
    <2>1. \A j \in ScanHits(s2, why) : 0 <= j
      BY DEF ScanHits
    <2>2. \A j \in ScanHits(s2, why) : j \in Nat
      BY DEF ScanHits
    <2>3. FirstHit(ScanHits(s2, why)) \in ScanHits(s2, why)
          /\ FirstHit(ScanHits(s2, why)) <= 0
      BY <1>5, <2>1 DEF FirstHit
    <2> QED
      BY <2>2, <2>3
  <1> QED
    BY <1>2, <1>3, <1>4, <1>5, <1>6, NamedScanForm

\* The captures of h still in a ring of SAVE_TRACES whose label is why.
RecentWith(h, why) ==
  {j \in 1 .. Len(h) : j > Len(h) - SAVE_TRACES /\ h[j] = why}

(* The named scan of the ring of h, newest slot first, stops at the most  *)
(* recent capture with label why still in the ring, and finds none when   *)
(* there is no such capture.                                               *)
LEMMA NamedRing ==
  ASSUME NEW s \in Store, NEW h \in Seq(Labels), RingAt(s, h), NEW why \in Labels
  PROVE  IF RecentWith(h, why) = {} THEN NamedScan(s, why) = -1
         ELSE /\ NamedScan(s, why) = (Latest(RecentWith(h, why)) - 1) % SAVE_TRACES
              /\ s.why[NamedScan(s, why)] = why
              /\ NamedScan(s, why) \in Slot
  <1> DEFINE H == Len(h)
             c == s.current
             SH == ScanHits(s, why)
             J == RecentWith(h, why)
  <1>1. H \in Nat /\ c = H % SAVE_TRACES /\ c \in Slot
    BY DEF RingAt, Store
  <1>2. ASSUME NEW i \in 0 .. SAVE_TRACES - 1
        PROVE  (c - 1 - i) % SAVE_TRACES = (H - (i + 1)) % SAVE_TRACES
    <2>1. H \in Int /\ i + 1 \in Int /\ c - 1 - i = c - (i + 1)
      BY <1>1 DEF Slot
    <2>2. ((H % SAVE_TRACES) - (i + 1)) % SAVE_TRACES = (H - (i + 1)) % SAVE_TRACES
      BY <2>1, ModSub
    <2> QED
      BY <1>1, <2>1, <2>2
  <1>3. ASSUME NEW i \in 0 .. SAVE_TRACES - 1
        PROVE  i \in SH <=> i + 1 <= H /\ h[H - i] = why
    <2>1. \A dd \in 1 .. SAVE_TRACES :
            s.why[(H - dd) % SAVE_TRACES] =
              IF dd <= H THEN h[H - dd + 1] ELSE NoLabel
      BY DEF RingAt
    <2>2. s.why[(c - 1 - i) % SAVE_TRACES] =
            IF i + 1 <= H THEN h[H - i] ELSE NoLabel
      BY <1>2, <2>1
    <2> QED
      BY <2>2, LabelAssumption DEF ScanHits
  <1>4. \A j \in J : H - j \in SH
    BY <1>1, <1>3 DEF RecentWith
  <1>5. \A i \in SH : H - i \in J
    <2> SUFFICES ASSUME NEW i \in SH PROVE H - i \in J
      OBVIOUS
    <2>1. i \in 0 .. SAVE_TRACES - 1
      BY DEF ScanHits
    <2>2. i + 1 <= H /\ h[H - i] = why
      BY <2>1, <1>3
    <2> QED
      BY <1>1, <2>1, <2>2 DEF RecentWith
  <1>6. CASE J = {}
    <2>1. SH = {}
      BY <1>5, <1>6
    <2> QED
      BY <1>1, <1>6, <2>1, NamedScanForm
  <1>7. CASE J # {}
    <2>1. SH # {} /\ SH \in SUBSET Nat
      BY <1>4, <1>7 DEF ScanHits
    <2>2. FirstHit(SH) \in SH /\ \A k \in SH : FirstHit(SH) <= k
      BY <2>1, LeastExists DEF FirstHit
    <2> DEFINE i0 == FirstHit(SH)
               j0 == H - i0
    <2>3. j0 \in J /\ \A k \in J : k <= j0
      BY <1>1, <1>4, <1>5, <2>1, <2>2 DEF RecentWith
    <2>4. Latest(J) = j0
      <3>1. Latest(J) \in J /\ \A k \in J : k <= Latest(J)
        BY <2>3 DEF Latest
      <3> QED
        BY <2>3, <3>1 DEF RecentWith
    <2>5. NamedScan(s, why) = (c - 1 - i0) % SAVE_TRACES
      BY <1>1, <1>7, <2>1, NamedScanForm
    <2>6. (c - 1 - i0) % SAVE_TRACES = (j0 - 1) % SAVE_TRACES
      <3>0. i0 \in 0 .. SAVE_TRACES - 1
        BY <2>2 DEF ScanHits
      <3>1. i0 \in 0 .. SAVE_TRACES - 1 /\ H - (i0 + 1) = j0 - 1
        BY <1>1, <3>0
      <3>2. (c - 1 - i0) % SAVE_TRACES = (H - (i0 + 1)) % SAVE_TRACES
        BY <3>1, <1>2
      <3> QED
        BY <3>1, <3>2
    <2>7. s.why[(c - 1 - i0) % SAVE_TRACES] = why
      BY <2>2 DEF ScanHits
    <2>8. (c - 1 - i0) % SAVE_TRACES \in Slot
      <3>1. c - 1 - i0 \in Int
        BY <1>1, <2>1, <2>2 DEF Slot
      <3> QED
        BY <3>1, ModRange
    <2> QED
      BY <1>7, <2>4, <2>5, <2>6, <2>7, <2>8
  <1> QED
    BY <1>6, <1>7

-----------------------------------------------------------------------------
(* get_trace_store() in the Unix builds with an engine. *)

(* A capture (save_backtrace() or the crash handler's) into the thread's  *)
(* store leaves the ring of the history it records.                        *)
LEMMA CaptureRing ==
  ASSUME StoreInv, RingRecent, Unix, HasLD, NEW why \in Labels,
         NEW ok \in BOOLEAN, NEW okBuf \in BOOLEAN
  PROVE  LET g == GetTraceStore(ld, heap, TRUE, ok)
             st == StoresAfter(stores, g)
             saved == IF g.ret = Null THEN st
                      ELSE [st EXCEPT ![g.ret] = SaveIn(st[g.ret], why, okBuf)]
         IN  g.ld # Null => RingAt(saved[g.ld], HistAfter(g, why))
  <1> DEFINE g == GetTraceStore(ld, heap, TRUE, ok)
             st == StoresAfter(stores, g)
             saved == IF g.ret = Null THEN st
                      ELSE [st EXCEPT ![g.ret] = SaveIn(st[g.ret], why, okBuf)]
  <1> SUFFICES ASSUME g.ld # Null PROVE RingAt(saved[g.ld], HistAfter(g, why))
    OBVIOUS
  <1>0. /\ TypeOK /\ LdShared
        /\ ld \in Ref /\ heap \in [Ids -> HeapStates] /\ stores \in [Ids -> Store]
        /\ (ld # Null => heap[ld] = "live" /\ stores[ld].shared)
    BY DEF StoreInv, TypeOK, LdShared, Ref, HeapStates
  <1>1. GetOK(ld, heap, g)
    BY <1>0, GetFacts
  <1>2. /\ st \in [Ids -> Store]
        /\ g.new # Null => st[g.new] = EmptyStore(g.shared)
        /\ ld # Null => st[ld] = stores[ld]
    <2> HIDE DEF g
    <2> QED
      BY <1>0, <1>1, AfterFacts
  <1>3. g.ld \in Ids
    BY <1>1 DEF GetOK, Ref
  <1>4. CASE ld = Null
    <2>1. g.ret = g.ld /\ g.new = g.ld /\ g.shared
      BY <1>4 DEF GetTraceStore, Unix
    <2>2. saved[g.ld] = SaveIn(EmptyStore(TRUE), why, okBuf)
      BY <1>2, <1>3, <2>1
    <2>3. HistAfter(g, why) = Append(<<>>, why)
      <3>1. HistAfter(g, why) = <<why>>
        BY <1>3, <2>1 DEF HistAfter, Null, Ids
      <3>2. <<why>> = Append(<<>>, why)
        OBVIOUS
      <3> QED
        BY <3>1, <3>2
    <2>4. RingAt(SaveIn(EmptyStore(TRUE), why, okBuf), Append(<<>>, why))
      BY RingEmpty, EmptyType, EmptySeq, RingSave
    <2> QED
      BY <2>2, <2>3, <2>4
  <1>5. CASE ld # Null
    <2>1. g.ret = ld /\ g.ld = ld /\ g.new = Null
      BY <1>5 DEF GetTraceStore, Unix
    <2>2. saved[g.ld] = SaveIn(stores[ld], why, okBuf)
      BY <1>2, <1>3, <2>1
    <2>3. HistAfter(g, why) = Append(hist, why)
      BY <1>3, <2>1 DEF HistAfter, Null
    <2>4. RingAt(stores[ld], hist) /\ stores[ld] \in Store /\ hist \in Seq(Labels)
      BY <1>0, <1>3, <2>1 DEF RingRecent, TypeOK
    <2> QED
      BY <2>2, <2>3, <2>4, RingSave
  <1> QED
    BY <1>4, <1>5

(* A lookup (print_backtrace() and print_backtrace_named()) returns the   *)
(* thread's store, which is the ring of the history after the call, or   *)
(* none when the history is empty.                                         *)
LEMMA LookupRing ==
  ASSUME StoreInv, RingRecent, Unix, HasLD, NEW ok \in BOOLEAN
  PROVE  LET g == GetTraceStore(ld, heap, FALSE, ok)
             st == StoresAfter(stores, g)
             h2 == IF g.new # Null THEN <<>> ELSE hist
         IN  /\ g.ld = g.ret
             /\ g.ret # Null => g.ret \in Ids /\ st[g.ret] \in Store
                                /\ RingAt(st[g.ret], h2)
             /\ g.ret = Null => h2 = <<>>
  <1> DEFINE g == GetTraceStore(ld, heap, FALSE, ok)
             st == StoresAfter(stores, g)
             h2 == IF g.new # Null THEN <<>> ELSE hist
  <1>0. /\ TypeOK /\ NoStoreNoHist
        /\ ld \in Ref /\ heap \in [Ids -> HeapStates] /\ stores \in [Ids -> Store]
        /\ (ld # Null => heap[ld] = "live" /\ stores[ld].shared)
    BY DEF StoreInv, TypeOK, LdShared, Ref, HeapStates
  <1>1. GetOK(ld, heap, g)
    BY <1>0, GetFacts
  <1>2. /\ st \in [Ids -> Store]
        /\ g.new # Null => st[g.new] = EmptyStore(g.shared)
        /\ ld # Null => st[ld] = stores[ld]
    <2> HIDE DEF g
    <2> QED
      BY <1>0, <1>1, AfterFacts
  <1>3. g.ret \in Ref
    BY <1>1 DEF GetOK
  <1>4. CASE ld = Null
    <2>1. g.ret = g.ld /\ g.new = g.ret /\ g.shared
      BY <1>4 DEF GetTraceStore, Unix
    <2>2. g.ret # Null => st[g.ret] = EmptyStore(TRUE) /\ h2 = <<>>
      BY <1>2, <2>1
    <2>3. g.ret = Null => h2 = <<>>
      BY <1>0, <1>4, <2>1 DEF NoStoreNoHist
    <2> QED
      BY <1>3, <2>1, <2>2, <2>3, RingEmpty, EmptyType DEF Ref
  <1>5. CASE ld # Null
    <2>1. g.ret = ld /\ g.ld = ld /\ g.new = Null
      BY <1>5 DEF GetTraceStore, Unix
    <2>2. st[ld] = stores[ld] /\ h2 = hist /\ ld \in Ids
      BY <1>0, <1>2, <1>5, <2>1 DEF Ref
    <2> QED
      BY <1>0, <1>5, <2>1, <2>2 DEF RingRecent
  <1> QED
    BY <1>4, <1>5

-----------------------------------------------------------------------------
(* From the ring form to the property the runs check. *)

(* Slot x of a ring of n captures is the one of the d-th most recent, for *)
(* a d in 1 .. SAVE_TRACES.                                                *)
LEMMA SlotAge ==
  ASSUME NEW n \in Int, NEW x \in Slot
  PROVE  \E d \in 1 .. SAVE_TRACES : (n - d) % SAVE_TRACES = x
  <1> DEFINE r == (n - x - 1) % SAVE_TRACES
             q == (n - x - 1) \div SAVE_TRACES
             d == r + 1
  <1>1. n - x - 1 \in Int
    BY DEF Slot
  <1>2. r \in Slot /\ q \in Int /\ n - x - 1 = SAVE_TRACES * q + r
    BY <1>1, ModDef, ModRange
  <1>3. d \in 1 .. SAVE_TRACES /\ n - d = x + SAVE_TRACES * q
    BY <1>2 DEF Slot
  <1>4. (x + SAVE_TRACES * q) % SAVE_TRACES = x % SAVE_TRACES
    <2>1. x \in Int
      BY DEF Slot
    <2> QED
      BY <1>2, <2>1, ModShift
  <1> QED
    BY <1>3, <1>4, ModOfSlot

(* The ring form of the thread's store is what RingHoldsRecent says. *)
LEMMA RingHolds ==
  ASSUME TypeOK, RingRecent
  PROVE  RingHoldsRecent
  <1> SUFFICES ASSUME HasLD, ld # Null
               PROVE  /\ stores[ld].current = Len(hist) % SAVE_TRACES
                      /\ \A x \in Slot :
                           stores[ld].why[x] = IF Holder(x) = {} THEN NoLabel
                                               ELSE hist[Latest(Holder(x))]
    BY DEF RingHoldsRecent
  <1> DEFINE H == Len(hist)
             s == stores[ld]
  <1>1. RingAt(s, hist) /\ H \in Nat
    BY DEF RingRecent, TypeOK
  <1>2. s.current = H % SAVE_TRACES
    BY <1>1 DEF RingAt
  <1>3. ASSUME NEW x \in Slot
        PROVE  s.why[x] = IF Holder(x) = {} THEN NoLabel ELSE hist[Latest(Holder(x))]
    <2>1. PICK d \in 1 .. SAVE_TRACES : (H - d) % SAVE_TRACES = x
      <3>1. H \in Int
        BY <1>1
      <3> QED
        BY <3>1, SlotAge
    <2>2. s.why[x] = IF d <= H THEN hist[H - d + 1] ELSE NoLabel
      <3>1. \A dd \in 1 .. SAVE_TRACES :
              s.why[(H - dd) % SAVE_TRACES] =
                IF dd <= H THEN hist[H - dd + 1] ELSE NoLabel
        BY <1>1 DEF RingAt
      <3> QED
        BY <2>1, <3>1
    <2>3. \A j \in Holder(x) : j - 1 = H - d
      <3> SUFFICES ASSUME NEW j \in Holder(x) PROVE j - 1 = H - d
        OBVIOUS
      <3>1. j \in 1 .. H /\ j > H - SAVE_TRACES /\ (j - 1) % SAVE_TRACES = x
        BY DEF Holder
      <3>2. /\ j - 1 \in Int /\ H - d \in Int
            /\ (j - 1) - (H - d) < SAVE_TRACES /\ (H - d) - (j - 1) < SAVE_TRACES
        BY <1>1, <3>1
      <3> QED
        BY <2>1, <3>1, <3>2, ModWindow
    <2>4. CASE d <= H
      <3> DEFINE j0 == H - d + 1
      <3>1. j0 \in Holder(x)
        BY <1>1, <2>1, <2>4 DEF Holder
      <3>2. Holder(x) = {j0}
        <4>1. \A j \in Holder(x) : j \in Int
          BY DEF Holder
        <4>2. \A j \in Holder(x) : j = j0
          BY <1>1, <2>3, <4>1
        <4> QED
          BY <3>1, <4>2
      <3>3. Latest(Holder(x)) = j0
        BY <3>2 DEF Latest
      <3> QED
        BY <2>2, <2>4, <3>2, <3>3
    <2>5. CASE ~(d <= H)
      <3>1. Holder(x) = {}
        BY <1>1, <2>3, <2>5 DEF Holder
      <3> QED
        BY <2>2, <2>5, <3>1
    <2> QED
      BY <2>4, <2>5
  <1> QED
    BY <1>2, <1>3

-----------------------------------------------------------------------------
(* Each operation of a Unix build keeps RingInv. *)

(* save_backtrace(why) writes the thread's store and reports nothing. *)
LEMMA SaveRing ==
  ASSUME RingInv, Unix, NEW why \in Labels, SaveBacktrace(why)
  PROVE  RingInv'
  <1>0. StoreInv'
    BY SaveStep DEF RingInv
  <1>1. PICK ok \in BOOLEAN, okBuf \in BOOLEAN :
          LET g == GetTraceStore(ld, heap, TRUE, ok)
              st == StoresAfter(stores, g)
          IN /\ ld' = g.ld
             /\ stores' = IF g.ret = Null THEN st
                          ELSE [st EXCEPT ![g.ret] = SaveIn(st[g.ret], why, okBuf)]
             /\ hist' = HistAfter(g, why)
    BY DEF SaveBacktrace
  <1> DEFINE g == GetTraceStore(ld, heap, TRUE, ok)
             st == StoresAfter(stores, g)
             saved == IF g.ret = Null THEN st
                      ELSE [st EXCEPT ![g.ret] = SaveIn(st[g.ret], why, okBuf)]
  <1>2. out'.op = "save"
    BY DEF SaveBacktrace, NoReport
  <1>3. RingRecent'
    <2>1. ld' = g.ld /\ stores' = saved /\ hist' = HistAfter(g, why)
      BY <1>1
    <2>2. HasLD => (g.ld # Null => RingAt(saved[g.ld], HistAfter(g, why)))
      BY CaptureRing DEF RingInv
    <2> QED
      BY <2>1, <2>2 DEF RingRecent
  <1>4. (PrintLatestCorrect /\ NamedFindsLatest /\ CrashTraceRendered)'
    BY <1>2 DEF PrintLatestCorrect, NamedFindsLatest, CrashTraceRendered
  <1> QED
    BY <1>0, <1>3, <1>4 DEF RingInv

(* print_backtrace(last) reports the last-th most recent capture. *)
LEMMA PrintRing ==
  ASSUME RingInv, Unix, NEW last \in 1 .. SAVE_TRACES, PrintBacktrace(last)
  PROVE  RingInv'
  <1>0. StoreInv'
    BY PrintStep DEF RingInv
  <1>1. PICK ok \in BOOLEAN :
          LET g == GetTraceStore(ld, heap, FALSE, ok)
              st == StoresAfter(stores, g)
          IN /\ ld' = g.ld
             /\ stores' = st
             /\ out' = IF g.ret = Null
                       THEN [NoReport EXCEPT !.op = "latest", !.last = last,
                                             !.kind = "nostore"]
                       ELSE [PrintTrace("latest", g.ret, st[g.ret],
                                        LatestSlot(st[g.ret].current, last))
                             EXCEPT !.last = last]
             /\ hist' = IF g.new # Null THEN <<>> ELSE hist
    BY DEF PrintBacktrace
  <1> DEFINE g == GetTraceStore(ld, heap, FALSE, ok)
             st == StoresAfter(stores, g)
             h2 == IF g.new # Null THEN <<>> ELSE hist
  <1>2. out'.op = "latest"
    BY <1>1 DEF NoReport, PrintTrace
  <1>3. (NamedFindsLatest /\ CrashTraceRendered)'
    BY <1>2 DEF NamedFindsLatest, CrashTraceRendered
  <1>4. CASE ~HasLD
    BY <1>0, <1>3, <1>4 DEF RingInv, RingRecent, PrintLatestCorrect
  <1>5. CASE HasLD
    <2>1. /\ g.ld = g.ret
          /\ g.ret # Null => g.ret \in Ids /\ st[g.ret] \in Store
                             /\ RingAt(st[g.ret], h2)
          /\ g.ret = Null => h2 = <<>>
      BY <1>5, LookupRing DEF RingInv
    <2>2. ld' = g.ld /\ stores' = st /\ hist' = h2
      BY <1>1
    <2>3. RingRecent'
      BY <2>1, <2>2 DEF RingRecent
    <2>4. PrintLatestCorrect'
      <3>1. CASE g.ret = Null
        <4>1. out' = [NoReport EXCEPT !.op = "latest", !.last = last,
                                      !.kind = "nostore"]
          BY <1>1, <3>1
        <4>2. Len(hist') = 0
          BY <2>1, <2>2, <3>1
        <4> QED
          BY <4>1, <4>2 DEF PrintLatestCorrect, NoReport
      <3>4. CASE g.ret # Null
        <4>1. out' = [PrintTrace("latest", g.ret, st[g.ret],
                                 LatestSlot(st[g.ret].current, last))
                      EXCEPT !.last = last]
          BY <1>1, <3>4
        <4>2. h2 \in Seq(Labels)
          BY EmptySeq DEF RingInv, StoreInv, TypeOK
        <4> HIDE DEF g, st, h2
        <4>3. /\ out'.op = "latest" /\ out'.last = last
              /\ IF last <= Len(h2)
                 THEN out'.kind \in {"trace", "fault"} /\ out'.label = h2[Len(h2) - last + 1]
                 ELSE out'.kind \in {"empty", "nostore"}
          BY <2>1, <3>4, <4>1, <4>2, LatestReport
        <4> QED
          BY <2>2, <4>3 DEF PrintLatestCorrect
      <3> QED
        BY <3>1, <3>4
    <2> QED
      BY <1>0, <1>3, <2>3, <2>4 DEF RingInv
  <1> QED
    BY <1>4, <1>5

(* print_backtrace_named(why) reports the most recent capture named why. *)
LEMMA NamedRingStep ==
  ASSUME RingInv, Unix, NEW why \in Labels, PrintBacktraceNamed(why)
  PROVE  RingInv'
  <1>0. StoreInv'
    BY NamedStep DEF RingInv
  <1>1. PICK ok \in BOOLEAN :
          LET g == GetTraceStore(ld, heap, FALSE, ok)
              st == StoresAfter(stores, g)
          IN /\ ld' = g.ld
             /\ stores' = st
             /\ out' = NamedReport("named", g.ret, st[g.ret], why)
             /\ hist' = IF g.new # Null THEN <<>> ELSE hist
    BY DEF PrintBacktraceNamed
  <1> DEFINE g == GetTraceStore(ld, heap, FALSE, ok)
             st == StoresAfter(stores, g)
             h2 == IF g.new # Null THEN <<>> ELSE hist
             me == NamedScan(st[g.ret], why)
  <1>2. out' = NamedReport("named", g.ret, st[g.ret], why)
    BY <1>1
  <1>3. out'.op = "named" /\ out'.query = why
    BY <1>2 DEF NamedReport, NoReport, PrintTrace
  <1>4. (PrintLatestCorrect /\ CrashTraceRendered)'
    BY <1>3 DEF PrintLatestCorrect, CrashTraceRendered
  <1>5. CASE ~HasLD
    BY <1>0, <1>4, <1>5 DEF RingInv, RingRecent, NamedFindsLatest
  <1>6. CASE HasLD
    <2>1. /\ g.ld = g.ret
          /\ g.ret # Null => g.ret \in Ids /\ st[g.ret] \in Store
                             /\ RingAt(st[g.ret], h2)
          /\ g.ret = Null => h2 = <<>>
      BY <1>6, LookupRing DEF RingInv
    <2>2. ld' = g.ld /\ stores' = st /\ hist' = h2
      BY <1>1
    <2>3. RingRecent'
      BY <2>1, <2>2 DEF RingRecent
    <2>4. NamedFindsLatest'
      <3> SUFFICES IF RecentWith(h2, why) = {}
                   THEN out'.kind \in {"notfound", "none"}
                   ELSE /\ out'.slot = (Latest(RecentWith(h2, why)) - 1) % SAVE_TRACES
                        /\ out'.label = why
        BY <1>3, <2>2 DEF NamedFindsLatest, RecentWith
      <3>1. CASE g.ret = Null
        <4>1. out'.kind = "none" /\ RecentWith(h2, why) = {}
          <5>1. out'.kind = "none"
            BY <1>2, <3>1 DEF NamedReport, NoReport
          <5>2. h2 = <<>>
            BY <2>1, <3>1
          <5>3. RecentWith(<<>>, why) = {}
            BY DEF RecentWith
          <5> QED
            BY <5>1, <5>2, <5>3
        <4> QED
          BY <4>1
      <3>2. CASE g.ret # Null
        <4>1. out' = IF me = -1
                     THEN [NoReport EXCEPT !.op = "named", !.query = why, !.store = g.ret,
                                           !.kind = IF Variant = "glibc" THEN "notfound"
                                                    ELSE "none"]
                     ELSE [PrintTrace("named", g.ret, st[g.ret], me) EXCEPT !.query = why]
          BY <1>2, <3>2 DEF NamedReport
        <4>2. h2 \in Seq(Labels)
          BY EmptySeq DEF RingInv, StoreInv, TypeOK
        <4> HIDE DEF g, st, h2
        <4>3. IF RecentWith(h2, why) = {} THEN me = -1
              ELSE /\ me = (Latest(RecentWith(h2, why)) - 1) % SAVE_TRACES
                   /\ st[g.ret].why[me] = why
                   /\ me \in Slot
          BY <2>1, <3>2, <4>2, NamedRing
        <4>4. CASE RecentWith(h2, why) = {}
          BY <4>1, <4>3, <4>4 DEF NoReport
        <4>5. CASE RecentWith(h2, why) # {}
          <5>1. me # -1
            BY <4>3, <4>5 DEF Slot
          <5> QED
            BY <4>1, <4>3, <4>5, <5>1 DEF PrintTrace
        <4> QED
          BY <4>4, <4>5
      <3> QED
        BY <3>1, <3>2
    <2> QED
      BY <1>0, <1>4, <2>3, <2>4 DEF RingInv
  <1> QED
    BY <1>5, <1>6

(* c_backtrace_clear/0 forgets the thread's store. *)
LEMMA ClearRing ==
  ASSUME RingInv, Clear
  PROVE  RingInv'
  <1>0. StoreInv'
    BY ClearStep DEF RingInv
  <1>1. ld' = Null /\ out'.op = "clear"
    BY DEF Clear, NoReport
  <1> QED
    BY <1>0, <1>1
    DEF RingInv, RingRecent, PrintLatestCorrect, NamedFindsLatest, CrashTraceRendered

(* The crash handler of a Unix build captures into the store it gets and  *)
(* renders that capture.                                                   *)
LEMMA CrashRing ==
  ASSUME RingInv, Unix, CrashReport
  PROVE  RingInv'
  <1>0. StoreInv'
    BY CrashStep DEF RingInv
  <1>1. PICK ok \in BOOLEAN, okBuf \in BOOLEAN, ok2 \in BOOLEAN :
       LET g == GetTraceStore(ld, heap, TRUE, ok)
           st == StoresAfter(stores, g)
           hp == HeapAfter(heap, g)
           saved == IF g.ret = Null THEN st
                    ELSE [st EXCEPT ![g.ret] = SaveIn(st[g.ret], CrashLabel, okBuf)]
           g2 == GetTraceStore(g.ld, hp, FALSE, ok2)
           st2 == StoresAfter(saved, g2)
       IN /\ hist' = HistAfter(g, CrashLabel)
          /\ crashAt' = [store |-> g.ret,
                         slot |-> IF g.ret = Null THEN -1 ELSE st[g.ret].current]
          /\ IF Variant = "windows"
             THEN /\ heap' = HeapAfter(hp, g2)
                  /\ ld' = g2.ld
                  /\ stores' = st2
                  /\ out' = NamedReport("crash", g2.ret, st2[g2.ret], CrashLabel)
             ELSE /\ heap' = IF g.ret # Null /\ ~saved[g.ret].shared
                             THEN [hp EXCEPT ![g.ret] = "freed"] ELSE hp
                  /\ ld' = g.ld
                  /\ stores' = saved
                  /\ out' = NamedReport("crash", g.ret, saved[g.ret], CrashLabel)
    BY DEF CrashReport
  <1> DEFINE g == GetTraceStore(ld, heap, TRUE, ok)
             st == StoresAfter(stores, g)
             saved == IF g.ret = Null THEN st
                      ELSE [st EXCEPT ![g.ret] = SaveIn(st[g.ret], CrashLabel, okBuf)]
  <1>2. /\ hist' = HistAfter(g, CrashLabel)
        /\ crashAt' = [store |-> g.ret,
                       slot |-> IF g.ret = Null THEN -1 ELSE st[g.ret].current]
        /\ ld' = g.ld /\ stores' = saved
        /\ out' = NamedReport("crash", g.ret, saved[g.ret], CrashLabel)
    BY <1>1 DEF Unix
  <1>3. out'.op = "crash"
    BY <1>2 DEF NamedReport, NoReport, PrintTrace
  <1>4. (PrintLatestCorrect /\ NamedFindsLatest)'
    BY <1>3 DEF PrintLatestCorrect, NamedFindsLatest
  <1>5. RingRecent'
    <2>1. HasLD => (g.ld # Null => RingAt(saved[g.ld], HistAfter(g, CrashLabel)))
      BY CaptureRing, StoreAssumption DEF RingInv
    <2> QED
      BY <1>2, <2>1 DEF RingRecent
  <1>6. CrashTraceRendered'
    <2> SUFFICES ASSUME g.ret # Null
                 PROVE  /\ out'.store = g.ret
                        /\ out'.slot = st[g.ret].current
                        /\ out'.kind \in {"trace", "fault"}
      BY <1>2 DEF CrashTraceRendered
    <2>1. g.ret \in Ids /\ st \in [Ids -> Store]
      <3>1. /\ ld \in Ref /\ heap \in [Ids -> HeapStates] /\ stores \in [Ids -> Store]
            /\ (ld # Null => heap[ld] = "live" /\ stores[ld].shared)
        BY DEF RingInv, StoreInv, TypeOK, LdShared, Ref, HeapStates
      <3>2. GetOK(ld, heap, g)
        BY <3>1, GetFacts
      <3>3. st \in [Ids -> Store]
        <4> HIDE DEF g
        <4> QED
          BY <3>1, <3>2, AfterFacts
      <3> QED
        BY <3>2, <3>3 DEF GetOK, Ref
    <2> DEFINE c == st[g.ret].current
               s2 == SaveIn(st[g.ret], CrashLabel, okBuf)
    <2>2. saved[g.ret] = s2
      BY <2>1
    <2> HIDE DEF g, st, saved
    <2>3. NamedScan(s2, CrashLabel) = c /\ s2.why[c] = CrashLabel /\ c \in Slot
      <3>1. \A ss \in Store :
              /\ NamedScan(SaveIn(ss, CrashLabel, okBuf), CrashLabel) = ss.current
              /\ SaveIn(ss, CrashLabel, okBuf).why[ss.current] = CrashLabel
              /\ ss.current \in Slot
        BY CrashScan, StoreAssumption DEF Store
      <3>2. st[g.ret] \in Store
        BY <2>1
      <3> QED
        BY <3>1, <3>2
    <2>4. out' = [PrintTrace("crash", g.ret, s2, c) EXCEPT !.query = CrashLabel]
      BY <1>2, <2>2, <2>3 DEF NamedReport, Slot
    <2>5. CrashLabel # NoLabel
      BY StoreAssumption, LabelAssumption
    <2> QED
      BY <2>3, <2>4, <2>5 DEF PrintTrace
  <1> QED
    BY <1>0, <1>4, <1>5, <1>6 DEF RingInv

-----------------------------------------------------------------------------
(* The theorems. *)

(* The initial state: no store, no capture, no report. *)
LEMMA RingInit ==
  Init => RingInv
  <1> SUFFICES ASSUME Init PROVE RingInv
    OBVIOUS
  <1>1. StoreInv
    BY StoreInit
  <1>2. ld = Null /\ out = NoReport
    BY DEF Init
  <1> QED
    BY <1>1, <1>2
    DEF RingInv, RingRecent, PrintLatestCorrect, NamedFindsLatest,
        CrashTraceRendered, NoReport

(* In a Unix build no operation faults on a NULL LD, and every step keeps *)
(* RingInv.                                                                *)
LEMMA RingStep ==
  ASSUME Unix
  PROVE  RingInv /\ [Next]_vars => RingInv'
  <1> SUFFICES ASSUME RingInv, [Next]_vars PROVE RingInv'
    OBVIOUS
  <1>1. ~DerefsNullLD
    BY DEF DerefsNullLD, Unix
  <1>2. \/ \E why \in Labels : SaveBacktrace(why) \/ PrintBacktraceNamed(why)
        \/ \E last \in 1 .. SAVE_TRACES : PrintBacktrace(last)
        \/ Clear \/ CrashReport \/ UNCHANGED vars
    BY <1>1 DEF Next, Op
  <1>3. CASE UNCHANGED vars
    BY <1>3
    DEF vars, RingInv, StoreInv, TypeOK, LdShared, NoStoreNoHist, RingRecent,
        PrintLatestCorrect, NamedFindsLatest, CrashTraceRendered
  <1> QED
    BY <1>2, <1>3, SaveRing, NamedRingStep, PrintRing, ClearRing, CrashRing

(* The ring property of save_backtrace() and next_btrace_id() in the Unix *)
(* builds, for every ring size, label set and bound: the thread's store    *)
(* holds exactly its SAVE_TRACES most recent captures, each in the slot of *)
(* its number modulo the ring, and its cursor counts them modulo the ring. *)
THEOREM RingHoldsRecentHolds == Unix => (Spec => []RingHoldsRecent)
  <1> SUFFICES ASSUME Unix PROVE Spec => []RingHoldsRecent
    OBVIOUS
  <1>1. Init => RingInv
    BY RingInit
  <1>2. RingInv /\ [Next]_vars => RingInv'
    BY RingStep
  <1>3. RingInv => RingHoldsRecent
    BY RingHolds DEF RingInv, StoreInv
  <1> QED
    BY <1>1, <1>2, <1>3, PTL DEF Spec

(* print_backtrace(last) in a Unix build shows the last-th most recent    *)
(* capture of the thread, or "No stack trace" when there have been fewer.  *)
THEOREM PrintLatestCorrectHolds == Unix => (Spec => []PrintLatestCorrect)
  <1> SUFFICES ASSUME Unix PROVE Spec => []PrintLatestCorrect
    OBVIOUS
  <1>1. Init => RingInv
    BY RingInit
  <1>2. RingInv /\ [Next]_vars => RingInv'
    BY RingStep
  <1>3. RingInv => PrintLatestCorrect
    BY DEF RingInv
  <1> QED
    BY <1>1, <1>2, <1>3, PTL DEF Spec

(* print_backtrace_named(why) in a Unix build shows the most recent of the *)
(* thread's captures still in the ring whose label is why, and none when   *)
(* there is no such capture.                                               *)
THEOREM NamedFindsLatestHolds == Unix => (Spec => []NamedFindsLatest)
  <1> SUFFICES ASSUME Unix PROVE Spec => []NamedFindsLatest
    OBVIOUS
  <1>1. Init => RingInv
    BY RingInit
  <1>2. RingInv /\ [Next]_vars => RingInv'
    BY RingStep
  <1>3. RingInv => NamedFindsLatest
    BY DEF RingInv
  <1> QED
    BY <1>1, <1>2, <1>3, PTL DEF Spec

(* The crash handler of a Unix build, with or without an engine, renders  *)
(* the trace it has just captured: the store and slot of the "crash"       *)
(* capture.                                                                *)
THEOREM CrashTraceRenderedHolds == Unix => (Spec => []CrashTraceRendered)
  <1> SUFFICES ASSUME Unix PROVE Spec => []CrashTraceRendered
    OBVIOUS
  <1>1. Init => RingInv
    BY RingInit
  <1>2. RingInv /\ [Next]_vars => RingInv'
    BY RingStep
  <1>3. RingInv => CrashTraceRendered
    BY DEF RingInv
  <1> QED
    BY <1>1, <1>2, <1>3, PTL DEF Spec
=============================================================================
