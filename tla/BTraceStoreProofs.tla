-------------------------- MODULE BTraceStoreProofs --------------------------
(***************************************************************************)
(* Proofs about the trace store of BTraceStore, for every ring size and    *)
(* every bound on stores and captures.                                     *)
(*                                                                         *)
(* The lemmas of the first part compute what the named scan of             *)
(* bstore_print_backtrace_named() visits: from me = bt->current-1 the loop *)
(* visits every slot once, newest first, so ScanMe is the closed form      *)
(* ((current - i) mod SAVE_TRACES) - 1 and the scan stops after exactly    *)
(* SAVE_TRACES iterations.                                                 *)
(***************************************************************************)
EXTENDS BTraceStore, WellFoundedInduction, SequenceTheorems, TLAPS

LEMMA KPos == SAVE_TRACES \in Nat \ {0}
  BY StoreAssumption

USE KPos

-----------------------------------------------------------------------------
(* Arithmetic modulo the ring. *)

LEMMA ModDef ==
  ASSUME NEW x \in Int
  PROVE  /\ x \div SAVE_TRACES \in Int
         /\ x = SAVE_TRACES * (x \div SAVE_TRACES) + (x % SAVE_TRACES)
  BY Z3

LEMMA ModRange ==
  ASSUME NEW x \in Int
  PROVE  x % SAVE_TRACES \in Slot
  BY Z3 DEF Slot

LEMMA MultGe ==
  ASSUME NEW x \in Int, x >= 1
  PROVE  SAVE_TRACES * x >= SAVE_TRACES
  BY Z3

(* The remainder is unique: K * d + m with 0 <= m < K leaves m. *)
LEMMA ModUnique ==
  ASSUME NEW d \in Int, NEW m \in Slot
  PROVE  (SAVE_TRACES * d + m) % SAVE_TRACES = m
  <1> DEFINE x == SAVE_TRACES * d + m
             e == x \div SAVE_TRACES
  <1> USE DEF Slot
  <1>0. x \in Int /\ e \in Int /\ x = SAVE_TRACES * e + (x % SAVE_TRACES)
    BY ModDef
  <1>2. (x % SAVE_TRACES) \in Slot
    BY <1>0, ModRange
  <1>3. SAVE_TRACES * (d - e) = (x % SAVE_TRACES) - m
    BY <1>0, Z3
  <1>4. CASE d - e >= 1
    <2>1. SAVE_TRACES * (d - e) >= SAVE_TRACES
      BY <1>4, <1>0, MultGe
    <2> QED
      BY <2>1, <1>2, <1>3
  <1>5. CASE e - d >= 1
    <2>1. SAVE_TRACES * (e - d) >= SAVE_TRACES
      BY <1>5, <1>0, MultGe
    <2>2. SAVE_TRACES * (e - d) = m - (x % SAVE_TRACES)
      BY <1>3, <1>0, Z3
    <2> QED
      BY <2>1, <2>2, <1>2
  <1>6. CASE d = e
    BY <1>6, <1>3, <1>0, Z3
  <1> QED
    BY <1>0, <1>4, <1>5, <1>6

LEMMA ModOfSlot ==
  ASSUME NEW x \in Slot
  PROVE  x % SAVE_TRACES = x
  <1>1. (SAVE_TRACES * 0 + x) % SAVE_TRACES = x
    BY ModUnique
  <1> QED
    BY <1>1 DEF Slot

(* Decrementing a remainder and normalising it, as the loop does, gives   *)
(* the remainder of the predecessor.                                       *)
LEMMA WrapPred ==
  ASSUME NEW x \in Int
  PROVE  Wrap((x % SAVE_TRACES) - 1) = (x - 1) % SAVE_TRACES
  <1> DEFINE q == x \div SAVE_TRACES
             r == x % SAVE_TRACES
  <1>0. q \in Int /\ r \in Slot /\ x = SAVE_TRACES * q + r
    BY ModDef, ModRange
  <1>1. CASE r = 0
    <2>1. x - 1 = SAVE_TRACES * (q - 1) + (SAVE_TRACES - 1)
      BY <1>0, <1>1, Z3
    <2>a. q - 1 \in Int /\ SAVE_TRACES - 1 \in Slot
      BY <1>0, KPos DEF Slot
    <2>b. (SAVE_TRACES * (q - 1) + (SAVE_TRACES - 1)) % SAVE_TRACES = SAVE_TRACES - 1
      <3> HIDE DEF q
      <3> QED
        BY <2>a, ModUnique
    <2>2. (x - 1) % SAVE_TRACES = SAVE_TRACES - 1
      BY <2>1, <2>b
    <2> QED
      BY <1>1, <2>2 DEF Wrap
  <1>2. CASE r # 0
    <2>1. x - 1 = SAVE_TRACES * q + (r - 1)
      BY <1>0, Z3
    <2>2. r - 1 \in Slot
      BY <1>0, <1>2 DEF Slot
    <2>b. (SAVE_TRACES * q + (r - 1)) % SAVE_TRACES = r - 1
      <3> HIDE DEF q, r
      <3> QED
        BY <2>2, <1>0, ModUnique
    <2>3. (x - 1) % SAVE_TRACES = r - 1
      BY <2>1, <2>b
    <2> QED
      BY <1>0, <1>2, <2>3 DEF Wrap, Slot
  <1> QED
    BY <1>1, <1>2

(* Two integers less than a ring apart with the same remainder are equal. *)
LEMMA ModWindow ==
  ASSUME NEW a \in Int, NEW b \in Int,
         a - b < SAVE_TRACES, b - a < SAVE_TRACES,
         a % SAVE_TRACES = b % SAVE_TRACES
  PROVE  a = b
  <1> DEFINE da == a \div SAVE_TRACES
             db == b \div SAVE_TRACES
  <1>0. da \in Int /\ db \in Int /\ a - b = SAVE_TRACES * (da - db)
    <2>1. da \in Int /\ a = SAVE_TRACES * da + (a % SAVE_TRACES)
      BY ModDef
    <2>2. db \in Int /\ b = SAVE_TRACES * db + (b % SAVE_TRACES)
      BY ModDef
    <2> QED
      BY <2>1, <2>2, Z3
  <1>1. CASE da - db >= 1
    BY <1>0, <1>1, MultGe
  <1>2. CASE db - da >= 1
    <2>1. SAVE_TRACES * (db - da) >= SAVE_TRACES
      BY <1>2, <1>0, MultGe
    <2> QED
      BY <2>1, <1>0, Z3
  <1>3. CASE da = db
    BY <1>3, <1>0, Z3
  <1> QED
    BY <1>0, <1>1, <1>2, <1>3

-----------------------------------------------------------------------------
(* The named scan. *)

\* The step of the scan's recursion, as FiniteNatInductiveDef takes it.
ScanStep(v, i) == Wrap(v) - 1

\* The closed form of the values of me.
ScanClosed(c) == [k \in 0 .. SAVE_TRACES |-> ((c - k) % SAVE_TRACES) - 1]

(* Started at bt->current-1, me is ((current - i) mod SAVE_TRACES) - 1 at *)
(* the head of iteration i.                                                *)
LEMMA ScanMeForm ==
  ASSUME NEW c \in Slot
  PROVE  ScanMe(c - 1) = ScanClosed(c)
  <1>1. FiniteNatInductiveDefHypothesis(ScanMe(c - 1), c - 1, ScanStep, 0, SAVE_TRACES)
    BY DEF FiniteNatInductiveDefHypothesis, ScanMe, ScanStep
  <1>2. FiniteNatInductiveDefConclusion(ScanMe(c - 1), c - 1, ScanStep, 0, SAVE_TRACES)
    BY <1>1, FiniteNatInductiveDef
  <1>3. FiniteNatInductiveDefConclusion(ScanClosed(c), c - 1, ScanStep, 0, SAVE_TRACES)
    <2> SUFFICES ASSUME NEW i \in 0 .. SAVE_TRACES
                 PROVE  ScanClosed(c)[i] = IF i = 0 THEN c - 1
                                           ELSE ScanStep(ScanClosed(c)[i - 1], i)
      BY DEF FiniteNatInductiveDefConclusion, ScanClosed
    <2>1. CASE i = 0
      <3>1. ScanClosed(c)[0] = (c % SAVE_TRACES) - 1
        BY DEF ScanClosed, Slot
      <3>2. c % SAVE_TRACES = c
        BY ModOfSlot
      <3> QED
        BY <2>1, <3>1, <3>2
    <2>2. CASE i # 0
      <3>1. ScanClosed(c)[i - 1] = ((c - i + 1) % SAVE_TRACES) - 1
        BY <2>2 DEF ScanClosed, Slot
      <3>2. c - i + 1 \in Int /\ (c - i + 1) - 1 = c - i
        BY DEF Slot
      <3>3. Wrap(((c - i + 1) % SAVE_TRACES) - 1) = (c - i) % SAVE_TRACES
        BY <3>2, WrapPred
      <3> QED
        BY <2>2, <3>1, <3>3 DEF ScanStep, ScanClosed
    <2> QED
      BY <2>1, <2>2
  <1> QED
    BY <1>2, <1>3, FiniteNatInductiveUnique
(* x - K and x leave the same remainder. *)
LEMMA ModShift ==
  ASSUME NEW x \in Int, NEW d \in Int
  PROVE  (x + SAVE_TRACES * d) % SAVE_TRACES = x % SAVE_TRACES
  <1> DEFINE q == x \div SAVE_TRACES
             r == x % SAVE_TRACES
  <1>0. q \in Int /\ r \in Slot /\ x = SAVE_TRACES * q + r
    BY ModDef, ModRange
  <1>1. x + SAVE_TRACES * d = SAVE_TRACES * (q + d) + r
    BY <1>0, Z3
  <1>2. q + d \in Int
    BY <1>0
  <1>3. (SAVE_TRACES * (q + d) + r) % SAVE_TRACES = r
    BY <1>0, <1>2, ModUnique
  <1> QED
    BY <1>1, <1>3

(* Subtracting from a remainder, then reducing, is reducing the difference. *)
LEMMA ModSub ==
  ASSUME NEW x \in Int, NEW y \in Int
  PROVE  ((x % SAVE_TRACES) - y) % SAVE_TRACES = (x - y) % SAVE_TRACES
  <1> DEFINE q == x \div SAVE_TRACES
             r == x % SAVE_TRACES
  <1>0. q \in Int /\ r \in Slot /\ x = SAVE_TRACES * q + r
    BY ModDef, ModRange
  <1>1. x - y = (r - y) + SAVE_TRACES * q
    BY <1>0, Z3
  <1>2. r - y \in Int
    BY <1>0 DEF Slot
  <1>3. ((r - y) + SAVE_TRACES * q) % SAVE_TRACES = (r - y) % SAVE_TRACES
    BY <1>0, <1>2, ModShift
  <1> QED
    BY <1>1, <1>3

\* The iterations of the named scan whose slot carries label why: iteration
\* i looks at slot (current - 1 - i) mod SAVE_TRACES.
ScanHits(st, why) ==
  {i \in 0 .. SAVE_TRACES - 1 : st.why[(st.current - 1 - i) % SAVE_TRACES] = why}

\* The first of them.
FirstHit(H) == CHOOSE i \in H : \A j \in H : i <= j

(* A non-empty set of naturals has a least element. *)
LEMMA LeastExists ==
  ASSUME NEW H \in SUBSET Nat, H # {}
  PROVE  \E i \in H : \A j \in H : i <= j
  <1>1. IsWellFoundedOn(OpToRel(<, Nat), Nat)
    BY NatLessThanWellFounded
  <1>2. \E x \in H : \A y \in H : ~(<<y, x>> \in OpToRel(<, Nat))
    BY <1>1, WFMin
  <1>3. PICK x \in H : \A y \in H : ~(<<y, x>> \in OpToRel(<, Nat))
    BY <1>2
  <1>4. \A y \in H : x <= y
    <2> SUFFICES ASSUME NEW y \in H PROVE x <= y
      OBVIOUS
    <2>1. ~(<<y, x>> \in {ss \in Nat \X Nat : ss[1] < ss[2]})
      BY <1>3 DEF OpToRel
    <2>2. ~(y < x)
      BY <2>1
    <2> QED
      BY <2>2
  <1> QED
    BY <1>4

(* The loop ends after SAVE_TRACES iterations, having looked at every slot *)
(* once, from the newest to the oldest, and returns the first slot with    *)
(* label why.                                                              *)
LEMMA NamedScanForm ==
  ASSUME NEW st, NEW why, st.current \in Slot
  PROVE  NamedScan(st, why) =
           IF ScanHits(st, why) = {} THEN -1
           ELSE (st.current - 1 - FirstHit(ScanHits(st, why))) % SAVE_TRACES
  <1> DEFINE c == st.current
             Me == ScanMe(c - 1)
             Stop == CHOOSE i \in 0 .. SAVE_TRACES - 1 : Me[i + 1] = c - 1
             Hits == {i \in 0 .. Stop : st.why[Wrap(Me[i])] = why}
  <1>0. c \in Int
    BY DEF Slot
  <1>1. Me = ScanClosed(c)
    BY ScanMeForm
  <1>2. \A i \in 0 .. SAVE_TRACES - 1 : Wrap(Me[i]) = (c - 1 - i) % SAVE_TRACES
    <2> SUFFICES ASSUME NEW i \in 0 .. SAVE_TRACES - 1
                 PROVE  Wrap(Me[i]) = (c - 1 - i) % SAVE_TRACES
      OBVIOUS
    <2>1. Me[i] = ((c - i) % SAVE_TRACES) - 1
      BY <1>0, <1>1 DEF ScanClosed
    <2>0. c - i \in Int
      BY <1>0
    <2>2. Wrap(((c - i) % SAVE_TRACES) - 1) = (c - i - 1) % SAVE_TRACES
      BY <2>0, WrapPred
    <2> QED
      BY <2>1, <2>2, <1>0
  <1>3. \A i \in 0 .. SAVE_TRACES - 1 : (Me[i + 1] = c - 1) <=> (i = SAVE_TRACES - 1)
    <2> SUFFICES ASSUME NEW i \in 0 .. SAVE_TRACES - 1
                 PROVE  (Me[i + 1] = c - 1) <=> (i = SAVE_TRACES - 1)
      OBVIOUS
    <2>0. i + 1 \in 0 .. SAVE_TRACES /\ c - (i + 1) = c - i - 1
      BY <1>0, KPos
    <2>1. Me[i + 1] = ((c - i - 1) % SAVE_TRACES) - 1
      BY <2>0, <1>1 DEF ScanClosed
    <2>2. c % SAVE_TRACES = c
      BY ModOfSlot
    <2>3. ASSUME i = SAVE_TRACES - 1 PROVE (c - i - 1) % SAVE_TRACES = c
      <3>1. c - i - 1 = c + SAVE_TRACES * (-1)
        BY <2>3, <1>0
      <3> QED
        BY <3>1, <2>2, <1>0, ModShift
    <2>4. ASSUME i # SAVE_TRACES - 1, (c - i - 1) % SAVE_TRACES = c PROVE FALSE
      <3>1. c - i - 1 = c
        BY <2>4, <2>2, <1>0, ModWindow
      <3> QED
        BY <3>1, <1>0
    <2> QED
      BY <2>1, <2>3, <2>4, <1>0
  <1>4. Stop = SAVE_TRACES - 1
    BY <1>3
  <1>5. Hits = ScanHits(st, why)
    BY <1>2, <1>4 DEF ScanHits
  <1>6. ScanHits(st, why) # {} =>
          Wrap(Me[FirstHit(ScanHits(st, why))]) =
            (c - 1 - FirstHit(ScanHits(st, why))) % SAVE_TRACES
    <2> SUFFICES ASSUME ScanHits(st, why) # {}
                 PROVE  FirstHit(ScanHits(st, why)) \in 0 .. SAVE_TRACES - 1
      BY <1>2
    <2>0. ScanHits(st, why) \in SUBSET Nat
      BY KPos DEF ScanHits
    <2>1. \E i \in ScanHits(st, why) : \A j \in ScanHits(st, why) : i <= j
      BY <2>0, LeastExists
    <2> QED
      BY <2>1 DEF FirstHit, ScanHits
  <1> QED
    BY <1>5, <1>6 DEF NamedScan, FirstHit

-----------------------------------------------------------------------------
(***************************************************************************)
(* The type invariant.  TypeOK alone is not inductive: the Unix crash     *)
(* handler frees the store it used unless that store is shared, so the    *)
(* thread's store must be the shared one; and print_backtrace() on a      *)
(* thread whose store could not be made must have no captures to show.    *)
(***************************************************************************)

\* LD->btrace_store is a store made with shared = TRUE.
LdShared == ld # Null => stores[ld].shared

\* A thread with an engine and no store has captured nothing since.
NoStoreNoHist == HasLD /\ ld = Null => hist = <<>>

StoreInv == TypeOK /\ LdShared /\ NoStoreNoHist

Ref == {Null} \cup Ids
HeapStates == {"unalloc", "live", "freed"}

(* malloc() of a store returns NULL or an object not yet allocated. *)
LEMMA FreshType ==
  ASSUME NEW hp \in [Ids -> HeapStates], NEW ok \in BOOLEAN
  PROVE  \/ Fresh(hp, ok) = Null
         \/ Fresh(hp, ok) \in Ids /\ hp[Fresh(hp, ok)] = "unalloc"
  <1> DEFINE U == {n \in Ids : hp[n] = "unalloc"}
  <1>1. CASE ok /\ U # {}
    <2>1. U \in SUBSET Nat
      BY StoreAssumption DEF Ids
    <2>2. PICK n \in U : \A m \in U : n <= m
      BY <1>1, <2>1, LeastExists
    <2>3. \E k \in Ids : hp[k] = "unalloc" /\ \A m \in Ids : hp[m] = "unalloc" => k <= m
      BY <2>2
    <2> QED
      BY <1>1, <2>3 DEF Fresh
  <1>2. CASE ~(ok /\ U # {})
    BY <1>2 DEF Fresh
  <1> QED
    BY <1>1, <1>2

\* What the code relies on of get_trace_store()'s result g, called with
\* LD->btrace_store = l on heap hp.
GetOK(l, hp, g) ==
  /\ g.ret \in Ref /\ g.ld \in Ref /\ g.new \in Ref /\ g.shared \in BOOLEAN
  /\ g.new # Null => hp[g.new] = "unalloc"
  /\ g.ld \in {l, g.new, Null}
  /\ g.ret \in {g.ld, g.new}
  /\ g.new # Null /\ g.ld = g.new => g.shared
  /\ HasLD /\ g.ld = Null => l = Null /\ g.ret = Null

(* get_trace_store() returns the thread's store, a new one or NULL; it    *)
(* installs only a new shared store; and with an engine it fails only     *)
(* when the thread had no store and malloc() failed.                      *)
LEMMA GetFacts ==
  ASSUME NEW l \in Ref, NEW hp \in [Ids -> HeapStates],
         NEW create \in BOOLEAN, NEW ok \in BOOLEAN,
         l # Null => hp[l] = "live"
  PROVE  GetOK(l, hp, GetTraceStore(l, hp, create, ok))
  <1> DEFINE n == Fresh(hp, ok)
  <1>1. n = Null \/ (n \in Ids /\ hp[n] = "unalloc")
    BY FreshType
  <1> DEFINE g == GetTraceStore(l, hp, create, ok)
  <1>0. n \in Ref /\ l \in Ref
    BY <1>1 DEF Ref
  <1>2. CASE Variant = "windows" /\ l = Null
    <2>1. g.ret = n /\ g.ld = n /\ g.new = n /\ g.shared = TRUE
      BY <1>2 DEF GetTraceStore
    <2>2. n # Null => hp[n] = "unalloc"
      BY <1>1
    <2>3. n # Null /\ n = n => TRUE
      BY <1>1, <1>2
    <2>4. HasLD /\ n = Null => l = Null /\ n = Null
      BY <1>2
    <2> QED
      BY <1>0, <2>1, <2>2, <2>3, <2>4, StoreAssumption DEF GetOK, Ref
  <1>3. CASE Variant = "windows" /\ l # Null /\ create
    <2>1. g.ret = n /\ g.ld = l /\ g.new = n /\ g.shared = FALSE
      BY <1>3 DEF GetTraceStore
    <2>2. n # Null => hp[n] = "unalloc"
      BY <1>1
    <2>3. n # Null /\ l = n => FALSE
      BY <1>1, <1>3
    <2>4. HasLD /\ l = Null => l = Null /\ n = Null
      BY <1>3
    <2> QED
      BY <1>0, <2>1, <2>2, <2>3, <2>4, StoreAssumption DEF GetOK, Ref
  <1>4. CASE Variant = "windows" /\ l # Null /\ ~create
    <2>1. g.ret = l /\ g.ld = l /\ g.new = Null /\ g.shared = FALSE
      BY <1>4 DEF GetTraceStore
    <2>2. Null # Null => hp[Null] = "unalloc"
      BY <1>1
    <2>3. Null # Null /\ l = Null => FALSE
      BY <1>1, <1>4
    <2>4. HasLD /\ l = Null => l = Null /\ l = Null
      BY <1>4
    <2> QED
      BY <1>0, <2>1, <2>2, <2>3, <2>4, StoreAssumption DEF GetOK, Ref
  <1>5. CASE Variant # "windows" /\ HasLD /\ l = Null
    <2>1. g.ret = n /\ g.ld = n /\ g.new = n /\ g.shared = TRUE
      BY <1>5 DEF GetTraceStore
    <2>2. n # Null => hp[n] = "unalloc"
      BY <1>1
    <2>3. n # Null /\ n = n => TRUE
      BY <1>1, <1>5
    <2>4. HasLD /\ n = Null => l = Null /\ n = Null
      BY <1>5
    <2> QED
      BY <1>0, <2>1, <2>2, <2>3, <2>4, StoreAssumption DEF GetOK, Ref
  <1>6. CASE Variant # "windows" /\ HasLD /\ l # Null
    <2>1. g.ret = l /\ g.ld = l /\ g.new = Null /\ g.shared = FALSE
      BY <1>6 DEF GetTraceStore
    <2>2. Null # Null => hp[Null] = "unalloc"
      BY <1>1
    <2>3. Null # Null /\ l = Null => FALSE
      BY <1>1, <1>6
    <2>4. HasLD /\ l = Null => l = Null /\ l = Null
      BY <1>6
    <2> QED
      BY <1>0, <2>1, <2>2, <2>3, <2>4, StoreAssumption DEF GetOK, Ref
  <1>7. CASE Variant # "windows" /\ ~HasLD /\ create
    <2>1. g.ret = n /\ g.ld = Null /\ g.new = n /\ g.shared = FALSE
      BY <1>7 DEF GetTraceStore
    <2>2. n # Null => hp[n] = "unalloc"
      BY <1>1
    <2>3. n # Null /\ Null = n => FALSE
      BY <1>1, <1>7
    <2>4. HasLD /\ Null = Null => l = Null /\ n = Null
      BY <1>7
    <2> QED
      BY <1>0, <2>1, <2>2, <2>3, <2>4, StoreAssumption DEF GetOK, Ref
  <1>8. CASE Variant # "windows" /\ ~HasLD /\ ~create
    <2>1. g.ret = Null /\ g.ld = Null /\ g.new = Null /\ g.shared = FALSE
      BY <1>8 DEF GetTraceStore
    <2>2. Null # Null => hp[Null] = "unalloc"
      BY <1>1
    <2>3. Null # Null /\ Null = Null => FALSE
      BY <1>1, <1>8
    <2>4. HasLD /\ Null = Null => l = Null /\ Null = Null
      BY <1>8
    <2> QED
      BY <1>0, <2>1, <2>2, <2>3, <2>4, StoreAssumption DEF GetOK, Ref
  <1> QED
    BY <1>2, <1>3, <1>4, <1>5, <1>6, <1>7, <1>8, StoreAssumption

(* A store as memset() leaves it is a store. *)
LEMMA EmptyType ==
  ASSUME NEW b \in BOOLEAN
  PROVE  EmptyStore(b) \in Store
  <1>1. 0 \in Slot
    BY DEF Slot
  <1>2. [i \in Slot |-> NoLabel] \in [Slot -> Labels \cup {NoLabel}]
    OBVIOUS
  <1>3. [i \in Slot |-> FALSE] \in [Slot -> BOOLEAN]
    OBVIOUS
  <1> QED
    BY <1>1, <1>2, <1>3 DEF EmptyStore, Store

(* The successor of next_btrace_id() is a slot. *)
LEMMA NextType ==
  ASSUME NEW c \in Slot
  PROVE  NextBtraceId(c) \in Slot
  BY DEF NextBtraceId, Slot

(* save_backtrace() leaves a store a store, with its shared flag. *)
LEMMA SaveInType ==
  ASSUME NEW st \in Store, NEW why \in Labels, NEW okBuf \in BOOLEAN
  PROVE  /\ SaveIn(st, why, okBuf) \in Store
         /\ SaveIn(st, why, okBuf).shared = st.shared
  <1>1. NextBtraceId(st.current) \in Slot
    BY NextType DEF Store
  <1> QED
    BY <1>1 DEF SaveIn, Store

(* What get_trace_store() leaves of the heap and of the stores. *)
LEMMA AfterFacts ==
  ASSUME NEW l \in Ref, NEW hp \in [Ids -> HeapStates], NEW sts \in [Ids -> Store],
         NEW g, GetOK(l, hp, g),
         l # Null => hp[l] = "live" /\ sts[l].shared
  PROVE  /\ HeapAfter(hp, g) \in [Ids -> HeapStates]
         /\ StoresAfter(sts, g) \in [Ids -> Store]
         /\ g.ld # Null => /\ HeapAfter(hp, g)[g.ld] = "live"
                           /\ StoresAfter(sts, g)[g.ld].shared
         /\ g.ret # Null => HeapAfter(hp, g)[g.ret] = "live"
         /\ l # Null => StoresAfter(sts, g)[l] = sts[l]
         /\ g.new # Null => StoresAfter(sts, g)[g.new] = EmptyStore(g.shared)
  <1>0. g.ret \in Ref /\ g.ld \in Ref /\ g.new \in Ref /\ g.shared \in BOOLEAN
        /\ (g.new # Null => hp[g.new] = "unalloc")
        /\ g.ld \in {l, g.new, Null} /\ g.ret \in {g.ld, g.new}
        /\ (g.new # Null /\ g.ld = g.new => g.shared)
    BY DEF GetOK
  <1>1. CASE g.new = Null
    <2>1. HeapAfter(hp, g) = hp /\ StoresAfter(sts, g) = sts
      BY <1>1 DEF HeapAfter, StoresAfter
    <2> QED
      BY <1>0, <1>1, <2>1 DEF Ref, Null
  <1>2. CASE g.new # Null
    <2>1. g.new \in Ids /\ EmptyStore(g.shared) \in Store
      BY <1>0, <1>2, EmptyType DEF Ref, Null
    <2>2. HeapAfter(hp, g) = [hp EXCEPT ![g.new] = "live"]
          /\ StoresAfter(sts, g) = [sts EXCEPT ![g.new] = EmptyStore(g.shared)]
      BY <1>2 DEF HeapAfter, StoresAfter
    <2>3. l # Null => l # g.new
      BY <1>0, <1>2
    <2>4. EmptyStore(g.shared).shared = g.shared
      BY DEF EmptyStore
    <2>5. HeapAfter(hp, g) \in [Ids -> HeapStates]
      BY <2>1, <2>2 DEF HeapStates
    <2>6. StoresAfter(sts, g) \in [Ids -> Store]
      BY <2>1, <2>2
    <2>7. g.ld # Null => /\ HeapAfter(hp, g)[g.ld] = "live"
                         /\ StoresAfter(sts, g)[g.ld].shared
      <3> SUFFICES ASSUME g.ld # Null PROVE /\ HeapAfter(hp, g)[g.ld] = "live"
                                            /\ StoresAfter(sts, g)[g.ld].shared
        OBVIOUS
      <3>1. CASE g.ld = g.new
        BY <3>1, <1>0, <1>2, <2>1, <2>2, <2>4
      <3>2. CASE g.ld # g.new
        <4>1. g.ld = l /\ l \in Ids
          BY <3>2, <1>0 DEF Ref
        <4> QED
          BY <4>1, <3>2, <2>1, <2>2
      <3> QED
        BY <3>1, <3>2
    <2>8. g.ret # Null => HeapAfter(hp, g)[g.ret] = "live"
      BY <1>0, <2>1, <2>2, <2>7
    <2>9. l # Null => StoresAfter(sts, g)[l] = sts[l]
      BY <2>1, <2>2, <2>3 DEF Ref
    <2>10. StoresAfter(sts, g)[g.new] = EmptyStore(g.shared)
      BY <2>1, <2>2
    <2> QED
      BY <2>5, <2>6, <2>7, <2>8, <2>9, <2>10
  <1> QED
    BY <1>1, <1>2

Ops == {"init", "save", "clear", "latest", "named", "crash"}

LEMMA NoReportType ==
  NoReport \in Report
  BY StoreAssumption DEF NoReport, Report, Null

(* print_trace() reports the slot it is given, with that slot's label. *)
LEMMA PrintTraceType ==
  ASSUME NEW op \in Ops, NEW n \in Ids, NEW st \in Store, NEW me \in Slot
  PROVE  PrintTrace(op, n, st, me) \in Report
  <1>1. st.why[me] \in Labels \cup {NoLabel}
    BY DEF Store
  <1>2. 0 \in 0 .. SAVE_TRACES
    OBVIOUS
  <1> QED
    BY <1>1, <1>2 DEF PrintTrace, Report, Ops

(* print_backtrace(last) looks at a slot of the ring. *)
LEMMA LatestSlotType ==
  ASSUME NEW c \in Slot, NEW last \in 1 .. SAVE_TRACES
  PROVE  LatestSlot(c, last) \in Slot
  BY DEF LatestSlot, Slot

(* The named scan returns a slot of the ring, or -1. *)
LEMMA NamedScanType ==
  ASSUME NEW st \in Store, NEW why
  PROVE  NamedScan(st, why) \in {-1} \cup Slot
  <1>1. st.current \in Slot
    BY DEF Store
  <1>2. ScanHits(st, why) # {} =>
          (st.current - 1 - FirstHit(ScanHits(st, why))) % SAVE_TRACES \in Slot
    <2> SUFFICES ASSUME ScanHits(st, why) # {}
                 PROVE  st.current - 1 - FirstHit(ScanHits(st, why)) \in Int
      BY ModRange
    <2>1. ScanHits(st, why) \in SUBSET Nat
      BY DEF ScanHits
    <2>2. \E i \in ScanHits(st, why) : \A j \in ScanHits(st, why) : i <= j
      BY <2>1, LeastExists
    <2>3. FirstHit(ScanHits(st, why)) \in Nat
      BY <2>1, <2>2 DEF FirstHit
    <2> QED
      BY <1>1, <2>3 DEF Slot
  <1> QED
    BY <1>1, <1>2, NamedScanForm

(* What bstore_print_backtrace_named() reports is a report. *)
LEMMA NamedReportType ==
  ASSUME NEW op \in Ops, NEW n \in Ref, NEW st, NEW why \in Labels,
         n # Null => st \in Store
  PROVE  NamedReport(op, n, st, why) \in Report
  <1>1. CASE n = Null
    BY <1>1, NoReportType DEF NamedReport, Report, Ops
  <1>2. CASE n # Null
    <2>1. st \in Store /\ n \in Ids
      BY <1>2 DEF Ref
    <2>2. NamedScan(st, why) \in {-1} \cup Slot
      BY <2>1, NamedScanType
    <2>3. CASE NamedScan(st, why) = -1
      <3>1. NamedReport(op, n, st, why) =
              [NoReport EXCEPT !.op = op, !.query = why, !.store = n,
                               !.kind = IF Variant = "glibc" THEN "notfound" ELSE "none"]
        BY <1>2, <2>3 DEF NamedReport
      <3> QED
        BY <2>1, <3>1, NoReportType DEF Report, Ops
    <2>4. CASE NamedScan(st, why) \in Slot
      <3>1. PrintTrace(op, n, st, NamedScan(st, why)) \in Report
        BY <2>1, <2>4, PrintTraceType
      <3>2. NamedScan(st, why) # -1
        BY <2>4 DEF Slot
      <3> QED
        BY <1>2, <3>1, <3>2 DEF NamedReport, Report
    <2> QED
      BY <2>2, <2>3, <2>4
  <1> QED
    BY <1>1, <1>2

(* Writing a trace into store r (when there is one) keeps every store a   *)
(* store with its shared flag.                                            *)
LEMMA SaveStores ==
  ASSUME NEW sts \in [Ids -> Store], NEW r \in Ref, NEW why \in Labels,
         NEW okBuf \in BOOLEAN
  PROVE  LET s2 == IF r = Null THEN sts
                   ELSE [sts EXCEPT ![r] = SaveIn(sts[r], why, okBuf)]
         IN  /\ s2 \in [Ids -> Store]
             /\ \A m \in Ids : s2[m].shared = sts[m].shared
  <1>1. CASE r = Null
    BY <1>1
  <1>2. CASE r # Null
    <2>1. r \in Ids
      BY <1>2 DEF Ref
    <2>2. SaveIn(sts[r], why, okBuf) \in Store
          /\ SaveIn(sts[r], why, okBuf).shared = sts[r].shared
      BY <2>1, SaveInType
    <2> QED
      BY <1>2, <2>1, <2>2
  <1> QED
    BY <1>1, <1>2

(* The capture history stays a sequence of labels. *)
LEMMA HistAfterType ==
  ASSUME NEW g, NEW why \in Labels, hist \in Seq(Labels)
  PROVE  HistAfter(g, why) \in Seq(Labels)
  BY DEF HistAfter

LEMMA StoreInit == Init => StoreInv
  <1> SUFFICES ASSUME Init PROVE StoreInv
    OBVIOUS
  <1>1. stores \in [Ids -> Store]
    BY EmptyType DEF Init
  <1>2. out \in Report
    BY NoReportType DEF Init
  <1>3. heap \in [Ids -> {"unalloc", "live", "freed"}]
    BY DEF Init
  <1>4. ld \in {Null} \cup Ids /\ ld = Null /\ hist = <<>> /\ alive = TRUE
    BY DEF Init
  <1>5. saves \in 0 .. MaxSaves
    BY StoreAssumption DEF Init
  <1>6. crashAt \in [store : {Null} \cup Ids, slot : {-1} \cup Slot]
    BY DEF Init
  <1>7. TypeOK
    BY <1>1, <1>2, <1>3, <1>4, <1>5, <1>6 DEF TypeOK
  <1> QED
    BY <1>4, <1>7 DEF StoreInv, LdShared, NoStoreNoHist

(* save_backtrace() keeps the invariant. *)
LEMMA SaveStep ==
  ASSUME StoreInv, NEW why \in Labels, SaveBacktrace(why)
  PROVE  StoreInv'
  <1>0. TypeOK /\ LdShared /\ NoStoreNoHist
    BY DEF StoreInv
  <1>1. PICK ok \in BOOLEAN, okBuf \in BOOLEAN :
          LET g == GetTraceStore(ld, heap, TRUE, ok)
              st == StoresAfter(stores, g)
          IN /\ heap' = HeapAfter(heap, g)
             /\ ld' = g.ld
             /\ stores' = IF g.ret = Null THEN st
                          ELSE [st EXCEPT ![g.ret] = SaveIn(st[g.ret], why, okBuf)]
             /\ hist' = HistAfter(g, why)
    BY DEF SaveBacktrace
  <1> DEFINE g == GetTraceStore(ld, heap, TRUE, ok)
             st == StoresAfter(stores, g)
  <1>2. /\ saves < MaxSaves /\ saves' = saves + 1
        /\ out' = [NoReport EXCEPT !.op = "save"]
        /\ UNCHANGED <<alive, crashAt>>
    BY DEF SaveBacktrace
  <1>3. GetOK(ld, heap, g)
    BY <1>0, GetFacts DEF TypeOK, Ref, HeapStates
  <1>4. /\ HeapAfter(heap, g) \in [Ids -> HeapStates]
        /\ st \in [Ids -> Store]
        /\ g.ld # Null => /\ HeapAfter(heap, g)[g.ld] = "live"
                          /\ st[g.ld].shared
    BY <1>0, <1>3, AfterFacts DEF TypeOK, LdShared, Ref, HeapStates
  <1>5. g.ret \in Ref /\ g.ld \in Ref
        /\ (HasLD /\ g.ld = Null => ld = Null /\ g.ret = Null)
    BY <1>3 DEF GetOK
  <1>6. /\ stores' \in [Ids -> Store]
        /\ \A m \in Ids : stores'[m].shared = st[m].shared
    <2> DEFINE s2 == IF g.ret = Null THEN st
                     ELSE [st EXCEPT ![g.ret] = SaveIn(st[g.ret], why, okBuf)]
    <2>1. s2 \in [Ids -> Store] /\ \A m \in Ids : s2[m].shared = st[m].shared
      <3>1. CASE g.ret = Null
        BY <3>1, <1>4
      <3>2. CASE g.ret # Null
        <4>1. g.ret \in Ids
          BY <3>2, <1>5 DEF Ref
        <4>2. SaveIn(st[g.ret], why, okBuf) \in Store
              /\ SaveIn(st[g.ret], why, okBuf).shared = st[g.ret].shared
          BY <4>1, <1>4, SaveInType
        <4> QED
          BY <3>2, <4>1, <4>2, <1>4
      <3> QED
        BY <3>1, <3>2
    <2>2. stores' = s2
      BY <1>1
    <2> QED
      BY <2>1, <2>2
  <1>7. TypeOK'
    <2>1. out' \in Report
      BY <1>2, NoReportType DEF NoReport, Report
    <2>2. hist' \in Seq(Labels)
      BY <1>0, <1>1, HistAfterType DEF TypeOK
    <2>3. saves' \in 0 .. MaxSaves
      BY <1>0, <1>2, StoreAssumption DEF TypeOK
    <2> QED
      BY <1>0, <1>1, <1>2, <1>4, <1>5, <1>6, <2>1, <2>2, <2>3
      DEF TypeOK, Ref, HeapStates
  <1>8. LdShared'
    BY <1>1, <1>4, <1>5, <1>6 DEF LdShared, Ref
  <1>9. NoStoreNoHist'
    BY <1>0, <1>1, <1>5 DEF NoStoreNoHist, HistAfter
  <1> QED
    BY <1>7, <1>8, <1>9 DEF StoreInv

(* print_backtrace(last) keeps the invariant. *)
LEMMA PrintStep ==
  ASSUME StoreInv, NEW last \in 1 .. SAVE_TRACES, PrintBacktrace(last)
  PROVE  StoreInv'
  <1>0. TypeOK /\ LdShared /\ NoStoreNoHist
    BY DEF StoreInv
  <1>1. PICK ok \in BOOLEAN :
          LET g == GetTraceStore(ld, heap, FALSE, ok)
              st == StoresAfter(stores, g)
          IN /\ heap' = HeapAfter(heap, g)
             /\ ld' = g.ld
             /\ stores' = st
             /\ out' = IF g.ret = Null
                       THEN [NoReport EXCEPT !.op = "latest", !.last = last,
                                             !.kind = "nostore"]
                       ELSE [PrintTrace("latest", g.ret, st[g.ret],
                                        LatestSlot(st[g.ret].current, last))
                             EXCEPT !.last = last]
             /\ hist' = IF g.new # Null THEN <<>> ELSE hist
    BY DEF PrintBacktrace
  <1> DEFINE g == GetTraceStore(ld, heap, FALSE, ok)
             st == StoresAfter(stores, g)
  <1>2. UNCHANGED <<alive, saves, crashAt>>
    BY DEF PrintBacktrace
  <1>3. GetOK(ld, heap, g)
    BY <1>0, GetFacts DEF TypeOK, Ref, HeapStates
  <1>4. /\ HeapAfter(heap, g) \in [Ids -> HeapStates]
        /\ st \in [Ids -> Store]
        /\ g.ld # Null => /\ HeapAfter(heap, g)[g.ld] = "live"
                          /\ st[g.ld].shared
    BY <1>0, <1>3, AfterFacts DEF TypeOK, LdShared, Ref, HeapStates
  <1>5. g.ret \in Ref /\ g.ld \in Ref
        /\ (HasLD /\ g.ld = Null => ld = Null /\ g.ret = Null)
    BY <1>3 DEF GetOK
  <1>6. out' \in Report
    <2>1. CASE g.ret = Null
      <3>1. out' = [NoReport EXCEPT !.op = "latest", !.last = last,
                                    !.kind = "nostore"]
        BY <1>1, <2>1
      <3>2. last \in 0 .. SAVE_TRACES
        OBVIOUS
      <3> QED
        BY <3>1, <3>2, NoReportType DEF NoReport, Report
    <2>2. CASE g.ret # Null
      <3>1. g.ret \in Ids /\ st[g.ret] \in Store
        BY <2>2, <1>4, <1>5 DEF Ref
      <3>2. LatestSlot(st[g.ret].current, last) \in Slot
        BY <3>1, LatestSlotType DEF Store
      <3>3. PrintTrace("latest", g.ret, st[g.ret],
                       LatestSlot(st[g.ret].current, last)) \in Report
        BY <3>1, <3>2, PrintTraceType DEF Ops
      <3>4. out' = [PrintTrace("latest", g.ret, st[g.ret],
                               LatestSlot(st[g.ret].current, last))
                    EXCEPT !.last = last]
        BY <1>1, <2>2
      <3>5. last \in 0 .. SAVE_TRACES
        OBVIOUS
      <3> QED
        BY <3>3, <3>4, <3>5 DEF Report
    <2> QED
      BY <2>1, <2>2
  <1>7. TypeOK'
    <2>1. hist' \in Seq(Labels)
      <3>1. hist' = IF g.new # Null THEN <<>> ELSE hist
        BY <1>1
      <3>2. <<>> \in Seq(Labels)
        BY EmptySeq
      <3> QED
        BY <1>0, <3>1, <3>2 DEF TypeOK
    <2> QED
      BY <1>0, <1>1, <1>2, <1>4, <1>5, <1>6, <2>1 DEF TypeOK, Ref, HeapStates
  <1>8. LdShared'
    BY <1>1, <1>4 DEF LdShared
  <1>9. NoStoreNoHist'
    BY <1>0, <1>1, <1>5 DEF NoStoreNoHist
  <1> QED
    BY <1>7, <1>8, <1>9 DEF StoreInv

(* print_backtrace_named(why) keeps the invariant. *)
LEMMA NamedStep ==
  ASSUME StoreInv, NEW why \in Labels, PrintBacktraceNamed(why)
  PROVE  StoreInv'
  <1>0. TypeOK /\ LdShared /\ NoStoreNoHist
    BY DEF StoreInv
  <1>1. PICK ok \in BOOLEAN :
          LET g == GetTraceStore(ld, heap, FALSE, ok)
              st == StoresAfter(stores, g)
          IN /\ heap' = HeapAfter(heap, g)
             /\ ld' = g.ld
             /\ stores' = st
             /\ out' = NamedReport("named", g.ret, st[g.ret], why)
             /\ hist' = IF g.new # Null THEN <<>> ELSE hist
    BY DEF PrintBacktraceNamed
  <1> DEFINE g == GetTraceStore(ld, heap, FALSE, ok)
             st == StoresAfter(stores, g)
  <1>2. UNCHANGED <<alive, saves, crashAt>>
    BY DEF PrintBacktraceNamed
  <1>3. GetOK(ld, heap, g)
    BY <1>0, GetFacts DEF TypeOK, Ref, HeapStates
  <1>4. /\ HeapAfter(heap, g) \in [Ids -> HeapStates]
        /\ st \in [Ids -> Store]
        /\ g.ld # Null => /\ HeapAfter(heap, g)[g.ld] = "live"
                          /\ st[g.ld].shared
    BY <1>0, <1>3, AfterFacts DEF TypeOK, LdShared, Ref, HeapStates
  <1>5. g.ret \in Ref /\ g.ld \in Ref
        /\ (HasLD /\ g.ld = Null => ld = Null /\ g.ret = Null)
    BY <1>3 DEF GetOK
  <1>6. out' \in Report
    <2>1. g.ret # Null => st[g.ret] \in Store
      BY <1>4, <1>5 DEF Ref
    <2> QED
      BY <1>1, <1>5, <2>1, NamedReportType DEF Ops
  <1>7. TypeOK'
    <2>1. hist' \in Seq(Labels)
      <3>1. hist' = IF g.new # Null THEN <<>> ELSE hist
        BY <1>1
      <3>2. <<>> \in Seq(Labels)
        BY EmptySeq
      <3> QED
        BY <1>0, <3>1, <3>2 DEF TypeOK
    <2> QED
      BY <1>0, <1>1, <1>2, <1>4, <1>5, <1>6, <2>1 DEF TypeOK, Ref, HeapStates
  <1>8. LdShared'
    BY <1>1, <1>4 DEF LdShared
  <1>9. NoStoreNoHist'
    BY <1>0, <1>1, <1>5 DEF NoStoreNoHist
  <1> QED
    BY <1>7, <1>8, <1>9 DEF StoreInv

(* c_backtrace_clear/0 keeps the invariant. *)
LEMMA ClearStep ==
  ASSUME StoreInv, Clear
  PROVE  StoreInv'
  <1>0. TypeOK /\ LdShared /\ NoStoreNoHist
    BY DEF StoreInv
  <1>1. ld \in Ids /\ heap \in [Ids -> HeapStates]
    BY <1>0 DEF Clear, TypeOK, HeapStates
  <1>2. out' \in Report
    BY NoReportType DEF Clear, NoReport, Report
  <1>3. TypeOK'
    BY <1>0, <1>1, <1>2 DEF Clear, TypeOK, HeapStates
  <1> QED
    BY <1>3 DEF Clear, StoreInv, LdShared, NoStoreNoHist

(* The crash handler's capture and report keep the invariant, in the Unix *)
(* builds (the private store freed) and in the Windows build (the second  *)
(* get_trace_store() call of print_backtrace_named()).                    *)
LEMMA CrashStep ==
  ASSUME StoreInv, CrashReport
  PROVE  StoreInv'
  <1>0. TypeOK /\ LdShared /\ NoStoreNoHist
    BY DEF StoreInv
  <1>1. PICK ok \in BOOLEAN, okBuf \in BOOLEAN, ok2 \in BOOLEAN :
       LET g == GetTraceStore(ld, heap, TRUE, ok)
           st == StoresAfter(stores, g)
           hp == HeapAfter(heap, g)
           saved == IF g.ret = Null THEN st
                    ELSE [st EXCEPT ![g.ret] = SaveIn(st[g.ret], CrashLabel, okBuf)]
           g2 == GetTraceStore(g.ld, hp, FALSE, ok2)
           st2 == StoresAfter(saved, g2)
       IN /\ hist' = HistAfter(g, CrashLabel)
          /\ crashAt' = [store |-> g.ret,
                         slot |-> IF g.ret = Null THEN -1 ELSE st[g.ret].current]
          /\ IF Variant = "windows"
             THEN /\ heap' = HeapAfter(hp, g2)
                  /\ ld' = g2.ld
                  /\ stores' = st2
                  /\ out' = NamedReport("crash", g2.ret, st2[g2.ret], CrashLabel)
             ELSE /\ heap' = IF g.ret # Null /\ ~saved[g.ret].shared
                             THEN [hp EXCEPT ![g.ret] = "freed"] ELSE hp
                  /\ ld' = g.ld
                  /\ stores' = saved
                  /\ out' = NamedReport("crash", g.ret, saved[g.ret], CrashLabel)
    BY DEF CrashReport
  <1> DEFINE g == GetTraceStore(ld, heap, TRUE, ok)
             st == StoresAfter(stores, g)
             hp == HeapAfter(heap, g)
             saved == IF g.ret = Null THEN st
                      ELSE [st EXCEPT ![g.ret] = SaveIn(st[g.ret], CrashLabel, okBuf)]
             g2 == GetTraceStore(g.ld, hp, FALSE, ok2)
             st2 == StoresAfter(saved, g2)
  <1>2. /\ hist' = HistAfter(g, CrashLabel)
        /\ crashAt' = [store |-> g.ret,
                       slot |-> IF g.ret = Null THEN -1 ELSE st[g.ret].current]
        /\ alive' = FALSE /\ saves' = saves
    BY <1>1 DEF CrashReport
  <1>3. GetOK(ld, heap, g)
    BY <1>0, GetFacts DEF TypeOK, Ref, HeapStates
  <1>4. /\ hp \in [Ids -> HeapStates]
        /\ st \in [Ids -> Store]
        /\ g.ld # Null => hp[g.ld] = "live" /\ st[g.ld].shared
        /\ g.ret # Null => hp[g.ret] = "live"
    <2>1. ld \in Ref /\ heap \in [Ids -> HeapStates] /\ stores \in [Ids -> Store]
          /\ (ld # Null => heap[ld] = "live" /\ stores[ld].shared)
      BY <1>0 DEF TypeOK, LdShared, Ref, HeapStates
    <2> QED
      BY <1>3, <2>1, AfterFacts
  <1>5. g.ret \in Ref /\ g.ld \in Ref /\ g.ret \in {g.ld, g.new}
        /\ (HasLD /\ g.ld = Null => ld = Null /\ g.ret = Null)
    BY <1>3 DEF GetOK
  <1>6. /\ saved \in [Ids -> Store]
        /\ \A m \in Ids : saved[m].shared = st[m].shared
    <2>1. CASE g.ret = Null
      BY <2>1, <1>4
    <2>2. CASE g.ret # Null
      <3>1. g.ret \in Ids
        BY <2>2, <1>5 DEF Ref
      <3>2. SaveIn(st[g.ret], CrashLabel, okBuf) \in Store
            /\ SaveIn(st[g.ret], CrashLabel, okBuf).shared = st[g.ret].shared
        BY <3>1, <1>4, SaveInType, StoreAssumption
      <3> QED
        BY <2>2, <3>1, <3>2, <1>4
    <2> QED
      BY <2>1, <2>2
  <1>7. g.ld # Null => saved[g.ld].shared
    BY <1>4, <1>5, <1>6 DEF Ref
  <1>8. /\ hist' \in Seq(Labels)
        /\ crashAt' \in [store : {Null} \cup Ids, slot : {-1} \cup Slot]
        /\ alive' \in BOOLEAN /\ saves' \in 0 .. MaxSaves
    <2>1. hist' \in Seq(Labels)
      BY <1>0, <1>2, HistAfterType, StoreAssumption DEF TypeOK
    <2>2. g.ret # Null => st[g.ret].current \in Slot
      BY <1>4, <1>5 DEF Ref, Store
    <2>3. crashAt' \in [store : {Null} \cup Ids, slot : {-1} \cup Slot]
      BY <1>2, <1>5, <2>2 DEF Ref
    <2> QED
      BY <1>0, <1>2, <2>1, <2>3 DEF TypeOK
  <1>9. CASE Variant = "windows"
    <2>1. /\ heap' = HeapAfter(hp, g2)
          /\ ld' = g2.ld
          /\ stores' = st2
          /\ out' = NamedReport("crash", g2.ret, st2[g2.ret], CrashLabel)
      BY <1>1, <1>9
    <2>2. GetOK(g.ld, hp, g2)
      BY <1>4, <1>5, GetFacts
    <2>3. /\ HeapAfter(hp, g2) \in [Ids -> HeapStates]
          /\ st2 \in [Ids -> Store]
          /\ g2.ld # Null => /\ HeapAfter(hp, g2)[g2.ld] = "live"
                             /\ st2[g2.ld].shared
      <3>1. /\ g.ld \in Ref /\ hp \in [Ids -> HeapStates] /\ saved \in [Ids -> Store]
            /\ (g.ld # Null => hp[g.ld] = "live" /\ saved[g.ld].shared)
        BY <1>4, <1>5, <1>6, <1>7
      <3> HIDE DEF g, hp, saved, g2, st2
      <3> QED
        BY <2>2, <3>1, AfterFacts DEF st2
    <2>4. g2.ret \in Ref /\ g2.ld \in Ref
          /\ (HasLD /\ g2.ld = Null => g.ld = Null /\ g2.ret = Null)
      BY <2>2 DEF GetOK
    <2>5. out' \in Report
      <3>1. g2.ret # Null => st2[g2.ret] \in Store
        BY <2>3, <2>4 DEF Ref
      <3> QED
        BY <2>1, <2>4, <3>1, NamedReportType, StoreAssumption DEF Ops
    <2>6. TypeOK'
      BY <1>8, <2>1, <2>3, <2>4, <2>5 DEF TypeOK, Ref, HeapStates
    <2>7. NoStoreNoHist'
      <3>1. HistAfter(g, CrashLabel) = hist \/ ~(HasLD /\ g.ld = Null)
        BY <1>5 DEF HistAfter
      <3> QED
        BY <1>0, <1>2, <1>5, <2>1, <2>4, <3>1 DEF NoStoreNoHist
    <2> QED
      BY <2>1, <2>3, <2>6, <2>7 DEF StoreInv, LdShared
  <1>10. CASE Variant # "windows"
    <2> DEFINE h2 == IF g.ret # Null /\ ~saved[g.ret].shared
                     THEN [hp EXCEPT ![g.ret] = "freed"] ELSE hp
    <2>1. /\ heap' = h2
          /\ ld' = g.ld
          /\ stores' = saved
          /\ out' = NamedReport("crash", g.ret, saved[g.ret], CrashLabel)
      BY <1>1, <1>10
    <2>2. h2 \in [Ids -> HeapStates]
      BY <1>4, <1>5 DEF Ref, HeapStates
    <2>3. g.ld # Null => h2[g.ld] = "live"
      BY <1>4, <1>5, <1>7 DEF Ref
    <2>4. out' \in Report
      <3>1. g.ret # Null => saved[g.ret] \in Store
        BY <1>5, <1>6 DEF Ref
      <3> QED
        BY <2>1, <1>5, <3>1, NamedReportType, StoreAssumption DEF Ops
    <2>5. TypeOK'
      BY <1>5, <1>6, <1>8, <2>1, <2>2, <2>3, <2>4 DEF TypeOK, Ref, HeapStates
    <2>6. NoStoreNoHist'
      <3>1. HistAfter(g, CrashLabel) = hist \/ ~(HasLD /\ g.ld = Null)
        BY <1>5 DEF HistAfter
      <3> QED
        BY <1>0, <1>2, <1>5, <2>1, <3>1 DEF NoStoreNoHist
    <2> QED
      BY <1>7, <2>1, <2>5, <2>6 DEF StoreInv, LdShared
  <1> QED
    BY <1>9, <1>10

(* The fault of the Windows build without an engine keeps the invariant. *)
LEMMA FaultStep ==
  ASSUME StoreInv, NullLDFault
  PROVE  StoreInv'
  <1>1. out' \in Report
    BY NoReportType DEF NullLDFault, NoReport, Report
  <1> QED
    BY <1>1 DEF NullLDFault, StoreInv, TypeOK, LdShared, NoStoreNoHist

(* Every step of Next, and every stutter, keeps the invariant. *)
LEMMA StoreStep ==
  StoreInv /\ [Next]_vars => StoreInv'
  <1> SUFFICES ASSUME StoreInv, [Next]_vars PROVE StoreInv'
    OBVIOUS
  <1>1. CASE DerefsNullLD
    <2>1. NullLDFault \/ Clear \/ UNCHANGED vars
      BY <1>1 DEF Next, Op
    <2> QED
      BY <2>1, FaultStep, ClearStep
      DEF StoreInv, TypeOK, LdShared, NoStoreNoHist, vars
  <1>2. CASE ~DerefsNullLD
    <2>1. \/ \E why \in Labels : SaveBacktrace(why) \/ PrintBacktraceNamed(why)
          \/ \E last \in 1 .. SAVE_TRACES : PrintBacktrace(last)
          \/ Clear \/ CrashReport \/ UNCHANGED vars
      BY <1>2 DEF Next, Op
    <2> QED
      BY <2>1, SaveStep, NamedStep, PrintStep, ClearStep, CrashStep
      DEF StoreInv, TypeOK, LdShared, NoStoreNoHist, vars
  <1> QED
    BY <1>1, <1>2

(* Type correctness of the store model in every build: the heap, the       *)
(* stores, LD->btrace_store (Null or a live store), the reports and the    *)
(* ghost state always have their types, for every ring size, label set    *)
(* and bound.                                                              *)
THEOREM TypeCorrect == Spec => []TypeOK
  <1>1. Init => StoreInv
    BY StoreInit
  <1>2. StoreInv /\ [Next]_vars => StoreInv'
    BY StoreStep
  <1>3. StoreInv => TypeOK
    BY DEF StoreInv
  <1> QED
    BY <1>1, <1>2, <1>3, PTL DEF Spec
=============================================================================
