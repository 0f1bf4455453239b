--------------------------- MODULE NextBtraceIdFill -------------------------
(***************************************************************************)
(* Proof of FillDistinct for the plain build of next_btrace_id().  There   *)
(* "bt->current++" and the wrap of lines 140-143 can lose a reservation    *)
(* made by a handler, and the wrap can store a stale value, so the cursor  *)
(* can move back.  It never moves back past a slot still held below it:    *)
(* once an activation l has stored its increment, every value of           *)
(* bt->current from then on, and every value a handler above l loads or   *)
(* compares, lies 1 to granted - ticket[l] places after l's slot, since    *)
(* each of them was stored by an increment made after l's.                *)
(***************************************************************************)
EXTENDS NextBtraceIdProofs

USE KAssumption

\* The program points after the increment of line 140 has been stored.
Past == {"wload", "wstore", "hold"}

\* v lies e places after slot s in the ring, for an e in 1 .. n.
Ahead(v, s, n) == \E e \in 1 .. n : v % SAVE_TRACES = (s + e) % SAVE_TRACES

\* The reservations made since activation l took its slot.
Since(l) == granted - ticket[l]

(* What l itself can still read or write (bt->current, the incremented   *)
(* value and the compared value of line 142) lies after l's slot by at    *)
(* most the reservations made since l's.                                  *)
Own(l) ==
  /\ ticket[l] < granted
  /\ Ahead(current, idx[l], Since(l))
  /\ pc[l] = "wload" => Ahead(r[l] + 1, idx[l], Since(l))
  /\ pc[l] = "wstore" => Ahead(w[l], idx[l], Since(l))

(* So does what a handler k above l loads, increments or compares, and    *)
(* the slot k took lies after l's by the reservations between the two.    *)
Pair(l, k) ==
  /\ pc[k] = "store" => Ahead(r[k], idx[l], Since(l))
  /\ pc[k] = "wload" => Ahead(r[k] + 1, idx[l], Since(l))
  /\ pc[k] = "wstore" => Ahead(w[k], idx[l], Since(l))
  /\ pc[k] \in Past => Ahead(idx[k], idx[l], ticket[k] - ticket[l])

FillAt(l) == pc[l] \in Past => Own(l) /\ \A k \in Live : k > l => Pair(l, k)

FillAfter == \A l \in Live : FillAt(l)

FillInv == TypeInv /\ FillAfter


-----------------------------------------------------------------------------
(* Positions after a slot. *)

LEMMA ModShift ==
  ASSUME NEW y \in Int, NEW d \in Int
  PROVE  (y + SAVE_TRACES * d) % SAVE_TRACES = y % SAVE_TRACES
  <1> DEFINE q == y \div SAVE_TRACES
             m == y % SAVE_TRACES
  <1>1. q \in Int /\ m \in Slot /\ y = SAVE_TRACES * q + m
    BY DivInt, ModRange, ModDef
  <1>2. y + SAVE_TRACES * d = SAVE_TRACES * (q + d) + m
    BY <1>1, Z3
  <1>3. (SAVE_TRACES * (q + d) + m) % SAVE_TRACES = m
    BY <1>1, ModUnique
  <1> QED
    BY <1>2, <1>3

LEMMA ModMod ==
  ASSUME NEW x \in Int
  PROVE  (x % SAVE_TRACES) % SAVE_TRACES = x % SAVE_TRACES
  <1>1. (x % SAVE_TRACES) \in Slot
    BY ModRange
  <1>2. (SAVE_TRACES * 0 + (x % SAVE_TRACES)) % SAVE_TRACES = x % SAVE_TRACES
    BY <1>1, ModUnique
  <1> QED
    BY <1>1, <1>2 DEF Slot

LEMMA SlotMod ==
  ASSUME NEW m \in Slot
  PROVE  m % SAVE_TRACES = m
  <1>1. SAVE_TRACES * 0 + m = m
    BY DEF Slot
  <1> QED
    BY <1>1, ModUnique

(* Incrementing, then reducing, is reducing, incrementing and reducing. *)
LEMMA ModSucc ==
  ASSUME NEW x \in Int
  PROVE  ((x % SAVE_TRACES) + 1) % SAVE_TRACES = (x + 1) % SAVE_TRACES
  <1> DEFINE q == x \div SAVE_TRACES
             m == x % SAVE_TRACES
  <1>1. q \in Int /\ m \in Slot /\ x = SAVE_TRACES * q + m
    BY DivInt, ModRange, ModDef
  <1>2. x + 1 = (m + 1) + SAVE_TRACES * q /\ m + 1 \in Int
    BY <1>1, Z3 DEF Slot
  <1>3. ((m + 1) + SAVE_TRACES * q) % SAVE_TRACES = (m + 1) % SAVE_TRACES
    BY <1>1, <1>2, ModShift
  <1> QED
    BY <1>2, <1>3

(* An increment of a value after s is one place further after s. *)
LEMMA AheadSucc ==
  ASSUME NEW v \in Int, NEW s \in Int, NEW n \in Int, Ahead(v, s, n)
  PROVE  Ahead(v + 1, s, n + 1)
  <1>1. PICK e \in 1 .. n : v % SAVE_TRACES = (s + e) % SAVE_TRACES
    BY DEF Ahead
  <1>2. (v + 1) % SAVE_TRACES = ((v % SAVE_TRACES) + 1) % SAVE_TRACES
    BY ModSucc
  <1>3. (((s + e) % SAVE_TRACES) + 1) % SAVE_TRACES = (s + e + 1) % SAVE_TRACES
    <2>1. s + e \in Int
      OBVIOUS
    <2> QED
      BY <2>1, ModSucc
  <1>4. e + 1 \in 1 .. n + 1 /\ s + e + 1 = s + (e + 1)
    OBVIOUS
  <1> QED
    BY <1>1, <1>2, <1>3, <1>4 DEF Ahead

(* Reducing a value after s keeps it after s. *)
LEMMA AheadMod ==
  ASSUME NEW v \in Int, NEW s, NEW n, Ahead(v, s, n)
  PROVE  Ahead(v % SAVE_TRACES, s, n)
  BY ModMod DEF Ahead

(* After s by at most n is after s by at most any larger bound. *)
LEMMA AheadMono ==
  ASSUME NEW v, NEW s, NEW n \in Int, NEW n2 \in Int, n <= n2, Ahead(v, s, n)
  PROVE  Ahead(v, s, n2)
  BY DEF Ahead

(* The increment of v is one place after the slot v % SAVE_TRACES. *)
LEMMA AheadOne ==
  ASSUME NEW v \in Int
  PROVE  Ahead(v + 1, v % SAVE_TRACES, 1)
  <1>1. ((v % SAVE_TRACES) + 1) % SAVE_TRACES = (v + 1) % SAVE_TRACES
    BY ModSucc
  <1> QED
    BY <1>1 DEF Ahead

(* A slot less than a ring after s is not s. *)
LEMMA AheadApart ==
  ASSUME NEW x \in Slot, NEW s \in Slot, NEW n \in Int, n < SAVE_TRACES,
         Ahead(x, s, n)
  PROVE  x # s
  <1>1. PICK e \in 1 .. n : x % SAVE_TRACES = (s + e) % SAVE_TRACES
    BY DEF Ahead
  <1>2. x % SAVE_TRACES = x /\ s % SAVE_TRACES = s
    BY SlotMod
  <1>3. (s + e) % SAVE_TRACES # s % SAVE_TRACES
    <2>1. s + e \in Nat /\ s \in Nat /\ s + e # s
          /\ (s + e) - s < SAVE_TRACES /\ s - (s + e) < SAVE_TRACES
      BY DEF Slot
    <2> QED
      BY <2>1, DistinctTicketsDistinctSlots
  <1> QED
    BY <1>1, <1>2, <1>3

-----------------------------------------------------------------------------
(* The inductive invariant. *)

LEMMA FillInit == Init => FillInv
  <1> SUFFICES ASSUME Init PROVE FillInv
    OBVIOUS
  <1>1. TypeInv
    BY TypeInit
  <1>2. \A l \in Live : pc[l] = "idle"
    BY LevelsAssumption DEF Init, Live, Lvl
  <1> QED
    BY <1>1, <1>2 DEF FillInv, FillAfter, FillAt, Past

(* A step that moves no value of bt->current, loaded, compared or        *)
(* reserved, and leaves every live activation where it was or at the     *)
(* start of save_backtrace(), keeps FillAfter.                            *)
LEMMA FillFrame ==
  ASSUME FillAfter,
         UNCHANGED <<current, r, w, idx, granted, ticket>>,
         \A m \in Live' : pc'[m] \in {"idle", "load"} \/ (m \in Live /\ pc'[m] = pc[m])
  PROVE  FillAfter'
  <1> SUFFICES ASSUME NEW l \in Live', pc'[l] \in Past
               PROVE  Own(l)' /\ \A k \in Live' : k > l => Pair(l, k)'
    BY DEF FillAfter, FillAt
  <1>1. l \in Live /\ pc'[l] = pc[l]
    BY DEF Past
  <1>2. Own(l) /\ \A k \in Live : k > l => Pair(l, k)
    BY <1>1 DEF FillAfter, FillAt
  <1>3. Own(l)'
    BY <1>1, <1>2 DEF Own, Since
  <1>4. ASSUME NEW k \in Live', k > l PROVE Pair(l, k)'
    <2>1. CASE pc'[k] \in {"idle", "load"}
      BY <2>1 DEF Pair, Past
    <2>2. CASE k \in Live /\ pc'[k] = pc[k]
      BY <1>2, <1>4, <2>2 DEF Pair, Since
    <2> QED
      BY <2>1, <2>2
  <1> QED
    BY <1>3, <1>4

(* Two live activations that both hold a slot reserved less than a ring  *)
(* apart hold different slots.                                           *)
LEMMA FillSafe == FillInv => FillDistinct
  <1> SUFFICES ASSUME FillInv, NEW l \in Live, NEW m \in Live, l < m,
                      pc[l] = "hold", pc[m] = "hold",
                      ticket[m] - ticket[l] < SAVE_TRACES
               PROVE  idx[l] # idx[m]
    BY DEF FillDistinct
  <1>0. TypeOK
    BY DEF FillInv, TypeInv
  <1>a. active \in 1 .. Levels
    BY <1>0 DEF TypeOK
  <1>1. TypeOK /\ Live \subseteq Lvl
    BY <1>0, <1>a, LevelsAssumption DEF Live, Lvl
  <1>2. Ahead(idx[m], idx[l], ticket[m] - ticket[l])
    BY DEF FillInv, FillAfter, FillAt, Pair, Past
  <1>3. idx[l] \in Slot /\ idx[m] \in Slot /\ ticket[m] - ticket[l] \in Int
    BY <1>1 DEF TypeOK
  <1> QED
    BY <1>2, <1>3, AheadApart

LEMMA IntervalSub ==
  ASSUME NEW b \in Int, NEW a \in Int, b <= a
  PROVE  0 .. b - 1 \subseteq 0 .. a - 1
  OBVIOUS

(* The running activation is the innermost live one. *)
LEMMA TopFacts ==
  ASSUME TypeOK, NEW k \in Lvl, Top(k)
  PROVE  /\ Live \subseteq Lvl
         /\ k \in Live
         /\ \A l \in Live : l # k => l < k
         /\ \A j \in Live : ~(j > k)
  <1>1. active \in 1 .. Levels
    BY DEF TypeOK
  <1> QED
    BY <1>1, LevelsAssumption DEF Top, Live, Lvl

(* The load of "bt->current++" hands a handler above l the current value. *)
LEMMA FillIncLoad ==
  ASSUME TypeOK, FillAfter, NEW k \in Lvl, IncLoad(k)
  PROVE  FillAfter'
  <1>0. /\ Live \subseteq Lvl /\ k \in Live
        /\ \A l \in Live : l # k => l < k
    BY TopFacts DEF IncLoad
  <1>1. /\ pc' = [pc EXCEPT ![k] = "store"] /\ r' = [r EXCEPT ![k] = current]
        /\ UNCHANGED <<current, active, w, idx, granted, ticket>>
        /\ pc[k] = "load"
    BY DEF IncLoad
  <1>2. Live' = Live
    BY <1>1 DEF Live
  <1> SUFFICES ASSUME NEW l \in Live', pc'[l] \in Past
               PROVE  Own(l)' /\ \A j \in Live' : j > l => Pair(l, j)'
    BY DEF FillAfter, FillAt
  <1>3. l \in Live /\ l # k /\ l < k /\ pc'[l] = pc[l] /\ r'[l] = r[l]
    BY <1>0, <1>1, <1>2 DEF Past, TypeOK
  <1>4. Own(l) /\ \A j \in Live : j > l => Pair(l, j)
    BY <1>3 DEF FillAfter, FillAt, Past
  <1>5. Own(l)'
    BY <1>1, <1>3, <1>4 DEF Own, Since
  <1>6. ASSUME NEW j \in Live', j > l PROVE Pair(l, j)'
    <2>1. CASE j = k
      <3>1. pc'[k] = "store" /\ r'[k] = current
        BY <1>0, <1>1 DEF TypeOK
      <3>2. Ahead(current, idx[l], Since(l))
        BY <1>4 DEF Own
      <3> QED
        BY <1>1, <2>1, <3>1, <3>2 DEF Pair, Since, Past
    <2>2. CASE j # k
      <3>1. j \in Live /\ pc'[j] = pc[j] /\ r'[j] = r[j]
        BY <1>0, <1>1, <1>2, <2>2 DEF TypeOK
      <3> QED
        BY <1>1, <1>4, <1>6, <3>1 DEF Pair, Since
    <2> QED
      BY <2>1, <2>2
  <1> QED
    BY <1>5, <1>6

(* The store of "bt->current++" reserves r[k] % SAVE_TRACES one place     *)
(* before the new bt->current, and moves every activation below one      *)
(* reservation further from its slot.                                    *)
LEMMA FillIncStore ==
  ASSUME TypeOK, FillAfter, NEW k \in Lvl, IncStore(k)
  PROVE  FillAfter'
  <1>0. /\ Live \subseteq Lvl /\ k \in Live
        /\ \A l \in Live : l # k => l < k
        /\ \A j \in Live : ~(j > k)
    BY TopFacts DEF IncStore
  <1>1. /\ pc' = [pc EXCEPT ![k] = "wload"] /\ current' = r[k] + 1
        /\ idx' = [idx EXCEPT ![k] = r[k] % SAVE_TRACES]
        /\ ticket' = [ticket EXCEPT ![k] = granted] /\ granted' = granted + 1
        /\ UNCHANGED <<active, r, w>>
        /\ pc[k] = "store"
    BY DEF IncStore
  <1>2. Live' = Live
    BY <1>1 DEF Live
  <1>n. r[k] \in Nat /\ granted \in Nat /\ ticket \in [Lvl -> Nat]
        /\ r \in [Lvl -> Nat] /\ w \in [Lvl -> Nat] /\ idx \in [Lvl -> Slot]
    BY DEF TypeOK
  <1> SUFFICES ASSUME NEW l \in Live', pc'[l] \in Past
               PROVE  Own(l)' /\ \A j \in Live' : j > l => Pair(l, j)'
    BY DEF FillAfter, FillAt
  <1>a. l = k => Own(l)' /\ \A j \in Live' : j > l => Pair(l, j)'
    <2>1. pc'[k] = "wload" /\ idx'[k] = r[k] % SAVE_TRACES /\ ticket'[k] = granted
      BY <1>0, <1>1 DEF TypeOK
    <2>2. Since(k)' = 1 /\ ticket'[k] < granted'
      BY <1>1, <1>n, <2>1 DEF Since
    <2>3. Ahead(r[k] + 1, r[k] % SAVE_TRACES, 1)
      BY <1>n, AheadOne
    <2>4. Own(k)'
      <3>1. Ahead(current', idx'[k], Since(k)')
        BY <1>1, <2>1, <2>2, <2>3
      <3>2. pc'[k] = "wload" => Ahead(r'[k] + 1, idx'[k], Since(k)')
        BY <1>1, <2>1, <2>2, <2>3
      <3>3. pc'[k] # "wstore"
        BY <2>1
      <3> QED
        BY <2>2, <3>1, <3>2, <3>3 DEF Own
    <2> QED
      BY <1>0, <1>2, <2>4
  <1> SUFFICES ASSUME l # k
               PROVE  Own(l)' /\ \A j \in Live' : j > l => Pair(l, j)'
    BY <1>a
  <1>3. l \in Live /\ l # k /\ l < k /\ pc'[l] = pc[l]
        /\ idx'[l] = idx[l] /\ ticket'[l] = ticket[l]
    BY <1>0, <1>1, <1>2 DEF TypeOK
  <1>i. idx[l] \in Int /\ ticket[l] \in Nat
    BY <1>0, <1>3, <1>n DEF Slot
  <1>4. Own(l) /\ \A j \in Live : j > l => Pair(l, j)
    BY <1>3 DEF FillAfter, FillAt, Past
  <1>s. Since(l)' = Since(l) + 1 /\ Since(l) \in Int
    BY <1>0, <1>1, <1>3, <1>n DEF Since
  <1>5. Ahead(r[k], idx[l], Since(l))
    BY <1>0, <1>1, <1>3, <1>4 DEF Pair
  <1>6. Ahead(r[k] + 1, idx[l], Since(l) + 1)
    BY <1>5, <1>n, <1>s, <1>i, AheadSucc
  <1>7. Own(l)'
    <2>1. ticket[l] < granted + 1
      BY <1>4, <1>i, <1>n DEF Own
    <2>2. pc[l] = "wload" => Ahead(r[l] + 1, idx[l], Since(l) + 1)
      <3>1. pc[l] = "wload" => Ahead(r[l] + 1, idx[l], Since(l))
        BY <1>4 DEF Own
      <3> QED
        BY <3>1, <1>s, AheadMono
    <2>3. pc[l] = "wstore" => Ahead(w[l], idx[l], Since(l) + 1)
      <3>1. pc[l] = "wstore" => Ahead(w[l], idx[l], Since(l))
        BY <1>4 DEF Own
      <3> QED
        BY <3>1, <1>s, AheadMono
    <2> QED
      BY <1>1, <1>3, <1>6, <1>s, <2>1, <2>2, <2>3 DEF Own
  <1>8. ASSUME NEW j \in Live', j > l PROVE Pair(l, j)'
    <2>1. CASE j = k
      <3>1. pc'[k] = "wload" /\ idx'[k] = r[k] % SAVE_TRACES /\ ticket'[k] = granted
        BY <1>0, <1>1 DEF TypeOK
      <3>2. Ahead(r[k] % SAVE_TRACES, idx[l], Since(l))
        BY <1>5, <1>n, AheadMod
      <3>3. ticket'[k] - ticket'[l] = Since(l)
        BY <1>3, <3>1 DEF Since
      <3> QED
        BY <1>1, <1>3, <1>6, <1>s, <2>1, <3>1, <3>2, <3>3 DEF Pair, Past
    <2>2. CASE j # k
      <3>1. j \in Live /\ pc'[j] = pc[j] /\ idx'[j] = idx[j] /\ ticket'[j] = ticket[j]
        BY <1>0, <1>1, <1>2, <2>2 DEF TypeOK
      <3>2. Pair(l, j)
        BY <1>4, <1>8, <3>1
      <3>3. r[j] \in Nat /\ w[j] \in Nat
        BY <1>0, <1>n, <3>1
      <3>4. /\ pc[j] = "store" => Ahead(r[j], idx[l], Since(l) + 1)
            /\ pc[j] = "wload" => Ahead(r[j] + 1, idx[l], Since(l) + 1)
            /\ pc[j] = "wstore" => Ahead(w[j], idx[l], Since(l) + 1)
        BY <3>2, <3>3, <1>s, AheadMono DEF Pair
      <3> QED
        BY <1>1, <1>3, <1>s, <3>1, <3>2, <3>4 DEF Pair
    <2> QED
      BY <2>1, <2>2
  <1> QED
    BY <1>7, <1>8

(* The wrap test of line 142 compares bt->current, or the incremented     *)
(* value still in a register: either lies after every slot held below.    *)
LEMMA FillWrapTest ==
  ASSUME TypeOK, FillAfter, NEW k \in Lvl, WrapTest(k)
  PROVE  FillAfter'
  <1>0. /\ Live \subseteq Lvl /\ k \in Live
        /\ \A l \in Live : l # k => l < k
        /\ \A j \in Live : ~(j > k)
    BY TopFacts DEF WrapTest
  <1>1. PICK v \in {current, r[k] + 1} :
          \/ w' = [w EXCEPT ![k] = v] /\ pc' = [pc EXCEPT ![k] = "wstore"]
          \/ w' = w /\ pc' = [pc EXCEPT ![k] = "hold"]
    BY DEF WrapTest
  <1>2. /\ UNCHANGED <<current, active, r, idx, granted, ticket>>
        /\ pc[k] = "wload"
    BY DEF WrapTest
  <1>3. /\ pc' = [pc EXCEPT ![k] = pc'[k]] /\ pc'[k] \in {"wstore", "hold"}
        /\ w' = [w EXCEPT ![k] = w'[k]]
        /\ pc'[k] = "wstore" => w'[k] = v
    BY <1>1, <1>0 DEF TypeOK
  <1>4. Live' = Live
    BY <1>2 DEF Live
  <1> SUFFICES ASSUME NEW l \in Live', pc'[l] \in Past
               PROVE  Own(l)' /\ \A j \in Live' : j > l => Pair(l, j)'
    BY DEF FillAfter, FillAt
  <1>a. l = k => Own(l)' /\ \A j \in Live' : j > l => Pair(l, j)'
    <2>1. Own(k)
      BY <1>0, <1>2 DEF FillAfter, FillAt, Past
    <2>2. Ahead(v, idx[k], Since(k))
      BY <1>1, <1>2, <2>1 DEF Own
    <2>3. Own(k)'
      BY <1>2, <1>3, <2>1, <2>2 DEF Own, Since
    <2> QED
      BY <1>0, <1>4, <2>3
  <1> SUFFICES ASSUME l # k
               PROVE  Own(l)' /\ \A j \in Live' : j > l => Pair(l, j)'
    BY <1>a
  <1>5. l \in Live /\ l < k /\ pc'[l] = pc[l] /\ w'[l] = w[l]
    BY <1>0, <1>3, <1>4 DEF TypeOK
  <1>6. Own(l) /\ \A j \in Live : j > l => Pair(l, j)
    BY <1>5 DEF FillAfter, FillAt, Past
  <1>7. Own(l)'
    BY <1>2, <1>5, <1>6 DEF Own, Since
  <1>8. ASSUME NEW j \in Live', j > l PROVE Pair(l, j)'
    <2>1. CASE j = k
      <3>1. Pair(l, k)
        BY <1>0, <1>5, <1>6
      <3>2. Ahead(v, idx[l], Since(l))
        BY <1>1, <1>2, <1>6, <3>1 DEF Own, Pair
      <3> QED
        BY <1>2, <1>3, <2>1, <3>1, <3>2 DEF Pair, Since, Past
    <2>2. CASE j # k
      <3>1. j \in Live /\ pc'[j] = pc[j] /\ w'[j] = w[j]
        BY <1>0, <1>3, <1>4, <2>2 DEF TypeOK
      <3> QED
        BY <1>2, <1>6, <1>8, <3>1 DEF Pair, Since
    <2> QED
      BY <2>1, <2>2
  <1> QED
    BY <1>7, <1>8

(* "bt->current %= SAVE_TRACES" stores the reduction of a value that lies *)
(* after every slot held below, and after the storer's own.               *)
LEMMA FillWrapStore ==
  ASSUME TypeOK, FillAfter, NEW k \in Lvl, WrapStore(k)
  PROVE  FillAfter'
  <1>0. /\ Live \subseteq Lvl /\ k \in Live
        /\ \A l \in Live : l # k => l < k
        /\ \A j \in Live : ~(j > k)
    BY TopFacts DEF WrapStore
  <1>1. /\ pc' = [pc EXCEPT ![k] = "hold"] /\ current' = w[k] % SAVE_TRACES
        /\ UNCHANGED <<active, r, w, idx, granted, ticket>>
        /\ pc[k] = "wstore"
    BY DEF WrapStore
  <1>2. Live' = Live /\ w[k] \in Int
    BY <1>1 DEF Live, TypeOK
  <1> SUFFICES ASSUME NEW l \in Live', pc'[l] \in Past
               PROVE  Own(l)' /\ \A j \in Live' : j > l => Pair(l, j)'
    BY DEF FillAfter, FillAt
  <1>a. l = k => Own(l)' /\ \A j \in Live' : j > l => Pair(l, j)'
    <2>1. Own(k)
      BY <1>0, <1>1 DEF FillAfter, FillAt, Past
    <2>2. Ahead(w[k] % SAVE_TRACES, idx[k], Since(k))
      BY <1>1, <1>2, <2>1, AheadMod DEF Own
    <2>3. pc'[k] = "hold"
      BY <1>0, <1>1 DEF TypeOK
    <2>4. Own(k)'
      BY <1>1, <2>1, <2>2, <2>3 DEF Own, Since
    <2> QED
      BY <1>0, <1>2, <2>4
  <1> SUFFICES ASSUME l # k
               PROVE  Own(l)' /\ \A j \in Live' : j > l => Pair(l, j)'
    BY <1>a
  <1>5. l \in Live /\ l < k /\ pc'[l] = pc[l]
    BY <1>0, <1>1, <1>2 DEF TypeOK
  <1>6. Own(l) /\ \A j \in Live : j > l => Pair(l, j)
    BY <1>5 DEF FillAfter, FillAt, Past
  <1>7. Ahead(w[k] % SAVE_TRACES, idx[l], Since(l))
    <2>1. Ahead(w[k], idx[l], Since(l))
      BY <1>0, <1>1, <1>5, <1>6 DEF Pair
    <2> QED
      BY <1>2, <2>1, AheadMod
  <1>8. Own(l)'
    BY <1>1, <1>5, <1>6, <1>7 DEF Own, Since
  <1>9. ASSUME NEW j \in Live', j > l PROVE Pair(l, j)'
    <2>1. CASE j = k
      <3>1. Pair(l, k) /\ pc'[k] = "hold"
        BY <1>0, <1>1, <1>5, <1>6 DEF TypeOK
      <3> QED
        BY <1>1, <2>1, <3>1 DEF Pair, Since, Past
    <2>2. CASE j # k
      <3>1. j \in Live /\ pc'[j] = pc[j]
        BY <1>0, <1>1, <1>2, <2>2 DEF TypeOK
      <3> QED
        BY <1>1, <1>6, <1>9, <3>1 DEF Pair, Since
    <2> QED
      BY <2>1, <2>2
  <1> QED
    BY <1>8, <1>9

(* In the plain build every step keeps the invariant. *)
LEMMA FillStep ==
  ASSUME ~Atomic, FillInv, [Next]_vars
  PROVE  FillInv'
  <1>0. TypeInv'
    BY TypeStep DEF FillInv
  <1> SUFFICES FillAfter'
    BY <1>0 DEF FillInv
  <1>t. TypeOK /\ PlainShape /\ FillAfter
    BY DEF FillInv, TypeInv
  <1>a. active \in 1 .. Levels /\ pc \in [Lvl -> PCs]
    BY <1>t DEF TypeOK
  <1>1. CASE Interrupt
    <2>1. \A m \in Live' : pc'[m] \in {"idle", "load"} \/ (m \in Live /\ pc'[m] = pc[m])
      BY <1>1, <1>a, LevelsAssumption DEF Interrupt, Live, Lvl
    <2> QED
      BY <1>1, <1>t, <2>1, FillFrame DEF Interrupt
  <1>2. CASE UNCHANGED vars
    <2>1. \A m \in Live' : pc'[m] \in {"idle", "load"} \/ (m \in Live /\ pc'[m] = pc[m])
      BY <1>2 DEF vars, Live
    <2> QED
      BY <1>2, <1>t, <2>1, FillFrame DEF vars
  <1>3. ASSUME NEW k \in Lvl, Call(k) \/ Finish(k) \/ Return(k)
        PROVE  FillAfter'
    <2>1. /\ UNCHANGED <<current, r, w, idx, granted, ticket>>
          /\ active' \in {active, active - 1}
          /\ pc' = [pc EXCEPT ![k] = pc'[k]] /\ pc'[k] \in {"idle", "load"}
      BY <1>3, <1>a DEF Call, Finish, Return
    <2>2. Live' \subseteq Live /\ Live \subseteq Lvl
      <3>1. active' \in Int /\ active' <= active
        BY <2>1, <1>a
      <3>2. Live' = 0 .. active' - 1 /\ Live = 0 .. active - 1
        BY DEF Live
      <3>3. Live' \subseteq Live
        <4>0. active' <= active /\ active \in Int /\ active' \in Int
          BY <3>1, <1>a
        <4> QED
          BY <4>0, <3>2, IntervalSub
      <3>4. Live \subseteq Lvl
        BY <3>2, <1>a, LevelsAssumption DEF Lvl
      <3> QED
        BY <3>3, <3>4
    <2>3. \A m \in Live' : pc'[m] \in {"idle", "load"} \/ (m \in Live /\ pc'[m] = pc[m])
      BY <2>1, <2>2, <1>a
    <2> QED
      BY <1>t, <2>1, <2>3, FillFrame
  <1>4. ASSUME NEW k \in Lvl, CasLoad(k) \/ CasSucceed(k) \/ CasFail(k)
        PROVE  FALSE
    BY <1>4, <1>t DEF CasLoad, CasSucceed, CasFail, PlainShape
  <1>5. ASSUME NEW k \in Lvl, IncLoad(k) PROVE FillAfter'
    BY <1>5, <1>t, FillIncLoad
  <1>6. ASSUME NEW k \in Lvl, IncStore(k) PROVE FillAfter'
    BY <1>6, <1>t, FillIncStore
  <1>7. ASSUME NEW k \in Lvl, WrapTest(k) PROVE FillAfter'
    BY <1>7, <1>t, FillWrapTest
  <1>8. ASSUME NEW k \in Lvl, WrapStore(k) PROVE FillAfter'
    BY <1>8, <1>t, FillWrapStore
  <1> QED
    BY <1>1, <1>2, <1>3, <1>4, <1>5, <1>6, <1>7, <1>8 DEF Next

(* In the plain build of next_btrace_id(), two activations that fill      *)
(* slots at the same time, a handler and the level it interrupted, fill   *)
(* distinct slots whenever fewer than SAVE_TRACES reservations lie        *)
(* between theirs, for every ring size and nesting depth.                 *)
THEOREM FillDistinctHolds == ~Atomic => (Spec => []FillDistinct)
  <1> SUFFICES ASSUME ~Atomic PROVE Spec => []FillDistinct
    OBVIOUS
  <1>1. Init => FillInv
    BY FillInit
  <1>2. FillInv /\ [Next]_vars => FillInv'
    BY FillStep
  <1>3. FillInv => FillDistinct
    BY FillSafe
  <1> QED
    BY <1>1, <1>2, <1>3, PTL DEF Spec
=============================================================================
