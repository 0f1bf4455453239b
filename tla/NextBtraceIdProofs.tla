------------------------- MODULE NextBtraceIdProofs -------------------------
(***************************************************************************)
(* Proofs about slot reservation (NextBtraceId): the type invariant for    *)
(* both builds, and for the COMPARE_AND_SWAP build that calls overlapping  *)
(* in time get distinct slots within one pass of the ring.                 *)
(***************************************************************************)
EXTENDS NextBtraceId, TLAPS

-----------------------------------------------------------------------------
(* Arithmetic facts about the ring index.                                  *)

(* Division by the ring size: quotient and remainder.  In the proofs,    *)
(* "%" is always parenthesised: it does not bind tighter than "+".        *)
LEMMA ModDef ==
  ASSUME NEW g \in Int
  PROVE  g = SAVE_TRACES * (g \div SAVE_TRACES) + (g % SAVE_TRACES)
  BY KAssumption, Z3

LEMMA ModRange ==
  ASSUME NEW g \in Int
  PROVE  (g % SAVE_TRACES) \in Slot
  BY KAssumption, Z3 DEF Slot

LEMMA DivInt ==
  ASSUME NEW g \in Int
  PROVE  g \div SAVE_TRACES \in Int
  BY KAssumption, Z3

LEMMA MultGe ==
  ASSUME NEW x \in Int, x >= 1
  PROVE  SAVE_TRACES * x >= SAVE_TRACES
  BY KAssumption, Z3

(* The remainder is unique: K * d + m with 0 <= m < K leaves m. *)
LEMMA ModUnique ==
  ASSUME NEW d \in Int, NEW m \in Slot
  PROVE  (SAVE_TRACES * d + m) % SAVE_TRACES = m
  <1> DEFINE x == SAVE_TRACES * d + m
             e == x \div SAVE_TRACES
  <1> USE KAssumption DEF Slot
  <1>0. x \in Int /\ e \in Int
    BY DivInt
  <1>1. x = SAVE_TRACES * e + (x % SAVE_TRACES)
    BY <1>0, ModDef
  <1>2. (x % SAVE_TRACES) \in Slot
    BY <1>0, ModRange
  <1>3. SAVE_TRACES * (d - e) = (x % SAVE_TRACES) - m
    BY <1>0, <1>1, Z3
  <1>4. CASE d - e >= 1
    <2>1. SAVE_TRACES * (d - e) >= SAVE_TRACES
      BY <1>4, <1>0, MultGe
    <2> QED
      BY <2>1, <1>2, <1>3
  <1>5. CASE e - d >= 1
    <2>1. SAVE_TRACES * (e - d) >= SAVE_TRACES
      BY <1>5, <1>0, MultGe
    <2>2. SAVE_TRACES * (e - d) = m - (x % SAVE_TRACES)
      BY <1>3, <1>0, Z3
    <2> QED
      BY <2>1, <2>2, <1>2
  <1>6. CASE d = e
    BY <1>6, <1>3, <1>0, Z3
  <1> QED
    BY <1>0, <1>4, <1>5, <1>6

(* Two distinct tickets less than a full ring apart land in distinct     *)
(* slots.                                                                *)
LEMMA DistinctTicketsDistinctSlots ==
  ASSUME NEW a \in Nat, NEW b \in Nat, a # b,
         a - b < SAVE_TRACES, b - a < SAVE_TRACES
  PROVE  (a % SAVE_TRACES) # (b % SAVE_TRACES)
  <1> SUFFICES ASSUME (a % SAVE_TRACES) = (b % SAVE_TRACES) PROVE FALSE
    OBVIOUS
  <1> DEFINE da == a \div SAVE_TRACES
             db == b \div SAVE_TRACES
  <1> USE KAssumption
  <1>0. da \in Int /\ db \in Int
    BY DivInt
  <1>1. a - b = SAVE_TRACES * (da - db)
    <2>1. a = SAVE_TRACES * da + (a % SAVE_TRACES)
      BY ModDef
    <2>2. b = SAVE_TRACES * db + (b % SAVE_TRACES)
      BY ModDef
    <2> QED
      BY <1>0, <2>1, <2>2, Z3
  <1>2. CASE da - db >= 1
    <2>1. SAVE_TRACES * (da - db) >= SAVE_TRACES
      BY <1>2, <1>0, MultGe
    <2> QED
      BY <2>1, <1>1
  <1>3. CASE db - da >= 1
    <2>1. SAVE_TRACES * (db - da) >= SAVE_TRACES
      BY <1>3, <1>0, MultGe
    <2>2. b - a = SAVE_TRACES * (db - da)
      BY <1>1, <1>0, Z3
    <2> QED
      BY <2>1, <2>2
  <1>4. CASE da = db
    BY <1>4, <1>1, <1>0, Z3
  <1> QED
    BY <1>0, <1>2, <1>3, <1>4

(* The successor computed by lines 135-137 is the successor modulo       *)
(* SAVE_TRACES.                                                          *)
LEMMA CasNextMod ==
  ASSUME NEW g \in Nat
  PROVE  CasNext(g % SAVE_TRACES) = (g + 1) % SAVE_TRACES
  <1> DEFINE d == g \div SAVE_TRACES
             q == g % SAVE_TRACES
  <1> USE KAssumption
  <1>0. d \in Int
    BY DivInt
  <1>1. g = SAVE_TRACES * d + q
    BY ModDef
  <1>2. q \in Slot
    BY ModRange
  <1>3. CASE q + 1 = SAVE_TRACES
    <2>1. g + 1 = SAVE_TRACES * (d + 1) + 0
      BY <1>1, <1>3, <1>0, Z3
    <2>2. (SAVE_TRACES * (d + 1) + 0) % SAVE_TRACES = 0
      BY <1>0, ModUnique DEF Slot
    <2> QED
      BY <2>1, <2>2, <1>3 DEF CasNext
  <1>4. CASE q + 1 < SAVE_TRACES
    <2>1. g + 1 = SAVE_TRACES * d + (q + 1)
      BY <1>1, <1>0
    <2>2. (SAVE_TRACES * d + (q + 1)) % SAVE_TRACES = q + 1
      BY <1>0, <1>2, <1>4, ModUnique, SMTT(60) DEF Slot
    <2> QED
      BY <2>1, <2>2, <1>4 DEF CasNext
  <1> QED
    BY <1>2, <1>3, <1>4 DEF Slot

-----------------------------------------------------------------------------
(* The inductive invariant behind TypeOK: a level that is not live is      *)
(* idle, the swap of a CAS build only ever compares a slot index, and each *)
(* build only reaches its own program points.                              *)
LiveIdle == \A l \in Lvl : l >= active => pc[l] = "idle"

CasShape ==
  Atomic => /\ current \in Slot
            /\ \A l \in Lvl : pc[l] = "cas" => r[l] \in Slot
            /\ \A l \in Lvl : pc[l] \notin {"store", "wload", "wstore"}

PlainShape == ~Atomic => \A l \in Lvl : pc[l] # "cas"

TypeInv ==
  /\ TypeOK
  /\ LiveIdle
  /\ CasShape
  /\ PlainShape

LEMMA TypeInit == Init => TypeInv
  BY KAssumption, LevelsAssumption, MaxCallsAssumption
  DEF Init, TypeInv, TypeOK, LiveIdle, CasShape, PlainShape, Lvl, Slot, PCs

LEMMA TypeStep == TypeInv /\ [Next]_vars => TypeInv'
  <1> SUFFICES ASSUME TypeInv, [Next]_vars PROVE TypeInv'
    OBVIOUS
  <1> USE KAssumption, LevelsAssumption, MaxCallsAssumption, AtomicAssumption
      DEF TypeOK, LiveIdle, CasShape, PlainShape, Lvl, Slot, PCs, Top
  <1>0. TypeOK /\ LiveIdle /\ CasShape /\ PlainShape
    BY DEF TypeInv
  <1>1. CASE Interrupt
    <2>1. TypeOK'
      BY <1>0, <1>1, SMTT(90) DEF Interrupt, Reservation
    <2>2. LiveIdle'
      BY <1>0, <1>1, SMTT(90) DEF Interrupt, Reservation
    <2>3. CasShape'
      BY <1>0, <1>1, SMTT(90) DEF Interrupt, Reservation
    <2>4. PlainShape'
      BY <1>0, <1>1, SMTT(90) DEF Interrupt, Reservation
    <2> QED
      BY <2>1, <2>2, <2>3, <2>4 DEF TypeInv
  <1>2. ASSUME NEW l \in Lvl, Call(l) PROVE TypeInv'
    <2>x. /\ pc' = [pc EXCEPT ![l] = "load"]
          /\ inner' = [inner EXCEPT ![l] = {}]
          /\ calls' = calls + 1
          /\ calls < MaxCalls
          /\ UNCHANGED <<current, active, r, w, idx, granted, ticket>>
      BY <1>2 DEF Call
    <2>y. inner' \in [Lvl -> SUBSET Reservation]
      BY <1>0, <2>x
    <2>w. pc' \in [Lvl -> PCs] /\ calls' \in 0 .. MaxCalls
      BY <1>0, <2>x
    <2>1. TypeOK'
      BY <1>0, <2>x, <2>y, <2>w
    <2>2. LiveIdle'
      BY <1>0, <1>2, SMTT(90) DEF Call, Reservation
    <2>3. CasShape'
      BY <1>0, <1>2, SMTT(90) DEF Call, Reservation
    <2>4. PlainShape'
      BY <1>0, <1>2, SMTT(90) DEF Call, Reservation
    <2> QED
      BY <2>1, <2>2, <2>3, <2>4 DEF TypeInv
  <1>3. ASSUME NEW l \in Lvl, CasLoad(l) PROVE TypeInv'
    <2>1. TypeOK'
      BY <1>0, <1>3, SMTT(90) DEF CasLoad
    <2>2. LiveIdle'
      BY <1>0, <1>3, SMTT(90) DEF CasLoad
    <2>3. CasShape'
      BY <1>0, <1>3, SMTT(90) DEF CasLoad
    <2>4. PlainShape'
      BY <1>0, <1>3, SMTT(90) DEF CasLoad
    <2> QED
      BY <2>1, <2>2, <2>3, <2>4 DEF TypeInv
  <1>4. ASSUME NEW l \in Lvl, CasSucceed(l) PROVE TypeInv'
    <2>a. Atomic
      BY <1>0, <1>4 DEF CasSucceed
    <2>b. r[l] \in Slot
      BY <2>a, <1>0, <1>4 DEF CasSucceed
    <2>c. CasNext(r[l]) \in Slot
      BY <2>b DEF CasNext
    <2>0. Atomic /\ r[l] \in Slot /\ CasNext(r[l]) \in Slot
      BY <2>a, <2>b, <2>c
    <2>1. TypeOK'
      BY <2>0, <1>0, <1>4, SMTT(90) DEF CasSucceed
    <2>2. LiveIdle'
      BY <2>0, <1>0, <1>4, SMTT(90) DEF CasSucceed
    <2>3. CasShape'
      BY <2>0, <1>0, <1>4, SMTT(90) DEF CasSucceed
    <2>4. PlainShape'
      BY <2>0, <1>0, <1>4, SMTT(90) DEF CasSucceed
    <2> QED
      BY <2>1, <2>2, <2>3, <2>4 DEF TypeInv
  <1>5. ASSUME NEW l \in Lvl, CasFail(l) PROVE TypeInv'
    <2>1. TypeOK'
      BY <1>0, <1>5, SMTT(90) DEF CasFail
    <2>2. LiveIdle'
      BY <1>0, <1>5, SMTT(90) DEF CasFail
    <2>3. CasShape'
      BY <1>0, <1>5, SMTT(90) DEF CasFail
    <2>4. PlainShape'
      BY <1>0, <1>5, SMTT(90) DEF CasFail
    <2> QED
      BY <2>1, <2>2, <2>3, <2>4 DEF TypeInv
  <1>6. ASSUME NEW l \in Lvl, IncLoad(l) PROVE TypeInv'
    <2>1. TypeOK'
      BY <1>0, <1>6, SMTT(90) DEF IncLoad
    <2>2. LiveIdle'
      BY <1>0, <1>6, SMTT(90) DEF IncLoad
    <2>3. CasShape'
      BY <1>0, <1>6, SMTT(90) DEF IncLoad
    <2>4. PlainShape'
      BY <1>0, <1>6, SMTT(90) DEF IncLoad
    <2> QED
      BY <2>1, <2>2, <2>3, <2>4 DEF TypeInv
  <1>7. ASSUME NEW l \in Lvl, IncStore(l) PROVE TypeInv'
    <2>z. r[l] \in Nat
      BY <1>0
    <2>0. (r[l] % SAVE_TRACES) \in Slot
      BY <2>z, ModRange, SMTT(90)
    <2>x. idx' \in [Lvl -> Slot]
      BY <2>0, <1>0, <1>7 DEF IncStore
    <2>y. /\ current' = r[l] + 1
          /\ ticket' = [ticket EXCEPT ![l] = granted]
          /\ granted' = granted + 1
          /\ pc' = [pc EXCEPT ![l] = "wload"]
          /\ UNCHANGED <<active, r, w, inner, calls>>
      BY <1>7 DEF IncStore
    <2>w. current' \in Nat /\ granted' \in Nat
      <3>1. granted \in Nat
        BY <1>0
      <3> QED
        BY <2>y, <2>z, <3>1, SMTT(90)
    <2>v. pc' \in [Lvl -> PCs] /\ ticket' \in [Lvl -> Nat]
      BY <2>y, <1>0
    <2>1. TypeOK'
      BY <2>x, <2>y, <2>w, <2>v, <1>0
    <2>2. LiveIdle'
      BY <1>0, <1>7, ModRange, SMTT(90) DEF IncStore
    <2>3. CasShape'
      BY <1>0, <1>7, ModRange, SMTT(90) DEF IncStore
    <2>4. PlainShape'
      BY <1>0, <1>7, ModRange, SMTT(90) DEF IncStore
    <2> QED
      BY <2>1, <2>2, <2>3, <2>4 DEF TypeInv
  <1>8. ASSUME NEW l \in Lvl, WrapTest(l) PROVE TypeInv'
    <2>1. TypeOK'
      <3>1. PICK v \in {current, r[l] + 1} :
                 IF v >= SAVE_TRACES
                 THEN /\ w' = [w EXCEPT ![l] = v]
                      /\ pc' = [pc EXCEPT ![l] = "wstore"]
                 ELSE /\ w' = w
                      /\ pc' = [pc EXCEPT ![l] = "hold"]
        BY <1>8 DEF WrapTest
      <3>2. v \in Nat
        BY <1>0, <3>1, SMTT(60)
      <3>3. CASE v >= SAVE_TRACES
        <4>1. w' = [w EXCEPT ![l] = v] /\ pc' = [pc EXCEPT ![l] = "wstore"]
          BY <3>1, <3>3
        <4> QED
          BY <4>1, <1>0, <1>8, <3>2 DEF WrapTest
      <3>4. CASE ~(v >= SAVE_TRACES)
        BY <1>0, <1>8, <3>1, <3>2, <3>4 DEF WrapTest
      <3> QED
        BY <3>3, <3>4
    <2>2. LiveIdle'
      BY <1>0, <1>8, SMTT(90) DEF WrapTest
    <2>3. CasShape'
      BY <1>0, <1>8, SMTT(90) DEF WrapTest
    <2>4. PlainShape'
      <3>1. pc' = [pc EXCEPT ![l] = "wstore"] \/ pc' = [pc EXCEPT ![l] = "hold"]
        BY <1>8 DEF WrapTest
      <3> QED
        BY <1>0, <3>1
    <2> QED
      BY <2>1, <2>2, <2>3, <2>4 DEF TypeInv
  <1>9. ASSUME NEW l \in Lvl, WrapStore(l) PROVE TypeInv'
    <2>z. w[l] \in Int
      BY <1>0
    <2>0. (w[l] % SAVE_TRACES) \in Slot
      BY <2>z, ModRange
    <2>y. /\ pc' = [pc EXCEPT ![l] = "hold"]
          /\ UNCHANGED <<active, r, w, idx, granted, ticket, inner, calls>>
      BY <1>9 DEF WrapStore
    <2>x. current' \in Nat
      BY <2>0, <1>9 DEF WrapStore
    <2>1. TypeOK'
      BY <2>x, <2>y, <1>0
    <2>2. LiveIdle'
      BY <1>0, <1>9, ModRange, SMTT(90) DEF WrapStore
    <2>3. CasShape'
      BY <1>0, <1>9, ModRange, SMTT(90) DEF WrapStore
    <2>4. PlainShape'
      BY <1>0, <1>9, ModRange, SMTT(90) DEF WrapStore
    <2> QED
      BY <2>1, <2>2, <2>3, <2>4 DEF TypeInv
  <1>10. ASSUME NEW l \in Lvl, Finish(l) PROVE TypeInv'
    <2>1. TypeOK'
      BY <1>0, <1>10, SMTT(90) DEF Finish
    <2>2. LiveIdle'
      BY <1>0, <1>10, SMTT(90) DEF Finish
    <2>3. CasShape'
      BY <1>0, <1>10, SMTT(90) DEF Finish
    <2>4. PlainShape'
      BY <1>0, <1>10, SMTT(90) DEF Finish
    <2> QED
      BY <2>1, <2>2, <2>3, <2>4 DEF TypeInv
  <1>11. ASSUME NEW l \in Lvl, Return(l) PROVE TypeInv'
    <2>1. TypeOK'
      BY <1>0, <1>11, SMTT(90) DEF Return, Reservation
    <2>2. LiveIdle'
      BY <1>0, <1>11, SMTT(90) DEF Return, Reservation
    <2>3. CasShape'
      BY <1>0, <1>11, SMTT(90) DEF Return, Reservation
    <2>4. PlainShape'
      BY <1>0, <1>11, SMTT(90) DEF Return, Reservation
    <2> QED
      BY <2>1, <2>2, <2>3, <2>4 DEF TypeInv
  <1>12. CASE UNCHANGED vars
    BY <1>0, <1>12 DEF vars, TypeInv
  <1> QED
    BY <1>1, <1>2, <1>3, <1>4, <1>5, <1>6, <1>7, <1>8, <1>9, <1>10, <1>11, <1>12 DEF Next

(* Every reachable state of save_backtrace()'s reservation, in either      *)
(* build, satisfies the type invariant TypeOK.                             *)
THEOREM TypeCorrect == Spec => []TypeOK
  <1>1. TypeInv => TypeOK
    BY DEF TypeInv
  <1>2. QED
    BY TypeInit, TypeStep, <1>1, PTL DEF Spec

-----------------------------------------------------------------------------
(* The inductive invariant behind OverlapDistinct in the COMPARE_AND_SWAP  *)
(* build.  Every successful swap is numbered by the ghost counter granted: *)
(* bt->current is always granted mod SAVE_TRACES, so the n-th reservation  *)
(* gets slot n mod SAVE_TRACES.  A reservation made by a handler is later  *)
(* than the one every level below it already holds, and later than the    *)
(* call's own start, so no ticket recorded in inner[l] equals ticket[l].   *)
TicketSlot(t) == t % SAVE_TRACES

Numbered ==
  /\ current = TicketSlot(granted)
  /\ \A l \in Live : pc[l] = "hold" =>
       idx[l] = TicketSlot(ticket[l]) /\ ticket[l] < granted
  /\ \A l \in Lvl : \A e \in inner[l] :
       e.idx = TicketSlot(e.ticket) /\ e.ticket < granted

NestedLater ==
  \A l, m \in Live :
    (l < m /\ pc[l] = "hold") =>
      /\ pc[m] = "hold" => ticket[l] < ticket[m]
      /\ \A e \in inner[m] : ticket[l] < e.ticket

OwnDistinct ==
  \A l \in Live : pc[l] = "hold" => \A e \in inner[l] : e.ticket # ticket[l]

OverlapInv ==
  /\ TypeInv
  /\ Atomic => Numbered /\ NestedLater /\ OwnDistinct

LEMMA OverlapInit == Init => OverlapInv
  <1> SUFFICES ASSUME Init PROVE OverlapInv
    OBVIOUS
  <1>1. TypeInv
    BY TypeInit
  <1>2. current = TicketSlot(granted)
    BY KAssumption DEF Init, TicketSlot
  <1>a. Live = {0} /\ pc[0] = "idle" /\ \A l \in Lvl : inner[l] = {}
    BY LevelsAssumption DEF Init, Live, Lvl
  <1>3. Numbered /\ NestedLater /\ OwnDistinct
    BY <1>2, <1>a DEF Numbered, NestedLater, OwnDistinct
  <1> QED
    BY <1>1, <1>3 DEF OverlapInv

LEMMA OverlapStep == OverlapInv /\ [Next]_vars => OverlapInv'
  <1> SUFFICES ASSUME OverlapInv, [Next]_vars PROVE OverlapInv'
    OBVIOUS
  <1>0. TypeInv'
    BY TypeStep DEF OverlapInv
  <1> SUFFICES ASSUME Atomic PROVE (Numbered /\ NestedLater /\ OwnDistinct)'
    BY <1>0 DEF OverlapInv
  <1>h. TypeOK /\ LiveIdle /\ CasShape /\ Numbered /\ NestedLater /\ OwnDistinct
    BY DEF OverlapInv, TypeInv
  <1> USE KAssumption, LevelsAssumption, AtomicAssumption, <1>h
      DEF TypeOK, LiveIdle, CasShape, Lvl, Slot, PCs, Top, Live
  <1>1. CASE Interrupt
    <2>x. /\ active < Levels
          /\ active' = active + 1
          /\ pc' = [pc EXCEPT ![active] = "idle"]
          /\ inner' = [inner EXCEPT ![active] = {}]
          /\ UNCHANGED <<current, r, w, idx, granted, ticket, calls>>
      BY <1>1 DEF Interrupt
    <2>1. Numbered'
      <3>1. current' = TicketSlot(granted')
        BY <2>x DEF Numbered
      <3>2. \A m \in Live' : pc'[m] = "hold" =>
              idx'[m] = TicketSlot(ticket'[m]) /\ ticket'[m] < granted'
        BY <2>x, SMTT(90) DEF Numbered
      <3>3. \A m \in Lvl : \A e \in inner'[m] :
              e.idx = TicketSlot(e.ticket) /\ e.ticket < granted'
        BY <2>x, SMTT(90) DEF Numbered
      <3> QED
        BY <3>1, <3>2, <3>3 DEF Numbered
    <2>2. NestedLater'
      BY <2>x, SMTT(90) DEF NestedLater
    <2>3. OwnDistinct'
      BY <2>x, SMTT(90) DEF OwnDistinct
    <2> QED
      BY <2>1, <2>2, <2>3
  <1>2. ASSUME NEW l \in Lvl, Call(l)
         PROVE  (Numbered /\ NestedLater /\ OwnDistinct)'
    <2>x. /\ Top(l)
          /\ pc[l] = "idle"
          /\ pc' = [pc EXCEPT ![l] = "load"]
          /\ inner' = [inner EXCEPT ![l] = {}]
          /\ UNCHANGED <<current, active, r, w, idx, granted, ticket>>
      BY <1>2 DEF Call
    <2>1. Numbered'
      BY <2>x, SMTT(90) DEF Numbered
    <2>2. NestedLater'
      BY <2>x, SMTT(90) DEF NestedLater
    <2>3. OwnDistinct'
      BY <2>x, SMTT(90) DEF OwnDistinct
    <2> QED
      BY <2>1, <2>2, <2>3
  <1>3. ASSUME NEW l \in Lvl, CasLoad(l)
         PROVE  (Numbered /\ NestedLater /\ OwnDistinct)'
    <2>x. /\ pc[l] = "load"
          /\ pc' = [pc EXCEPT ![l] = "cas"]
          /\ UNCHANGED <<current, active, w, idx, granted, ticket, inner, calls>>
      BY <1>3 DEF CasLoad
    <2>1. Numbered'
      BY <2>x, SMTT(90) DEF Numbered
    <2>2. NestedLater'
      BY <2>x, SMTT(90) DEF NestedLater
    <2>3. OwnDistinct'
      BY <2>x, SMTT(90) DEF OwnDistinct
    <2> QED
      BY <2>1, <2>2, <2>3
  <1>4. ASSUME NEW l \in Lvl, CasSucceed(l)
         PROVE  (Numbered /\ NestedLater /\ OwnDistinct)'
    <2>x. /\ Top(l)
          /\ pc[l] = "cas"
          /\ current = r[l]
          /\ current' = CasNext(r[l])
          /\ idx' = [idx EXCEPT ![l] = r[l]]
          /\ ticket' = [ticket EXCEPT ![l] = granted]
          /\ granted' = granted + 1
          /\ pc' = [pc EXCEPT ![l] = "hold"]
          /\ UNCHANGED <<active, r, w, inner, calls>>
      BY <1>4 DEF CasSucceed
    <2>a. current' = TicketSlot(granted')
      <3>1. current = (granted % SAVE_TRACES)
        BY DEF Numbered, TicketSlot
      <3>2. CasNext(granted % SAVE_TRACES) = (granted + 1) % SAVE_TRACES
        BY CasNextMod
      <3> QED
        BY <2>x, <3>1, <3>2 DEF TicketSlot
    <2>b. idx'[l] = TicketSlot(ticket'[l])
      BY <2>x DEF Numbered
    <2>c. \A m \in Live' : pc'[m] = "hold" =>
            idx'[m] = TicketSlot(ticket'[m]) /\ ticket'[m] < granted'
      <3> SUFFICES ASSUME NEW m \in Live', pc'[m] = "hold"
                   PROVE  idx'[m] = TicketSlot(ticket'[m]) /\ ticket'[m] < granted'
        OBVIOUS
      <3>1. CASE m = l
        BY <2>x, <2>b, <3>1
      <3>2. CASE m # l
        <4>1. m \in Live /\ pc[m] = "hold"
          BY <2>x, <3>2
        <4>2. idx'[m] = idx[m] /\ ticket'[m] = ticket[m]
          BY <2>x, <3>2
        <4>3. idx[m] = TicketSlot(ticket[m]) /\ ticket[m] < granted
          BY <4>1 DEF Numbered
        <4>4. ticket[m] \in Nat
          BY <4>1
        <4>5. granted \in Nat /\ granted' = granted + 1
          BY <2>x
        <4> QED
          BY <4>2, <4>3, <4>4, <4>5, SMTT(90)
      <3> QED
        BY <3>1, <3>2
    <2>d. \A m \in Lvl : \A e \in inner'[m] :
            e.idx = TicketSlot(e.ticket) /\ e.ticket < granted'
      <3> SUFFICES ASSUME NEW m \in Lvl, NEW e \in inner'[m]
                   PROVE  e.idx = TicketSlot(e.ticket) /\ e.ticket < granted'
        OBVIOUS
      <3>1. e \in inner[m]
        BY <2>x
      <3>2. e.ticket \in Nat
        BY <3>1 DEF Reservation
      <3>3. e.idx = TicketSlot(e.ticket) /\ e.ticket < granted
        BY <3>1 DEF Numbered
      <3>4. granted \in Nat /\ granted' = granted + 1
        BY <2>x
      <3> QED
        BY <3>2, <3>3, <3>4
    <2>1. Numbered'
      BY <2>a, <2>c, <2>d DEF Numbered
    <2>2. NestedLater'
      BY <2>x, SMTT(90) DEF NestedLater, Numbered
    <2>3. OwnDistinct'
      BY <2>x, SMTT(90) DEF OwnDistinct, Numbered
    <2> QED
      BY <2>1, <2>2, <2>3
  <1>5. ASSUME NEW l \in Lvl, CasFail(l)
         PROVE  (Numbered /\ NestedLater /\ OwnDistinct)'
    <2>x. /\ pc[l] = "cas"
          /\ pc' = [pc EXCEPT ![l] = "load"]
          /\ UNCHANGED <<current, active, r, w, idx, granted, ticket, inner, calls>>
      BY <1>5 DEF CasFail
    <2>1. Numbered'
      BY <2>x, SMTT(90) DEF Numbered
    <2>2. NestedLater'
      BY <2>x, SMTT(90) DEF NestedLater
    <2>3. OwnDistinct'
      BY <2>x, SMTT(90) DEF OwnDistinct
    <2> QED
      BY <2>1, <2>2, <2>3
  <1>6. ASSUME NEW l \in Lvl, IncLoad(l) PROVE FALSE
    BY <1>6 DEF IncLoad
  <1>7. ASSUME NEW l \in Lvl, IncStore(l) PROVE FALSE
    BY <1>7 DEF IncStore
  <1>8. ASSUME NEW l \in Lvl, WrapTest(l) PROVE FALSE
    BY <1>8 DEF WrapTest
  <1>9. ASSUME NEW l \in Lvl, WrapStore(l) PROVE FALSE
    BY <1>9 DEF WrapStore
  <1>10. ASSUME NEW l \in Lvl, Finish(l)
         PROVE  (Numbered /\ NestedLater /\ OwnDistinct)'
    <2>x. /\ pc' = [pc EXCEPT ![l] = "idle"]
          /\ UNCHANGED <<current, active, r, w, idx, granted, ticket, inner, calls>>
      BY <1>10 DEF Finish
    <2>1. Numbered'
      BY <2>x, SMTT(90) DEF Numbered
    <2>2. NestedLater'
      BY <2>x, SMTT(90) DEF NestedLater
    <2>3. OwnDistinct'
      BY <2>x, SMTT(90) DEF OwnDistinct
    <2> QED
      BY <2>1, <2>2, <2>3
  <1>11. ASSUME NEW l \in Lvl, Return(l)
          PROVE  (Numbered /\ NestedLater /\ OwnDistinct)'
    <2> DEFINE mine == IF pc[l] = "hold"
                       THEN {[idx |-> idx[l], ticket |-> ticket[l]]}
                       ELSE {}
    <2>x. /\ l > 0
          /\ Top(l)
          /\ pc[l] \in {"idle", "hold"}
          /\ inner' = [m \in Lvl |-> IF m < l THEN inner[m] \cup inner[l] \cup mine
                                     ELSE inner[m]]
          /\ active' = active - 1
          /\ pc' = [pc EXCEPT ![l] = "idle"]
          /\ UNCHANGED <<current, r, w, idx, granted, ticket, calls>>
      BY <1>11 DEF Return
    \* What the returning handler hands down: slots numbered by their
    \* tickets, and later than whatever a level below it holds.
    <2>m. \A e \in inner[l] \cup mine :
            /\ e.idx = TicketSlot(e.ticket)
            /\ e.ticket < granted
            /\ \A k \in Live : (k < l /\ pc[k] = "hold") => ticket[k] < e.ticket
      <3> SUFFICES ASSUME NEW e \in inner[l] \cup mine
                   PROVE  /\ e.idx = TicketSlot(e.ticket)
                          /\ e.ticket < granted
                          /\ \A k \in Live : (k < l /\ pc[k] = "hold") => ticket[k] < e.ticket
        OBVIOUS
      <3>0. l \in Live
        BY <2>x
      <3>1. CASE e \in inner[l]
        BY <3>0, <3>1 DEF Numbered, NestedLater
      <3>2. CASE e \in mine
        <4>1. pc[l] = "hold" /\ e = [idx |-> idx[l], ticket |-> ticket[l]]
          BY <3>2
        <4> QED
          BY <3>0, <4>1 DEF Numbered, NestedLater
      <3> QED
        BY <3>1, <3>2
    <2>1. Numbered'
      BY <2>x, <2>m, SMTT(90) DEF Numbered
    <2>2. NestedLater'
      BY <2>x, <2>m, SMTT(90) DEF NestedLater
    <2>3. OwnDistinct'
      BY <2>x, <2>m, SMTT(90) DEF OwnDistinct
    <2> QED
      BY <2>1, <2>2, <2>3
  <1>12. CASE UNCHANGED vars
    BY <1>12 DEF vars, Numbered, NestedLater, OwnDistinct
  <1> QED
    BY <1>1, <1>2, <1>3, <1>4, <1>5, <1>6, <1>7, <1>8, <1>9, <1>10,
       <1>11, <1>12 DEF Next

(* Within one pass of the ring, distinct tickets are distinct slots. *)
LEMMA OverlapSafe == Atomic /\ OverlapInv => OverlapDistinct
  <1> SUFFICES ASSUME Atomic, OverlapInv,
                      NEW l \in Live, pc[l] = "hold",
                      NEW e \in inner[l],
                      e.ticket - ticket[l] < SAVE_TRACES,
                      ticket[l] - e.ticket < SAVE_TRACES
               PROVE  e.idx # idx[l]
    BY DEF OverlapDistinct
  <1>1. TypeOK /\ Numbered /\ OwnDistinct
    BY DEF OverlapInv, TypeInv
  <1>2. l \in Lvl
    BY <1>1, LevelsAssumption DEF TypeOK, Live, Lvl
  <1>3. e.ticket \in Nat /\ ticket[l] \in Nat
    BY <1>1, <1>2 DEF TypeOK, Reservation
  <1>4. e.ticket # ticket[l]
    BY <1>1 DEF OwnDistinct
  <1>5. e.idx = TicketSlot(e.ticket) /\ idx[l] = TicketSlot(ticket[l])
    BY <1>1, <1>2 DEF Numbered
  <1>6. (e.ticket % SAVE_TRACES) # (ticket[l] % SAVE_TRACES)
    BY <1>3, <1>4, DistinctTicketsDistinctSlots
  <1> QED
    BY <1>5, <1>6 DEF TicketSlot

(* In the COMPARE_AND_SWAP build of next_btrace_id() (lines 133-138), a    *)
(* call made by a signal handler never gets the slot of a call it          *)
(* interrupted, unless a full ring of reservations lies between them.     *)
THEOREM CasOverlapDistinct == Atomic => (Spec => []OverlapDistinct)
  <1> SUFFICES ASSUME Atomic PROVE Spec => []OverlapDistinct
    OBVIOUS
  <1>1. Init => OverlapInv
    BY OverlapInit
  <1>2. OverlapInv /\ [Next]_vars => OverlapInv'
    BY OverlapStep
  <1>3. OverlapInv => OverlapDistinct
    BY OverlapSafe
  <1> QED
    BY <1>1, <1>2, <1>3, PTL DEF Spec

=============================================================================
