----------------------- MODULE NextBtraceIdRefinement -----------------------
(***************************************************************************)
(* With COMPARE_AND_SWAP, the step-by-step next_btrace_id() of            *)
(* NextBtraceId implements SlotCounter's atomic fetch-and-increment under *)
(* the mapping cursor <- current, held <- AbsHeld.  The argument rests on *)
(* the type invariant TypeInv of NextBtraceIdProofs: in the CAS build the *)
(* cursor is always a slot, and no activation is ever at the increment   *)
(* and wrap steps of the plain build.                                     *)
(***************************************************************************)
EXTENDS NextBtraceIdProofs

\* The abstract state, under the mapping.
AbsVars == <<current, AbsHeld>>

(* Initially no activation holds a slot and the cursor is 0. *)
LEMMA RefInit == Init => SC!Init
  BY DEF Init, SC!Init, AbsHeld, Lvl, SC!Lvl, SC!NoSlot

(* A slot index is its own remainder. *)
LEMMA SlotMod ==
  ASSUME NEW c \in Slot
  PROVE  c % SAVE_TRACES = c
  <1>1. (SAVE_TRACES * 0 + c) % SAVE_TRACES = c
    BY ModUnique
  <1> QED
    BY <1>1, KAssumption, SMTT(60) DEF Slot

(* The successful swap of line 138 moves the cursor as SlotCounter does. *)
LEMMA CasNextSlot ==
  ASSUME NEW c \in Slot
  PROVE  CasNext(c) = (c + 1) % SAVE_TRACES
  <1>0. c \in Nat
    BY KAssumption DEF Slot
  <1>1. CasNext(c % SAVE_TRACES) = (c + 1) % SAVE_TRACES
    BY <1>0, CasNextMod
  <1> QED
    BY <1>1, SlotMod

(* Every step of the CAS build maps to a SlotCounter step or a stutter:   *)
(* the successful swap is Reserve, the end of the slot's use (Finish, or  *)
(* Return of a handler that holds one) is Release, every other step       *)
(* leaves the cursor and the held slots alone.                            *)
LEMMA RefStep == Atomic /\ TypeInv /\ [Next]_vars => [SC!Next]_AbsVars
  <1> SUFFICES ASSUME Atomic, TypeInv, [Next]_vars PROVE [SC!Next]_AbsVars
    OBVIOUS
  <1> USE KAssumption, LevelsAssumption
  <1>0. /\ TypeOK /\ LiveIdle /\ CasShape
        /\ current \in Slot
        /\ \A l \in Lvl : pc[l] \notin {"store", "wload", "wstore"}
    BY DEF TypeInv, CasShape
  <1>h. \A m \in Lvl : AbsHeld[m] = IF m < active /\ pc[m] = "hold" THEN idx[m] ELSE -1
    BY DEF AbsHeld
  <1>p. \A m \in Lvl : AbsHeld'[m] = IF m < active' /\ pc'[m] = "hold" THEN idx'[m] ELSE -1
    BY DEF AbsHeld
  <1>t. TypeOK'
    BY TypeStep DEF TypeInv
  <1>d. AbsHeld \in [Lvl -> Int] /\ AbsHeld' \in [Lvl -> Int]
    BY <1>0, <1>t DEF AbsHeld, TypeOK, Slot
  (* A step that keeps the cursor and every activation's held slot.       *)
  <1>s. ASSUME current' = current,
               \A m \in Lvl : (m < active' /\ pc'[m] = "hold") = (m < active /\ pc[m] = "hold"),
               \A m \in Lvl : (m < active /\ pc[m] = "hold") => idx'[m] = idx[m]
        PROVE  [SC!Next]_AbsVars
    <2>1. AbsHeld' = AbsHeld
      BY <1>s, <1>h, <1>p, <1>d
    <2> QED
      BY <2>1, <1>s DEF AbsVars
  <1>1. CASE Interrupt
    BY <1>1, <1>s, <1>0, SMTT(60) DEF Interrupt, LiveIdle, TypeOK, Lvl
  <1>2. ASSUME NEW l \in Lvl, Call(l) PROVE [SC!Next]_AbsVars
    BY <1>2, <1>s, <1>0, SMTT(60) DEF Call, TypeOK
  <1>3. ASSUME NEW l \in Lvl, CasLoad(l) PROVE [SC!Next]_AbsVars
    BY <1>3, <1>s, <1>0, SMTT(60) DEF CasLoad, TypeOK
  <1>4. ASSUME NEW l \in Lvl, CasSucceed(l) PROVE [SC!Next]_AbsVars
    <2>x. /\ l = active - 1 /\ pc[l] = "cas" /\ current = r[l]
          /\ current' = CasNext(r[l])
          /\ idx' = [idx EXCEPT ![l] = r[l]]
          /\ pc' = [pc EXCEPT ![l] = "hold"]
          /\ active' = active
      BY <1>4 DEF CasSucceed, Top
    <2>1. AbsHeld[l] = SC!NoSlot
      BY <2>x, <1>h DEF SC!NoSlot
    <2>2. AbsHeld' = [AbsHeld EXCEPT ![l] = current]
      <3>1. \A m \in Lvl \ {l} : AbsHeld'[m] = AbsHeld[m]
        BY <2>x, <1>h, <1>p, <1>0 DEF TypeOK
      <3>2. AbsHeld'[l] = current
        BY <2>x, <1>p, <1>0 DEF TypeOK
      <3> QED
        BY <3>1, <3>2, <1>d
    <2>3. current' = (current + 1) % SAVE_TRACES
      BY <2>x, <1>0, CasNextSlot
    <2>4. SC!Reserve(l)
      BY <2>1, <2>2, <2>3 DEF SC!Reserve
    <2> QED
      BY <2>4 DEF SC!Next, SC!Lvl, Lvl
  <1>5. ASSUME NEW l \in Lvl, CasFail(l) PROVE [SC!Next]_AbsVars
    BY <1>5, <1>s, <1>0, SMTT(60) DEF CasFail, TypeOK
  <1>6. ASSUME NEW l \in Lvl, IncLoad(l) PROVE FALSE
    BY <1>6 DEF IncLoad
  <1>7. ASSUME NEW l \in Lvl, IncStore(l) \/ WrapTest(l) \/ WrapStore(l) PROVE FALSE
    BY <1>7, <1>0 DEF IncStore, WrapTest, WrapStore
  (* Activation l gives up the slot it holds, and is no longer counted.   *)
  <1>r. ASSUME NEW l \in Lvl, l < active, pc[l] = "hold", current' = current,
               AbsHeld' = [AbsHeld EXCEPT ![l] = -1]
        PROVE  [SC!Next]_AbsVars
    <2>1. AbsHeld[l] # SC!NoSlot
      BY <1>r, <1>h, <1>0 DEF TypeOK, Slot, SC!NoSlot
    <2>2. SC!Release(l)
      BY <2>1, <1>r DEF SC!Release, SC!NoSlot
    <2> QED
      BY <2>2 DEF SC!Next, SC!Lvl, Lvl
  <1>8. ASSUME NEW l \in Lvl, Finish(l) PROVE [SC!Next]_AbsVars
    <2>x. /\ l = 0 /\ l = active - 1 /\ pc[l] = "hold"
          /\ pc' = [pc EXCEPT ![l] = "idle"]
          /\ UNCHANGED <<current, active, idx>>
      BY <1>8 DEF Finish, Top
    <2>1. AbsHeld' = [AbsHeld EXCEPT ![l] = -1]
      <3>1. \A m \in Lvl \ {l} : AbsHeld'[m] = AbsHeld[m]
        BY <2>x, <1>h, <1>p, <1>0 DEF TypeOK
      <3>2. AbsHeld'[l] = -1
        BY <2>x, <1>p, <1>0 DEF TypeOK
      <3> QED
        BY <3>1, <3>2, <1>d
    <2>2. l < active
      BY <2>x, <1>0 DEF TypeOK
    <2> QED
      BY <2>x, <2>1, <2>2, <1>r
  <1>9. ASSUME NEW l \in Lvl, Return(l) PROVE [SC!Next]_AbsVars
    <2>x. /\ l = active - 1 /\ pc[l] \in {"idle", "hold"}
          /\ active' = active - 1
          /\ pc' = [pc EXCEPT ![l] = "idle"]
          /\ UNCHANGED <<current, idx>>
      BY <1>9 DEF Return, Top
    <2>m. \A m \in Lvl \ {l} : pc'[m] = pc[m] /\ ((m < active') = (m < active))
      BY <2>x, <1>0 DEF TypeOK, Lvl
    <2>1. CASE pc[l] = "hold"
      <3>1. AbsHeld' = [AbsHeld EXCEPT ![l] = -1]
        <4>1. \A m \in Lvl \ {l} : AbsHeld'[m] = AbsHeld[m]
          BY <2>m, <2>x, <1>h, <1>p
        <4>2. AbsHeld'[l] = -1
          BY <2>x, <1>p, <1>0 DEF TypeOK
        <4> QED
          BY <4>1, <4>2, <1>d
      <3>2. l < active
        BY <2>x, <1>0 DEF TypeOK
      <3> QED
        BY <2>1, <2>x, <3>1, <3>2, <1>r
    <2>2. CASE pc[l] = "idle"
      <3>1. \A m \in Lvl : (m < active' /\ pc'[m] = "hold") = (m < active /\ pc[m] = "hold")
        BY <2>2, <2>m, <2>x, <1>0 DEF TypeOK
      <3> QED
        BY <3>1, <2>x, <1>s
    <2> QED
      BY <2>x, <2>1, <2>2
  <1>10. CASE UNCHANGED vars
    BY <1>10, <1>s DEF vars
  <1> QED
    BY <1>1, <1>2, <1>3, <1>4, <1>5, <1>6, <1>7, <1>8, <1>9, <1>10 DEF Next

(* With COMPARE_AND_SWAP, next_btrace_id() under preemption by nested     *)
(* handlers implements the atomic fetch-and-increment modulo SAVE_TRACES  *)
(* of SlotCounter: SlotCounterSpec holds for every ring size and depth.   *)
THEOREM CasRefinesSlotCounter == Atomic => (Spec => SlotCounterSpec)
  <1> SUFFICES ASSUME Atomic PROVE Spec => SlotCounterSpec
    OBVIOUS
  <1>1. TypeInv /\ [Next]_vars => [SC!Next]_AbsVars
    BY RefStep
  <1> QED
    BY <1>1, RefInit, TypeInit, TypeStep, PTL DEF Spec, SlotCounterSpec, SC!Spec, AbsVars
=============================================================================
