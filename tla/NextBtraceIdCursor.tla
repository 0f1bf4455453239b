-------------------------- MODULE NextBtraceIdCursor --------------------------
(***************************************************************************)
(* Proof that neither build of next_btrace_id() leaves bt->current outside *)
(* the ring once no activation is inside the increment and wrap of lines   *)
(* 140-143 (CursorSane), for every ring size and nesting depth.            *)
(*                                                                         *)
(* CursorSane is not inductive: a handler that preempts the plain build    *)
(* between its increment and its wrap test sees the cursor at or past      *)
(* SAVE_TRACES and increments it further.  What is inductive is that a     *)
(* cursor past the ring is always being repaired: some live activation is  *)
(* at the wrap test with the value it stored, or at the wrap store with    *)
(* that value to reduce.  The activation that stored the value last is     *)
(* that one; the handlers above it store and repair values of their own    *)
(* before it runs again, and its wrap test then reads the same value       *)
(* whether it reloads the field or reuses its register.                    *)
(***************************************************************************)
EXTENDS NextBtraceIdProofs

CursorRepaired ==
  current >= SAVE_TRACES =>
    \E l \in Live : \/ pc[l] = "wload" /\ r[l] + 1 = current
                    \/ pc[l] = "wstore" /\ w[l] = current

CursorInv == TypeInv /\ CursorRepaired

LEMMA CursorInit == Init => CursorInv
  BY TypeInit, KAssumption DEF Init, CursorInv, CursorRepaired

(* A step that keeps the cursor, and the program point and the loaded and *)
(* compared values of every live activation at the wrap, keeps the        *)
(* invariant.                                                              *)
LEMMA KeepsRepair ==
  ASSUME CursorRepaired, current' = current,
         \A l \in Live : pc[l] \in {"wload", "wstore"} =>
            /\ l \in Live' /\ pc'[l] = pc[l] /\ r'[l] = r[l] /\ w'[l] = w[l]
  PROVE  CursorRepaired'
  BY DEF CursorRepaired

LEMMA CursorStep == CursorInv /\ [Next]_vars => CursorInv'
  <1> SUFFICES ASSUME TypeInv, CursorRepaired, [Next]_vars PROVE CursorInv'
    BY DEF CursorInv
  <1>0. TypeInv'
    BY TypeStep
  <1> SUFFICES CursorRepaired'
    BY <1>0 DEF CursorInv
  <1> USE KAssumption, LevelsAssumption
  <1>t. TypeOK /\ LiveIdle /\ CasShape
    BY DEF TypeInv
  <1>l. Live \subseteq Lvl
    BY <1>t DEF Live, Lvl, TypeOK
  <1>c. Atomic => current' \in Slot
    BY <1>0 DEF TypeInv, CasShape
  <1>a. CASE Atomic
    <2>1. current' \in Slot
      BY <1>a, <1>c
    <2> QED
      BY <2>1 DEF CursorRepaired, Slot
  <1> SUFFICES ASSUME ~Atomic PROVE CursorRepaired'
    BY <1>a
  <1>1. CASE Interrupt
    <2>1. \A l \in Live : l \in Live' /\ l # active
      BY <1>1, <1>t DEF Interrupt, Live, TypeOK
    <2> QED
      BY <1>1, <2>1, KeepsRepair DEF Interrupt
  <1>2. ASSUME NEW l \in Lvl, Call(l) \/ IncLoad(l) \/ Finish(l)
        PROVE  CursorRepaired'
    <2>1. /\ pc[l] \in {"idle", "load", "hold"}
          /\ pc' = [pc EXCEPT ![l] = pc'[l]]
          /\ UNCHANGED <<current, active, w>>
          /\ r' = [r EXCEPT ![l] = r'[l]]
      BY <1>2, <1>t DEF Call, IncLoad, Finish, TypeOK
    <2>2. \A m \in Live : pc[m] \in {"wload", "wstore"} => m # l
      BY <2>1
    <2>3. Live' = Live
      BY <2>1 DEF Live
    <2>4. \A m \in Lvl \ {l} : pc'[m] = pc[m] /\ r'[m] = r[m]
      BY <2>1, <1>t DEF TypeOK
    <2> QED
      BY <2>1, <2>2, <2>3, <2>4, <1>l, KeepsRepair
  <1>3. ASSUME NEW l \in Lvl, CasLoad(l) \/ CasSucceed(l) \/ CasFail(l)
        PROVE  FALSE
    <2>1. pc[l] \in {"load", "cas"} /\ (pc[l] = "load" => Atomic)
      BY <1>3 DEF CasLoad, CasSucceed, CasFail
    <2> QED
      BY <2>1, <1>3 DEF TypeInv, PlainShape
  <1>4. ASSUME NEW l \in Lvl, IncStore(l) PROVE CursorRepaired'
    <2>1. /\ l \in Live /\ active' = active
          /\ current' = r[l] + 1
          /\ pc'[l] = "wload" /\ r'[l] = r[l]
      BY <1>4, <1>t DEF IncStore, Top, Live, TypeOK, Lvl
    <2> QED
      BY <2>1 DEF CursorRepaired, Live
  <1>5. ASSUME NEW l \in Lvl, WrapTest(l) PROVE CursorRepaired'
    <2>1. PICK v \in {current, r[l] + 1} :
               IF v >= SAVE_TRACES
               THEN /\ w' = [w EXCEPT ![l] = v]
                    /\ pc' = [pc EXCEPT ![l] = "wstore"]
               ELSE /\ w' = w
                    /\ pc' = [pc EXCEPT ![l] = "hold"]
      BY <1>5 DEF WrapTest
    <2>2. /\ pc[l] = "wload" /\ l \in Live
          /\ UNCHANGED <<current, active, r>>
      BY <1>5, <1>t DEF WrapTest, Top, Live, TypeOK, Lvl
    <2> SUFFICES ASSUME current >= SAVE_TRACES
                 PROVE  \E m \in Live' : \/ pc'[m] = "wload" /\ r'[m] + 1 = current'
                                         \/ pc'[m] = "wstore" /\ w'[m] = current'
      BY <2>2 DEF CursorRepaired
    <2>3. PICK m \in Live : \/ pc[m] = "wload" /\ r[m] + 1 = current
                            \/ pc[m] = "wstore" /\ w[m] = current
      BY DEF CursorRepaired
    <2>4. CASE m = l
      <3>1. v = current /\ v >= SAVE_TRACES
        BY <2>1, <2>2, <2>3, <2>4
      <3>2. w'[l] = current /\ pc'[l] = "wstore"
        BY <2>1, <3>1, <1>t DEF TypeOK
      <3> QED
        BY <3>2, <2>2, <2>4 DEF Live
    <2>5. CASE m # l
      <3>0. m \in Lvl \ {l}
        BY <2>5, <1>l
      <3>1. pc'[m] = pc[m] /\ w'[m] = w[m]
        <4>1. CASE v >= SAVE_TRACES
          BY <4>1, <2>1, <3>0, <1>t DEF TypeOK
        <4>2. CASE ~(v >= SAVE_TRACES)
          BY <4>2, <2>1, <3>0, <1>t DEF TypeOK
        <4> QED
          BY <4>1, <4>2
      <3> QED
        BY <3>1, <2>2, <2>3 DEF Live
    <2> QED
      BY <2>4, <2>5
  <1>6. ASSUME NEW l \in Lvl, WrapStore(l) PROVE CursorRepaired'
    <2>1. current' = w[l] % SAVE_TRACES
      BY <1>6 DEF WrapStore
    <2>2. current' \in Slot
      BY <2>1, <1>t, ModRange DEF TypeOK
    <2> QED
      BY <2>2 DEF CursorRepaired, Slot
  <1>7. ASSUME NEW l \in Lvl, Return(l) PROVE CursorRepaired'
    <2>1. /\ l = active - 1 /\ pc[l] \in {"idle", "hold"}
          /\ active' = active - 1
          /\ pc' = [pc EXCEPT ![l] = "idle"]
          /\ UNCHANGED <<current, r, w>>
      BY <1>7 DEF Return, Top
    <2>2. \A m \in Live : pc[m] \in {"wload", "wstore"} => m \in Live \ {l}
      BY <2>1
    <2>3. \A m \in Live \ {l} : m \in Live' /\ pc'[m] = pc[m]
      BY <2>1, <1>t DEF Live, TypeOK, Lvl
    <2> QED
      BY <2>1, <2>2, <2>3, KeepsRepair
  <1>8. CASE UNCHANGED vars
    BY <1>8 DEF vars, CursorRepaired, Live
  <1> QED
    BY <1>1, <1>2, <1>3, <1>4, <1>5, <1>6, <1>7, <1>8 DEF Next

(* In both builds, for every ring size and nesting depth, bt->current      *)
(* indexes the ring whenever no activation is between the increment of     *)
(* line 140 and the reduction of line 143: the plain fallback may lose a   *)
(* reservation but never leaves the cursor corrupted (lines 118-125).      *)
THEOREM CursorSaneHolds == Spec => []CursorSane
  <1>1. CursorInv => CursorSane
    <2> SUFFICES ASSUME CursorInv, Quiescent PROVE current \in Slot
      BY DEF CursorSane
    <2>1. current \in Nat
      BY DEF CursorInv, TypeInv, TypeOK
    <2>2. ~(current >= SAVE_TRACES)
      BY DEF CursorInv, CursorRepaired, Quiescent
    <2> QED
      BY <2>1, <2>2, KAssumption DEF Slot
  <1>2. QED
    BY <1>1, CursorInit, CursorStep, PTL DEF Spec
=============================================================================
