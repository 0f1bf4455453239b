------------------------- MODULE CrashHandlerProofs -------------------------
(***************************************************************************)
(* Proof that in the build with a C-stack tracer and alarm(), every step   *)
(* of sigCrashHandler() that can block runs under an armed deadline       *)
(* (DeadlineArmed), for any number of threads and faults.                  *)
(*                                                                         *)
(* DeadlineArmed is not inductive: a step may take an activation from the  *)
(* reset to the banner, and a fault may push a new activation.  What is    *)
(* inductive is the order of the handler's first two statements: while    *)
(* the process runs, every activation past signal(SIGALRM, SIG_DFL) has    *)
(* left SIGALRM at its default, and every activation past alarm(10) has    *)
(* left an alarm pending.  Nothing sets SIGALRM back, and the alarm can    *)
(* only be spent by firing, which then ends the process.                   *)
(***************************************************************************)
EXTENDS CrashHandler, SequenceTheorems, TLAPS

\* An activation of the handler.
Act == [sig : Registered, pc : PCs, stuck : BOOLEAN]

TypeOK ==
  /\ stacks \in [Threads -> Seq(Act)]
  /\ disp \in [Signals -> {"crash", "other", "default"}]
  /\ alarmOn \in BOOLEAN
  /\ faults \in Nat

Armed ==
  status = "running" =>
    \A t \in Threads : \A i \in 1 .. Len(stacks[t]) :
      /\ stacks[t][i].pc # "reset" => disp["ALRM"] = "default"
      /\ stacks[t][i].pc \notin {"reset", "alarm"} => alarmOn

Inv == TypeOK /\ Armed

\* The build whose handler resets SIGALRM and arms the deadline.
Tracer == Build = "btrace" /\ HaveAlarm

-----------------------------------------------------------------------------

LEMMA InvInit == Init => Inv
  <1> SUFFICES ASSUME Init PROVE Inv
    OBVIOUS
  <1>1. stacks \in [Threads -> Seq(Act)]
    BY EmptySeq DEF Init
  <1>2. disp \in [Signals -> {"crash", "other", "default"}]
    BY DEF Init
  <1>3. Armed
    BY DEF Init, Armed
  <1> QED
    BY <1>1, <1>2, <1>3 DEF Init, Inv, TypeOK

(* Replacing the innermost activation of thread t by a. *)
LEMMA NewTop ==
  ASSUME TypeOK, NEW t \in Threads, stacks[t] # <<>>, NEW a \in Act,
         stacks' = [stacks EXCEPT ![t] = [stacks[t] EXCEPT ![Len(stacks[t])] = a]]
  PROVE  /\ stacks' \in [Threads -> Seq(Act)]
         /\ Len(stacks'[t]) = Len(stacks[t])
         /\ \A u \in Threads \ {t} : stacks'[u] = stacks[u]
         /\ \A i \in 1 .. Len(stacks[t]) :
              stacks'[t][i] = IF i = Len(stacks[t]) THEN a ELSE stacks[t][i]
  <1>1. stacks[t] \in Seq(Act)
    BY DEF TypeOK
  <1>2. Len(stacks[t]) \in 1 .. Len(stacks[t])
    BY <1>1, EmptySeq, LenProperties
  <1>3. /\ [stacks[t] EXCEPT ![Len(stacks[t])] = a] \in Seq(Act)
        /\ Len([stacks[t] EXCEPT ![Len(stacks[t])] = a]) = Len(stacks[t])
        /\ \A j \in 1 .. Len(stacks[t]) :
             [stacks[t] EXCEPT ![Len(stacks[t])] = a][j] =
               IF j = Len(stacks[t]) THEN a ELSE stacks[t][j]
    BY <1>1, <1>2, ExceptSeq
  <1> QED
    BY <1>3 DEF TypeOK

(* The innermost activation of a thread in a handler is an activation.  *)
LEMMA TopAct ==
  ASSUME TypeOK, NEW t \in Threads, stacks[t] # <<>>
  PROVE  /\ Len(stacks[t]) \in 1 .. Len(stacks[t])
         /\ Top(t) \in Act
  <1>1. stacks[t] \in Seq(Act)
    BY DEF TypeOK
  <1>2. Len(stacks[t]) \in 1 .. Len(stacks[t])
    BY <1>1, EmptySeq, LenProperties
  <1> QED
    BY <1>1, <1>2, ElementOfSeq DEF Top

(* What Armed says of the innermost activation. *)
LEMMA TopArmed ==
  ASSUME TypeOK, Armed, status = "running", NEW t \in Threads, stacks[t] # <<>>
  PROVE  /\ Top(t).pc # "reset" => disp["ALRM"] = "default"
         /\ Top(t).pc \notin {"reset", "alarm"} => alarmOn
  BY TopAct DEF Armed, Top

(* Goto(t, p) replaces the innermost activation by itself at p. *)
LEMMA GotoForm ==
  ASSUME TypeOK, NEW t \in Threads, stacks[t] # <<>>, NEW p \in PCs, Goto(t, p)
  PROVE  /\ stacks' = [stacks EXCEPT ![t] = [stacks[t] EXCEPT ![Len(stacks[t])] =
                                                [Top(t) EXCEPT !.pc = p]]]
         /\ [Top(t) EXCEPT !.pc = p] \in Act
         /\ [Top(t) EXCEPT !.pc = p].pc = p
  <1>1. Top(t) \in Act
    BY TopAct
  <1> QED
    BY <1>1 DEF Goto, Top, Act

(* A step that replaces the innermost activation of t by a keeps Armed    *)
(* when SIGALRM stays at its default and a pending alarm stays pending,    *)
(* and a satisfies the condition for its own program point.               *)
LEMMA ArmedTop ==
  ASSUME TypeOK, Armed, NEW t \in Threads, stacks[t] # <<>>, NEW a \in Act,
         stacks' = [stacks EXCEPT ![t] = [stacks[t] EXCEPT ![Len(stacks[t])] = a]],
         status' = "running" => status = "running",
         disp["ALRM"] = "default" => disp'["ALRM"] = "default",
         alarmOn => alarmOn',
         a.pc # "reset" => disp'["ALRM"] = "default",
         a.pc \notin {"reset", "alarm"} => alarmOn'
  PROVE  Armed'
  <1> SUFFICES ASSUME status' = "running", NEW u \in Threads,
                      NEW i \in 1 .. Len(stacks'[u])
               PROVE  /\ stacks'[u][i].pc # "reset" => disp'["ALRM"] = "default"
                      /\ stacks'[u][i].pc \notin {"reset", "alarm"} => alarmOn'
    BY DEF Armed
  <1>1. /\ Len(stacks'[t]) = Len(stacks[t])
        /\ \A v \in Threads \ {t} : stacks'[v] = stacks[v]
        /\ \A j \in 1 .. Len(stacks[t]) :
             stacks'[t][j] = IF j = Len(stacks[t]) THEN a ELSE stacks[t][j]
    BY NewTop
  <1>2. status = "running"
    OBVIOUS
  <1>3. CASE u = t /\ i = Len(stacks[t])
    BY <1>1, <1>3
  <1>4. CASE ~(u = t /\ i = Len(stacks[t]))
    <2>1. i \in 1 .. Len(stacks[u]) /\ stacks'[u][i] = stacks[u][i]
      BY <1>1, <1>4
    <2> QED
      BY <2>1, <1>2 DEF Armed
  <1> QED
    BY <1>3, <1>4
(* A step of the handler's own code on thread t that only moves it to p.  *)
LEMMA GotoArmed ==
  ASSUME TypeOK, Armed, NEW t \in Threads, stacks[t] # <<>>, NEW p \in PCs,
         Goto(t, p),
         status' = "running" => status = "running",
         disp["ALRM"] = "default" => disp'["ALRM"] = "default",
         alarmOn => alarmOn',
         p # "reset" => disp'["ALRM"] = "default",
         p \notin {"reset", "alarm"} => alarmOn'
  PROVE  Armed' /\ stacks' \in [Threads -> Seq(Act)]
  <1>1. /\ stacks' = [stacks EXCEPT ![t] = [stacks[t] EXCEPT ![Len(stacks[t])] =
                                                [Top(t) EXCEPT !.pc = p]]]
        /\ [Top(t) EXCEPT !.pc = p] \in Act
        /\ [Top(t) EXCEPT !.pc = p].pc = p
    BY GotoForm
  <1>2. Armed'
    BY <1>1, ArmedTop
  <1> QED
    BY <1>1, <1>2, NewTop

LEMMA InvStep == Tracer /\ Inv /\ [Next]_vars => Inv'
  <1> SUFFICES ASSUME Tracer, TypeOK, Armed, [Next]_vars PROVE TypeOK' /\ Armed'
    BY DEF Inv
  <1> USE CrashAssumption DEF Tracer
  (* A step that ends the process keeps Armed vacuously. *)
  <1>e. status' # "running" => Armed'
    BY DEF Armed
  <1>1. ASSUME NEW t \in Threads, NEW s \in Registered, Fault(t, s) PROVE TypeOK' /\ Armed'
    <2>x. /\ faults' = faults + 1
          /\ UNCHANGED <<disp, alarmOn>>
      BY <1>1 DEF Fault
    <2>1. CASE disp[s] = "crash" /\ s \notin Blocked(t)
      <3> DEFINE new == [sig |-> s, pc |-> "reset", stuck |-> FALSE]
      <3>1. /\ stacks' = [stacks EXCEPT ![t] = Append(stacks[t], new)]
            /\ status' = status
        BY <1>1, <2>1 DEF Fault
      <3>2. new \in Act /\ stacks[t] \in Seq(Act)
        BY DEF Act, PCs, TypeOK
      <3>3. /\ Append(stacks[t], new) \in Seq(Act)
            /\ Len(Append(stacks[t], new)) = Len(stacks[t]) + 1
            /\ \A i \in 1 .. Len(stacks[t]) : Append(stacks[t], new)[i] = stacks[t][i]
            /\ Append(stacks[t], new)[Len(stacks[t]) + 1] = new
        BY <3>2, AppendProperties
      <3>4. TypeOK'
        BY <2>x, <3>1, <3>3 DEF TypeOK
      <3>5. Armed'
        <4> SUFFICES ASSUME status' = "running", NEW u \in Threads,
                            NEW i \in 1 .. Len(stacks'[u])
                     PROVE  /\ stacks'[u][i].pc # "reset" => disp'["ALRM"] = "default"
                            /\ stacks'[u][i].pc \notin {"reset", "alarm"} => alarmOn'
          BY DEF Armed
        <4>1. CASE u = t /\ i = Len(stacks[t]) + 1
          BY <4>1, <3>1, <3>3, <3>2 DEF TypeOK
        <4>2. CASE ~(u = t /\ i = Len(stacks[t]) + 1)
          <5>1. i \in 1 .. Len(stacks[u]) /\ stacks'[u][i] = stacks[u][i]
            BY <4>2, <3>1, <3>3, <3>2 DEF TypeOK
          <5> QED
            BY <5>1, <3>1, <2>x DEF Armed
        <4> QED
          BY <4>1, <4>2
      <3> QED
        BY <3>4, <3>5
    <2>2. CASE ~(disp[s] = "crash" /\ s \notin Blocked(t))
      <3>1. status' = "signalled" /\ UNCHANGED stacks
        BY <1>1, <2>2 DEF Fault, Die
      <3> QED
        BY <3>1, <2>x, <1>e DEF TypeOK
    <2> QED
      BY <2>1, <2>2
  <1>2. ASSUME NEW t \in Threads, Reset(t) PROVE TypeOK' /\ Armed'
    <2>x. /\ Runs(t) /\ Goto(t, "alarm")
          /\ disp' = [g \in Signals |->
                        IF g = Top(t).sig \/ g \in {"ALRM", "ABRT", "SEGV"}
                        THEN "default" ELSE disp[g]]
          /\ UNCHANGED <<alarmOn, status, faults>>
      BY <1>2 DEF Reset
    <2>1. disp' \in [Signals -> {"crash", "other", "default"}] /\ disp'["ALRM"] = "default"
      BY <2>x DEF TypeOK, Signals
    <2>2. Armed' /\ stacks' \in [Threads -> Seq(Act)]
      BY <2>x, <2>1, GotoArmed DEF Runs, PCs
    <2> QED
      BY <2>x, <2>1, <2>2 DEF TypeOK
  <1>3. ASSUME NEW t \in Threads, ArmAlarm(t) PROVE TypeOK' /\ Armed'
    <2>x. /\ Runs(t) /\ Top(t).pc = "alarm" /\ Goto(t, "banner")
          /\ alarmOn' = TRUE
          /\ UNCHANGED <<disp, status, faults>>
      BY <1>3 DEF ArmAlarm
    <2>1. disp["ALRM"] = "default"
      BY <2>x, TopArmed DEF Runs
    <2>2. Armed' /\ stacks' \in [Threads -> Seq(Act)]
      BY <2>x, <2>1, GotoArmed DEF Runs, PCs
    <2> QED
      BY <2>x, <2>2 DEF TypeOK
  (* A report step from one point past the alarm to the next. *)
  <1>4. ASSUME NEW t \in Threads, NEW p \in PCs \ {"reset", "alarm"},
               Runs(t), Top(t).pc \notin {"reset", "alarm"}, Goto(t, p),
               UNCHANGED <<disp, alarmOn, status, faults>>
        PROVE  TypeOK' /\ Armed'
    <2>1. disp["ALRM"] = "default" /\ alarmOn
      BY <1>4, TopArmed DEF Runs
    <2>2. Armed' /\ stacks' \in [Threads -> Seq(Act)]
      BY <1>4, <2>1, GotoArmed DEF Runs
    <2> QED
      BY <1>4, <2>2 DEF TypeOK
  <1>5. ASSUME NEW t \in Threads,
               Banner(t) \/ CTrace(t) \/ PlTrace(t) \/ Hooks(t)
        PROVE  TypeOK' /\ Armed'
    <2>1. CASE Banner(t)
      BY <2>1, <1>4 DEF Banner, PCs
    <2>2. CASE CTrace(t)
      BY <2>2, <1>4 DEF CTrace, PCs
    <2>3. CASE PlTrace(t)
      BY <2>3, <1>4 DEF PlTrace, PCs
    <2>4. CASE Hooks(t)
      BY <2>4, <1>4 DEF Hooks, PCs
    <2> QED
      BY <1>5, <2>1, <2>2, <2>3, <2>4
  <1>6. ASSUME NEW t \in Threads, Kill(t) PROVE TypeOK' /\ Armed'
    <2>1. status' # "running" /\ UNCHANGED <<stacks, disp, alarmOn, faults>>
      BY <1>6 DEF Kill, Die
    <2> QED
      BY <2>1, <1>e DEF TypeOK
  <1>7. ASSUME NEW t \in Threads, Block(t) PROVE TypeOK' /\ Armed'
    <2>x. /\ Runs(t) /\ Top(t).pc \in Unsafe
          /\ stacks' = [stacks EXCEPT ![t] = [stacks[t] EXCEPT ![Len(stacks[t])] =
                                                [Top(t) EXCEPT !.stuck = TRUE]]]
          /\ UNCHANGED <<disp, alarmOn, status, faults>>
      BY <1>7 DEF Block, Top
    <2>1. [Top(t) EXCEPT !.stuck = TRUE] \in Act
          /\ [Top(t) EXCEPT !.stuck = TRUE].pc = Top(t).pc
      BY <2>x, TopAct DEF Runs, Act
    <2>2. disp["ALRM"] = "default" /\ alarmOn
      BY <2>x, TopArmed DEF Runs, Unsafe
    <2>3. Armed'
      BY <2>x, <2>1, <2>2, ArmedTop DEF Runs, Unsafe
    <2>4. stacks' \in [Threads -> Seq(Act)]
      BY <2>x, <2>1, NewTop DEF Runs
    <2> QED
      BY <2>x, <2>3, <2>4 DEF TypeOK
  <1>8. CASE AlarmFire
    <2>x. /\ status = "running" /\ alarmOn' = FALSE
          /\ UNCHANGED <<stacks, disp, faults>>
      BY <1>8 DEF AlarmFire
    <2>1. CASE disp["ALRM"] = "default"
      <3>1. status' # "running"
        BY <1>8, <2>1 DEF AlarmFire, Die
      <3> QED
        BY <3>1, <2>x, <1>e DEF TypeOK
    <2>2. CASE disp["ALRM"] # "default"
      <3>1. status' = status
        BY <1>8, <2>2 DEF AlarmFire
      <3>2. Armed'
        BY <2>x, <2>2, <3>1 DEF Armed
      <3> QED
        BY <3>2, <2>x DEF TypeOK
    <2> QED
      BY <2>1, <2>2
  <1>9. CASE UNCHANGED vars
    BY <1>9 DEF vars, TypeOK, Armed
  <1> QED
    BY <1>1, <1>2, <1>3, <1>5, <1>6, <1>7, <1>8, <1>9 DEF Next, Progress

(* In the build with a C-stack tracer and alarm(), whenever a thread's     *)
(* sigCrashHandler() is at a step that can block, SIGALRM has its default *)
(* action and an alarm is pending: signal(SIGALRM, SIG_DFL) and alarm(10) *)
(* come before the first such step (lines 925, 933), for any number of    *)
(* threads and faults.                                                     *)
THEOREM DeadlineArmedHolds == Tracer => (Spec => []DeadlineArmed)
  <1> SUFFICES ASSUME Tracer PROVE Spec => []DeadlineArmed
    OBVIOUS
  <1>1. Inv => DeadlineArmed
    <2> SUFFICES ASSUME Inv, NEW t \in Threads, status = "running",
                        stacks[t] # <<>>, Top(t).pc \in Unsafe
                 PROVE  alarmOn /\ disp["ALRM"] = "default"
      BY DEF DeadlineArmed
    <2> QED
      BY TopArmed DEF Inv, Unsafe
  <1>2. Inv /\ [Next]_vars => Inv'
    BY InvStep
  <1> QED
    BY <1>1, <1>2, InvInit, PTL DEF Spec

=============================================================================
