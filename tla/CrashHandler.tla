---------------------------- MODULE CrashHandler ----------------------------
(***************************************************************************)
(* sigCrashHandler() of src/src/os/pl-cstack.c in a process of several    *)
(* threads: the handler that initBackTrace() installs for the fatal        *)
(* signals (lines 505-523), in the build with a C-stack tracer (lines      *)
(* 914-975, Build = "btrace") and in the fallback build (lines 1059-1085,  *)
(* Build = "fallback"), whose initBackTrace() is empty: there the handler  *)
(* is installed by code outside this file, assumed here for the same       *)
(* signals.                                                                *)
(*                                                                         *)
(* A signal handler preempts the code it interrupts, so the activations    *)
(* of the handler on one thread form a stack; only the innermost one       *)
(* runs.  Threads crash independently and run their handlers at once;      *)
(* the signal dispositions and the alarm timer are the process's.  While   *)
(* an activation for signal s runs, s is blocked in its thread (signal()   *)
(* installs the handler without SA_NODEFER), and a synchronous fault of a  *)
(* blocked signal is fatal: the kernel applies the default action.  Every  *)
(* step that formats output, walks a stack or runs hooks can fault (the    *)
(* state is corrupt) or block for ever (on a lock the interrupted code     *)
(* holds); those are the choices Fault and Block.  The alarm timer is the  *)
(* only thing that can end a blocked handler.                              *)
(***************************************************************************)
EXTENDS Integers, Sequences, FiniteSets

CONSTANTS
  Build,      \* "btrace" (BTRACE_DONE) or "fallback"
  HaveAlarm,  \* HAVE_ALARM
  HaveKill,   \* HAVE_KILL (and HAVE_GETPID in the fallback)
  MaxFaults,  \* bound on the number of faults in a behaviour
  Threads     \* the threads that can fault

Registered == {"SEGV", "ILL", "BUS", "FPE", "SYS"}   \* initBackTrace()
Signals == Registered \cup {"ALRM", "ABRT"}

ASSUME CrashAssumption ==
  /\ Build \in {"btrace", "fallback"}
  /\ HaveAlarm \in BOOLEAN /\ HaveKill \in BOOLEAN
  /\ MaxFaults \in Nat
  /\ Threads # {}

\* Linux signal numbers, for the exit status 128 + sig.
SigNum == [s \in Signals |->
             CASE s = "ILL" -> 4 [] s = "ABRT" -> 6 [] s = "BUS" -> 7
               [] s = "FPE" -> 8 [] s = "SEGV" -> 11 [] s = "ALRM" -> 14
               [] s = "SYS" -> 31]

\* Where an activation is: the statement it executes next.
PCs == {"reset", "alarm", "banner", "ctrace", "pltrace", "hooks", "kill"}

\* The steps that can fault or block: all but the two system calls.
Unsafe == {"banner", "ctrace", "pltrace", "hooks"}

VARIABLES
  stacks,    \* stacks[t]: the handler activations of thread t, outermost
             \* first: [sig, pc, stuck]
  disp,      \* disp[s]: "crash" (sigCrashHandler), "other" or "default";
             \* dispositions are process-wide
  alarmOn,   \* an alarm() is pending (one timer per process)
  status,    \* "running", or how the process ended
  termSig,   \* the signal that ended the process ("none" while running)
  hookRuns,  \* the signals and statuses run_on_halt() has been called with
  faults     \* faults so far

vars == <<stacks, disp, alarmOn, status, termSig, hookRuns, faults>>

Top(t) == stacks[t][Len(stacks[t])]

\* The signals thread t blocks now: those of its running activations.
Blocked(t) == {stacks[t][i].sig : i \in 1 .. Len(stacks[t])}

\* The state after the innermost activation of thread t moves on to pc.
Goto(t, pc) == stacks' = [stacks EXCEPT ![t][Len(stacks[t])].pc = pc]

\* The process ends, killed by signal s.
Die(s) == /\ status' = "signalled" /\ termSig' = s

\* Initially the handler is installed for the registered signals; SIGALRM
\* and SIGABRT have whatever disposition the rest of the program gave them.
Init ==
  /\ stacks = [t \in Threads |-> <<>>]
  /\ disp \in {d \in [Signals -> {"crash", "other", "default"}] :
                 \A s \in Signals : d[s] = "crash" <=> s \in Registered}
  /\ alarmOn = FALSE
  /\ status = "running"
  /\ termSig = "none"
  /\ hookRuns = <<>>
  /\ faults = 0

(* A fault of signal s on thread t, in the program or in a step of its    *)
(* handler that touches memory: the handler is entered when s is caught   *)
(* and not blocked in t; otherwise the default action ends the process.   *)
(* Other threads go on running meanwhile.                                 *)
Fault(t, s) ==
  /\ status = "running"
  /\ faults < MaxFaults
  /\ stacks[t] # <<>> => (~Top(t).stuck /\ Top(t).pc \in Unsafe)
  /\ faults' = faults + 1
  /\ IF disp[s] = "crash" /\ s \notin Blocked(t)
     THEN /\ stacks' = [stacks EXCEPT ![t] =
                          Append(@, [sig |-> s, pc |-> "reset", stuck |-> FALSE])]
          /\ UNCHANGED <<status, termSig>>
     ELSE /\ Die(s) /\ UNCHANGED stacks
  /\ UNCHANGED <<disp, alarmOn, hookRuns>>

\* The innermost activation of thread t can take a step.
Runs(t) == status = "running" /\ stacks[t] # <<>> /\ ~Top(t).stuck

\* Mutant: the handler does not reset SIGALRM.
ResetNoAlrm(t) ==
  /\ Runs(t) /\ Top(t).pc = "reset"
  /\ disp' = [s \in Signals |-> IF s \in {Top(t).sig, "ABRT", "SEGV"}
                                THEN "default" ELSE disp[s]]
  /\ Goto(t, "alarm")
  /\ UNCHANGED <<alarmOn, status, termSig, hookRuns, faults>>

(* signal(sig, SIG_DFL) and, in the btrace build, the same for SIGALRM,   *)
(* SIGABRT and SIGSEGV (lines 922-931, 1067).                             *)
Reset(t) ==
  /\ Runs(t) /\ Top(t).pc = "reset"
  /\ disp' = [s \in Signals |->
                IF s = Top(t).sig \/ (Build = "btrace" /\ s \in {"ALRM", "ABRT", "SEGV"})
                THEN "default" ELSE disp[s]]
  /\ Goto(t, IF Build = "btrace" THEN "alarm" ELSE "banner")
  /\ UNCHANGED <<alarmOn, status, termSig, hookRuns, faults>>

\* Mutant: the alarm is not armed.
ArmAlarmSkipped(t) ==
  /\ Runs(t) /\ Top(t).pc = "alarm"
  /\ Goto(t, "banner")
  /\ UNCHANGED <<disp, alarmOn, status, termSig, hookRuns, faults>>

(* alarm(10): (re)arm the process's one deadline (line 933); a second     *)
(* crashing thread restarts the first one's.                              *)
ArmAlarm(t) ==
  /\ Runs(t) /\ Top(t).pc = "alarm"
  /\ alarmOn' = HaveAlarm
  /\ Goto(t, "banner")
  /\ UNCHANGED <<disp, status, termSig, hookRuns, faults>>

(* The banner "received fatal signal" (lines 936-945, 1068-1077). *)
Banner(t) ==
  /\ Runs(t) /\ Top(t).pc = "banner"
  /\ Goto(t, IF Build = "btrace" THEN "ctrace" ELSE "hooks")
  /\ UNCHANGED <<disp, alarmOn, status, termSig, hookRuns, faults>>

(* print_c_backtrace("crash") (line 946; modelled in BTraceStore). *)
CTrace(t) ==
  /\ Runs(t) /\ Top(t).pc = "ctrace"
  /\ Goto(t, "pltrace")
  /\ UNCHANGED <<disp, alarmOn, status, termSig, hookRuns, faults>>

(* "Prolog stack:" and PL_backtrace(25, PL_BT_SAFE) (lines 947-948). *)
PlTrace(t) ==
  /\ Runs(t) /\ Top(t).pc = "pltrace"
  /\ Goto(t, "hooks")
  /\ UNCHANGED <<disp, alarmOn, status, termSig, hookRuns, faults>>

(* run_on_halt(&GD->os.exit_hooks, 128+sig), or with status 4 in the      *)
(* fallback (lines 949-950, 1078).                                        *)
Hooks(t) ==
  /\ Runs(t) /\ Top(t).pc = "hooks"
  /\ hookRuns' = Append(hookRuns,
                        [sig |-> Top(t).sig,
                         code |-> IF Build = "btrace" THEN 128 + SigNum[Top(t).sig] ELSE 4])
  /\ Goto(t, "kill")
  /\ UNCHANGED <<disp, alarmOn, status, termSig, faults>>

(* kill(pid, sig) with pid the thread's id (the thread group on Linux),   *)
(* whose signal, now SIG_DFL, is taken with the default action by a       *)
(* thread that does not block it or once this handler returns; or         *)
(* abort(), which raises SIGABRT (lines 952-974, 1080-1084).              *)
Kill(t) ==
  /\ Runs(t) /\ Top(t).pc = "kill"
  /\ IF HaveKill THEN Die(Top(t).sig)
     ELSE /\ status' = "aborted" /\ termSig' = "ABRT"
  /\ UNCHANGED <<stacks, disp, alarmOn, hookRuns, faults>>

(* The innermost activation of t waits for ever in a step that takes a    *)
(* lock (one the interrupted code, or another crashing thread, holds).    *)
Block(t) ==
  /\ Runs(t) /\ Top(t).pc \in Unsafe
  /\ stacks' = [stacks EXCEPT ![t][Len(stacks[t])].stuck = TRUE]
  /\ UNCHANGED <<disp, alarmOn, status, termSig, hookRuns, faults>>

(* The alarm goes off: the default action of SIGALRM ends the process;    *)
(* a handler of the program's own returns, and the alarm is spent.        *)
AlarmFire ==
  /\ status = "running" /\ alarmOn
  /\ alarmOn' = FALSE
  /\ IF disp["ALRM"] = "default" THEN Die("ALRM") ELSE UNCHANGED <<status, termSig>>
  /\ UNCHANGED <<stacks, disp, hookRuns, faults>>

\* The steps the handler's own code takes on thread t.
Progress(t) ==
  Reset(t) \/ ArmAlarm(t) \/ Banner(t) \/ CTrace(t) \/ PlTrace(t) \/ Hooks(t) \/ Kill(t)

Next ==
  \/ \E t \in Threads, s \in Registered : Fault(t, s)
  \/ \E t \in Threads : Progress(t) \/ Block(t)
  \/ AlarmFire

(* Every thread that runs a handler is scheduled, and a pending alarm     *)
(* fires; faults and blocking are not forced.                             *)
Spec == Init /\ [][Next]_vars
        /\ \A t \in Threads : WF_vars(Progress(t))
        /\ WF_vars(AlarmFire)

-----------------------------------------------------------------------------

(* Whenever the handler can block, the deadline is armed and will kill:   *)
(* an alarm is pending and SIGALRM has its default action.  This is why   *)
(* sigCrashHandler() resets SIGALRM before alarm(10) (lines 925, 933).    *)
DeadlineArmed ==
  \A t \in Threads :
    (status = "running" /\ stacks[t] # <<>> /\ Top(t).pc \in Unsafe) =>
      alarmOn /\ disp["ALRM"] = "default"

(* Once the handler has been entered the process ends, whatever the       *)
(* report steps do (spec 4.3: both terminal states are final, and the     *)
(* deadline bounds reporting).                                            *)
Termination == (\E t \in Threads : stacks[t] # <<>>) ~> (status # "running")

(* The handler is never re-entered while it reports a fault (spec 7 (d):  *)
(* re-entry is prevented by resetting the dispositions first).            *)
NoReentry == \A t \in Threads : Len(stacks[t]) <= 1

(* The exit hooks run with status 128 + the signal number (spec 4.3       *)
(* step 5).                                                               *)
HookStatusConvention ==
  \A i \in 1 .. Len(hookRuns) : hookRuns[i].code = 128 + SigNum[hookRuns[i].sig]

=============================================================================
