-------------------------------- MODULE Fpu --------------------------------
(***************************************************************************)
(* Lazy handling of the FPU (kernel/infrastructure/i686/fpu.c).  The state *)
(* is a record: regs is the content of the FPU registers, ts the TS flag   *)
(* of CR0, and for every thread area is its save area and uses and saved   *)
(* are THREAD_FLAG_USES_FPU and THREAD_FLAG_FPU_STATE_SAVED.  fault is set *)
(* when the kernel executes an FPU instruction that it cannot recover      *)
(* from.  FPU states are opaque values; fnsave resets the registers, and   *)
(* an FPU instruction raises #NM when TS is set.                           *)
(***************************************************************************)

CONSTANTS Threads,
          InitFpu       \* the state prepare_fpu_area writes

(* The CPUs that differ: with fxsave or only fnsave, and with or without   *)
(* the workaround for CVE-2018-3665.                                       *)
CpuTypes == [fxsr : BOOLEAN, cve : BOOLEAN]

(* initialize_fpu: TS is cleared; nobody uses the FPU.                     *)
BootFpu ==
    [regs |-> InitFpu, ts |-> FALSE, fault |-> FALSE,
     area |-> [t \in Threads |-> InitFpu],
     uses |-> [t \in Threads |-> FALSE],
     saved |-> [t \in Threads |-> FALSE]]

(* machine_prepare_thread clears the flags and calls prepare_fpu_area.     *)
PrepareFpu(f, t) ==
    [f EXCEPT !.area[t] = InitFpu, !.uses[t] = FALSE, !.saved[t] = FALSE]

(* use_fpu, for a thread that is not marked yet: the area is marked as     *)
(* saved so that it is loaded on the way back to user space.               *)
UseFpu(f, t) ==
    [f EXCEPT !.uses[t] = TRUE, !.saved[t] = TRUE]

(* What do_save_state leaves in the registers.  With TS set it raises #NM  *)
(* for a thread that is marked already, which panics.                      *)
AfterSave(f, cpu) ==
    [f EXCEPT !.regs = IF cpu.fxsr THEN @ ELSE InitFpu, !.fault = @ \/ f.ts]

(* A plausible mistake: the mitigation's flag is set before it is tested.  *)
SaveFpuStateLate(f, t, cpu) ==
    LET f1 == IF cpu.cve THEN [f EXCEPT !.saved[t] = TRUE] ELSE f
    IN  IF f1.saved[t] \/ ~ f.uses[t] THEN f1
        ELSE [AfterSave(f1, cpu) EXCEPT !.area[t] = f.regs, !.saved[t] = TRUE]

(* save_fpu_state, before the switch to another thread.                    *)
SaveFpuState(f, t, cpu) ==
    LET f1 == IF cpu.cve THEN [f EXCEPT !.saved[t] = TRUE] ELSE f
    IN  IF f.saved[t] \/ ~ f.uses[t] THEN f1
        ELSE [AfterSave(f1, cpu) EXCEPT !.area[t] = f.regs, !.saved[t] = TRUE]

(* restore_fpu_state, on every way back to user space.  For a thread that  *)
(* does not use the FPU but has its state marked as saved, do_restore_state*)
(* runs with TS set: the #NM it raises in the kernel marks the thread as   *)
(* using the FPU and clears TS, and the instruction is executed again.     *)
RestoreFpuState(f, t) ==
    IF f.saved[t]
      THEN [f EXCEPT !.regs = f.area[t], !.saved[t] = FALSE,
                     !.uses[t] = TRUE, !.ts = FALSE]
      ELSE [f EXCEPT !.ts = ~ f.uses[t]]

-----------------------------------------------------------------------------
(* save_fpu_fpregs_for_signal: the state put on the user stack, and the    *)
(* FPU afterwards.                                                         *)
FpregsForSignal(f, t) ==
    IF f.saved[t] \/ ~ f.uses[t] THEN f.area[t] ELSE f.regs

AfterFpregsForSignal(f, t, cpu) ==
    IF f.saved[t] \/ ~ f.uses[t] THEN f ELSE AfterSave(f, cpu)

(* restore_fpu_fpregs_for_signal, with the state read from the user stack. *)
RestoreFpregsForSignal(f, t, fpregs) ==
    IF ~ f.uses[t] THEN [f EXCEPT !.area[t] = fpregs]
    ELSE [f EXCEPT !.regs = fpregs, !.saved[t] = FALSE, !.fault = @ \/ f.ts]
=============================================================================
