--------------------------------- MODULE Host ---------------------------------
(***************************************************************************)
(* The kernel module (Kmod) and a program with root rights (Root) that     *)
(* opens it, as c64_load does, or skips that, as reg_read and reg_write do.*)
(***************************************************************************)
EXTENDS Kmod, Root

vars == <<kmodVars, rootVars>>

Init == KmodInit /\ RootInit

(* dsp_open needs the module; an open file keeps it from being removed.    *)
OpenAndInit ==
  /\ dsp_init_root
  /\ IF b_skip_dsp_open THEN UNCHANGED kmodVars ELSE fops__open

Close(action) ==
  /\ action
  /\ IF b_skip_dsp_open THEN UNCHANGED kmodVars ELSE fops__release

Access ==
  \/ \E r \in Registers : dsp_reg(r)
  \/ \E b \in Blocks : dsp_copy_to(b[1], b[2]) \/ Hold(b[1], b[2])
  \/ MapFast
  \/ CopyEnds
  \/ Unhold

Next ==
  \/ KmodStep /\ UNCHANGED rootVars
  \/ Access /\ UNCHANGED kmodVars
  \/ OpenAndInit
  \/ Close(dsp_exit_root)
  \/ Close(Exit)

Spec == Init /\ [][Next]_vars
=============================================================================
