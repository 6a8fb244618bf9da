------------------------------- MODULE MCHost -------------------------------
(* Host with pages of 4 bytes: the DSP's memory is the pages 4 to 6, the   *)
(* registers are page 9, other memory page 12 and 13.                      *)
EXTENDS Host

MCFast == << [phys_addr |-> 16, size |-> 12], [phys_addr |-> 36, size |-> 4] >>

(* Whole fast regions and a block across their pages, whole pages outside. *)
MCBlocks == { <<16, 12>>, <<18, 7>>, <<36, 4>>, <<48, 8>> }

(* In a fast region, and elsewhere.                                        *)
MCRegisters == {38, 50}

MCFails ==
  [b \in Builds |->
     IF b = "platform" THEN {"driver"}
     ELSE {"chrdev", "cdev", "class", "device", "node", "idle", "ipc", "mlb", "irq", "enable"}]
=============================================================================
