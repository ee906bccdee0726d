--------------------------------- MODULE MCSMU ---------------------------------
(* Mappings that end below all registers, between the interrupt block and the *)
(* mailbox, within the mailbox, and above all.                                *)
EXTENDS SMU

Low == {"RCC_STRAP0", "IH_CHICKEN", "IH_CLK_CTRL"}
MCMappings == {{}, Low \cup {"MC_VM_FB_OFFSET"},
               Low \cup {"MC_VM_FB_OFFSET", "C2PMSG_66"}, Register}
===============================================================================
