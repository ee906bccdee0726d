---------------------------- MODULE MCKextListener ----------------------------
(* NootedDeck's KextInfos, cut down to four modules on three kexts: the      *)
(* framebuffer hotfixes and X6000FB share a kext.                            *)
EXTENDS KextListener

CONSTANTS framebuffer, hda, agdp

MCInfos == <<[kext |-> agdp, initHW |-> FALSE],
             [kext |-> framebuffer, initHW |-> FALSE],
             [kext |-> framebuffer, initHW |-> TRUE],
             [kext |-> hda, initHW |-> TRUE]>>
===============================================================================
