-------------------------------- MODULE MCBoot --------------------------------
(* NootedDeck and another plugin, two console calls, and machines with one    *)
(* or two built-in candidates and up to three bridges with up to two devices. *)
EXTENDS Boot, TLC

CONSTANT Another

MCRequests ==
  (NootedDeck :> <<"kexts", "patcher", "patcher">>) @@ (Another :> <<"patcher", "kexts">>)

MCKernels == {19, 20, 25, 26}
MCSlots == 1..5

Dev(slot, vendor, family, id, pci, off) ==
  [slot |-> slot, vendor |-> vendor, family |-> family, id |-> id, pci |-> pci, off |-> off,
   service |-> pci]
Child(bridge, audio, devices) == [bridge |-> bridge, audio |-> audio, devices |-> devices]

Aerith(pci, off) == Dev(1, "AMD", "16", "163F", pci, off)
Sephiroth == Dev(1, "AMD", "16", "1640", TRUE, FALSE)
Listed == Dev(1, "AMD", "14", "1435", TRUE, FALSE)
OtherIGPU == Dev(1, "AMD", "16", "1681", TRUE, FALSE)
IntelGPU == Dev(1, "Intel", "59", "5917", TRUE, FALSE)
Card(slot, pci, off) == Dev(slot, "NVIDIA", "1F", "1F07", pci, off)

OnRoot(d) == Child(FALSE, "none", <<d>>)
Behind(d) == Child(TRUE, "AZAL", <<d>>)
CardAt(slot, pci, off) == Child(TRUE, "HDA", <<Card(slot, pci, off)>>)
TwoCards ==
  Child(TRUE, "none", <<Dev(4, "Intel", "56", "56A0", TRUE, FALSE), Dev(5, "AMD", "73", "73BF", TRUE, TRUE)>>)

MCMachines ==
  {<<OnRoot(d)>> : d \in {Aerith(TRUE, FALSE), Aerith(FALSE, FALSE), Listed, OtherIGPU, IntelGPU}}
  \cup {<<Behind(d)>> : d \in {Sephiroth, Aerith(TRUE, TRUE), Card(1, TRUE, FALSE)}}
  \cup {<<Child(bridge, "none", <<Dev(2, "Intel", "59", "5917", TRUE, FALSE)>>), Behind(d)>> :
          bridge \in BOOLEAN, d \in {Aerith(TRUE, FALSE), Listed}}
  \cup {<<Behind(Aerith(TRUE, FALSE)), Child(TRUE, "AZAL", <<d>>)>> :
          d \in {Card(2, TRUE, FALSE), Dev(2, "AMD", "16", "1681", TRUE, FALSE)}}
  \cup {<<CardAt(2, pci, off), Behind(Aerith(TRUE, FALSE)), CardAt(3, TRUE, last)>> :
          pci \in BOOLEAN, off \in BOOLEAN, last \in BOOLEAN}
  \cup {<<OnRoot(Sephiroth), CardAt(2, TRUE, off), TwoCards>> : off \in BOOLEAN}
===============================================================================
