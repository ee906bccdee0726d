------------------------------ MODULE VRAMProofs ------------------------------
(***************************************************************************)
(* Theorems about the search for the video BIOS and what follows it, for   *)
(* every image, every VFCT table of any length and every machine; then     *)
(* about Probe, which runs before it, for every set of machines, and how   *)
(* the composed machine Boot implements its two parts.                     *)
(***************************************************************************)
EXTENDS VRAM, Boot, TLAPS

(* What is mapped and enabled follows from where the search is, except in  *)
(* a panic, which stops the machine.                                       *)
HeldInv ==
  /\ pc = "vram look" => mapped = {"Bar0"} /\ romEnabled = FALSE
  /\ pc = "rom copy" => mapped = {"ROM"} /\ romEnabled = TRUE
  /\ pc = "rom check" => mapped = {} /\ romEnabled = TRUE
  /\ pc \notin {"vram look", "rom copy", "rom check", "panic"} => mapped = {} /\ romEnabled = FALSE

(* There is no data until a source has an ATOM BIOS, but for the copy of   *)
(* the ROM that is about to be checked.                                    *)
Before == {"property", "strict", "vram", "vram look", "rom", "rom copy", "relaxed"}
Kept ==
  \/ VBIOSData = Absent /\ ret = "failed"
  \/ VBIOSData = Absent /\ ret = "found" /\ property # Absent /\ CheckATOMBIOS(property)
  \/ \E s \in Sources, m \in AllImages :
       VBIOSData = [from |-> s, image |-> m] /\ CheckATOMBIOS(m) /\ ret = "found"
DataInv ==
  /\ pc \in Before => VBIOSData = Absent
  /\ pc = "rom check" => /\ rom.image \in Images
                         /\ VBIOSData = [from |-> "rom", image |-> rom.image]
  /\ pc = "rom copy" => rom.image \in Images
  /\ pc = "vram look" => vram \in Images
  /\ pc = "done" => Kept

(* What the machine offers does not change.                                *)
Offered ==
  /\ property \in Images \cup {Absent} /\ vfct \in Tables \cup {Absent}
  /\ vram \in Images \cup {Absent}
  /\ rom.image \in Images \cup {Absent}
  /\ Offset \in Nat \ {0}

IInv == HeldInv /\ DataInv /\ Offered

(* The search begins with nothing mapped and nothing copied.               *)
LEMMA InitIInv == VRAMInit => IInv
BY DEF VRAMInit, Init, Offered, HeldInv, DataInv, Before, IInv

(* The copies of the four checked sources are ATOM BIOSes of the machine.  *)
LEMMA FoundIsKept ==
  ASSUME NEW s \in Sources, NEW m \in AllImages, CheckATOMBIOS(m),
         VBIOSData' = [from |-> s, image |-> m], ret' = "found"
  PROVE  Kept'
BY Zenon DEF Kept

(* GetVBIOS with the override: the search ends or goes on to VFCT.         *)
LEMMA PropertyStep == ASSUME IInv, FromProperty PROVE IInv'
<1>1. Offered' /\ HeldInv'
  BY Zenon DEF FromProperty, IInv, Offered, HeldInv, fixed, Go, Return
<1>2. CASE property # Absent /\ CheckATOMBIOS(property)
  <2>1. pc' = "done" /\ ret' = "found" /\ property' = property
    BY <1>2, Zenon DEF FromProperty, Return, fixed
  <2>2. CASE VBIOSData' = Absent
    <3>1. Kept'
      BY <1>2, <2>1, <2>2, Zenon DEF Kept, CheckATOMBIOS
    <3> QED
      BY <1>1, <2>1, <3>1, Zenon DEF IInv, DataInv, Before
  <2>3. CASE VBIOSData' = [from |-> "property", image |-> property]
    <3>1. property \in AllImages
      BY <1>2, Zenon DEF IInv, Offered, AllImages
    <3>2. Kept'
      BY <1>2, <2>1, <2>3, <3>1, FoundIsKept, Zenon DEF Sources
    <3> QED
      BY <1>1, <2>1, <3>2 DEF IInv, DataInv, Before
  <2> QED
    BY <1>2, <2>2, <2>3, Zenon DEF FromProperty
<1>3. CASE ~(property # Absent /\ CheckATOMBIOS(property))
  <2>1. pc' = "strict" /\ VBIOSData' = Absent
    BY <1>3, Zenon DEF FromProperty, Go, IInv, DataInv, Before
  <2> QED
    BY <1>1, <2>1, Zenon DEF IInv, DataInv, Before
<1> QED
  BY <1>2, <1>3, Zenon

(* GetVBIOSFromVFCT, at either place: one image of the table, or the end.  *)
LEMMA VFCTStep == ASSUME IInv, FromVFCT PROVE IInv'
<1>1. HeldInv'
  BY Zenon DEF FromVFCT, AfterVFCT, Copy, Go, Return, Panic, IInv, HeldInv
<1>2. VBIOSData = Absent /\ pc \in {"strict", "relaxed"}
  BY Zenon DEF FromVFCT, IInv, DataInv, Before
<1>3. UNCHANGED fixed /\ Offset' \in Nat \ {0}
  BY DEF FromVFCT, IInv, Offered
<1>4. Offered'
  BY <1>3, Zenon DEF IInv, Offered, fixed
<1>5. CASE AfterVFCT /\ UNCHANGED VBIOSData
  <2>1. pc' = "vram" \/ (pc' = "done" /\ ret' = "failed")
    BY <1>5, Zenon DEF AfterVFCT, Go, Return
  <2>2. DataInv'
    BY <1>2, <1>5, <2>1, Zenon DEF DataInv, Kept, Before
  <2> QED
    BY <1>1, <1>4, <2>2, Zenon DEF IInv
<1>6. CASE UNCHANGED <<pc, ret, VBIOSData>>
  <2>1. DataInv'
    BY <1>2, <1>6, Zenon DEF DataInv, Before
  <2> QED
    BY <1>1, <1>4, <2>1 DEF IInv
<1>7. CASE /\ ~(vfct = Absent \/ Offset > Len(vfct)) /\ CheckATOMBIOS(vfct[Offset].image)
           /\ Copy(pc, vfct[Offset].image, Return("found"))
  <2>1. vfct[Offset].image \in AllImages
    BY <1>7 DEF IInv, Offered, AllImages
  <2>2. CASE VBIOSData' = [from |-> pc, image |-> vfct[Offset].image] /\ Return("found")
    <3>1. pc' = "done" /\ ret' = "found"
      BY <2>2, Zenon DEF Return
    <3>2. Kept'
      BY <1>2, <1>7, <2>1, <2>2, <3>1, FoundIsKept, Zenon DEF Sources
    <3>3. DataInv'
      BY <3>1, <3>2, Zenon DEF DataInv, Before
    <3> QED
      BY <1>1, <1>4, <3>3 DEF IInv
  <2>3. CASE Panic
    BY <1>1, <1>4, <2>3, Zenon DEF IInv, Panic, DataInv, Before
  <2> QED
    BY <1>7, <2>2, <2>3, Zenon DEF Copy
<1> QED
  BY <1>5, <1>6, <1>7, Zenon DEF FromVFCT

(* GetVBIOSFromVRAM maps the frame buffer only if it is there.             *)
LEMMA MapStep == ASSUME IInv, MapFramebuffer PROVE IInv'
<1>1. Offered' /\ VBIOSData' = Absent
  BY Zenon DEF MapFramebuffer, IInv, Offered, DataInv, Before, fixed
<1>2. CASE vram = Absent
  BY <1>1, <1>2, Zenon DEF MapFramebuffer, Go, IInv, HeldInv, DataInv, Before
<1>3. CASE vram # Absent
  <2>1. pc' = "vram look" /\ mapped' = {"Bar0"} /\ romEnabled' = FALSE /\ vram' \in Images
    BY <1>3, Zenon DEF MapFramebuffer, Go, IInv, HeldInv, Offered, fixed
  <2> QED
    BY <1>1, <2>1, Zenon DEF IInv, HeldInv, DataInv, Before
<1> QED
  BY <1>2, <1>3, Zenon

(* It unmaps it on every path but the panic.                               *)
LEMMA VRAMStep == ASSUME IInv, FromVRAM PROVE IInv'
<1>1. Offered'
  BY Zenon DEF FromVRAM, IInv, Offered, fixed
<1>2. /\ VBIOSData = Absent /\ vram \in Images /\ mapped \ {"Bar0"} = {} /\ romEnabled' = FALSE
  BY Zenon DEF FromVRAM, IInv, DataInv, HeldInv, Before
<1>3. CASE /\ CheckATOMBIOS(vram) /\ VBIOSData' = [from |-> "vram", image |-> vram]
           /\ Return("found") /\ mapped' = mapped \ {"Bar0"}
  <2>1. pc' = "done" /\ ret' = "found"
    BY <1>3, Zenon DEF Return
  <2>2. Kept'
    BY <1>2, <1>3, <2>1, FoundIsKept, Zenon DEF Sources, AllImages
  <2> QED
    BY <1>1, <1>2, <1>3, <2>1, <2>2, Zenon DEF IInv, DataInv, HeldInv, Before
<1>4. CASE Panic
  BY <1>1, <1>4, Zenon DEF Panic, IInv, DataInv, HeldInv, Before
<1>5. CASE Go("rom") /\ mapped' = mapped \ {"Bar0"} /\ UNCHANGED VBIOSData
  BY <1>1, <1>2, <1>5, Zenon DEF Go, IInv, DataInv, HeldInv, Before
<1> QED
  BY <1>3, <1>4, <1>5, Zenon DEF FromVRAM

(* GetVBIOSFromExpansionROM enables and maps the ROM only if it is there.  *)
LEMMA EnableStep == ASSUME IInv, EnableROM PROVE IInv'
<1>1. Offered' /\ VBIOSData' = Absent
  BY Zenon DEF EnableROM, IInv, Offered, DataInv, Before, fixed
<1>2. CASE ~rom.base \/ rom.image = Absent
  BY <1>1, <1>2, Zenon DEF EnableROM, Go, IInv, HeldInv, DataInv, Before
<1>3. CASE ~(~rom.base \/ rom.image = Absent)
  <2>1. pc' = "rom copy" /\ mapped' = {"ROM"} /\ romEnabled' = TRUE /\ rom'.image \in Images
    BY <1>3, Zenon DEF EnableROM, Go, IInv, HeldInv, Offered, fixed
  <2> QED
    BY <1>1, <2>1, Zenon DEF IInv, HeldInv, DataInv, Before
<1> QED
  BY <1>2, <1>3, Zenon

(* It unmaps the ROM once it is copied ...                                 *)
LEMMA CopyStep == ASSUME IInv, CopyROM PROVE IInv'
<1>1. Offered'
  BY Zenon DEF CopyROM, IInv, Offered, fixed
<1>2. CASE /\ VBIOSData' = [from |-> "rom", image |-> rom.image]
           /\ Go("rom check") /\ mapped' = mapped \ {"ROM"}
  <2>1. pc' = "rom check" /\ mapped' = {} /\ romEnabled' = TRUE /\ rom' = rom /\ rom.image \in Images
    BY <1>2, Zenon DEF CopyROM, Go, IInv, HeldInv, DataInv, fixed
  <2> QED
    BY <1>1, <1>2, <2>1, Zenon DEF IInv, HeldInv, DataInv, Before
<1>3. CASE Panic
  BY <1>1, <1>3 DEF Panic, IInv, HeldInv, DataInv, Before
<1> QED
  BY <1>2, <1>3, Zenon DEF CopyROM

(* ... and disables it, keeping the copy only if it is an ATOM BIOS.       *)
LEMMA CheckStep == ASSUME IInv, CheckROM PROVE IInv'
<1>1. Offered'
  BY Zenon DEF CheckROM, IInv, Offered, fixed
<1>2. /\ rom.image \in AllImages /\ VBIOSData = [from |-> "rom", image |-> rom.image]
      /\ VBIOSData.image = rom.image /\ mapped' = {} /\ romEnabled' = FALSE
  <2>1. pc = "rom check" /\ mapped' = mapped /\ romEnabled' = FALSE
    BY Zenon DEF CheckROM
  <2>2. rom.image \in Images /\ VBIOSData = [from |-> "rom", image |-> rom.image]
    BY <2>1, Zenon DEF IInv, DataInv
  <2>3. rom.image \in AllImages
    BY <2>2, Zenon DEF AllImages
  <2>4. VBIOSData.image = rom.image
    BY <2>2, Zenon
  <2> QED
    BY <2>1, <2>2, <2>3, Zenon DEF IInv, HeldInv
<1>3. CASE CheckATOMBIOS(VBIOSData.image)
  <2>1. pc' = "done" /\ ret' = "found" /\ VBIOSData' = VBIOSData
    BY <1>3, Zenon DEF CheckROM, Return
  <2>2. Kept'
    BY <1>2, <1>3, <2>1, FoundIsKept, Zenon DEF Sources
  <2> QED
    BY <1>1, <1>2, <2>1, <2>2, Zenon DEF IInv, HeldInv, DataInv, Before
<1>4. CASE ~CheckATOMBIOS(VBIOSData.image)
  <2>1. pc' = "relaxed" /\ VBIOSData' = Absent
    BY <1>4, Zenon DEF CheckROM, Go
  <2> QED
    BY <1>1, <1>2, <2>1, Zenon DEF IInv, HeldInv, DataInv, Before
<1> QED
  BY <1>3, <1>4, Zenon

(* The hooks after the search change none of it.                           *)
LEMMA AfterStep ==
  ASSUME IInv, PopulateVRAMInfo \/ StartReserving \/ MapSubrange \/ Finished \/ Faulted
               \/ UNCHANGED <<vars, vramVars>>
  PROVE  IInv'
<1>1. UNCHANGED <<fixed, Offset, VBIOSData, mapped, romEnabled, ret>>
  BY Zenon DEF PopulateVRAMInfo, StartReserving, MapSubrange, Finished, Faulted, vars
<1>2. pc' = pc \/ (pc \in {"property", "done"} /\ pc' = "fault")
  BY Zenon DEF PopulateVRAMInfo, StartReserving, MapSubrange, Finished, Faulted, vars
<1>3. Offered' /\ HeldInv'
  BY <1>1, <1>2 DEF IInv, Offered, HeldInv, fixed
<1>4. Kept' <=> Kept
  BY <1>1, Zenon DEF Kept, fixed, CheckATOMBIOS
<1> QED
  BY <1>1, <1>2, <1>3, <1>4, Zenon DEF IInv, DataInv, Before, fixed

(* All steps keep the invariant.                                           *)
LEMMA IInvStep == IInv /\ [VRAMNext]_<<vars, vramVars>> => IInv'
BY PropertyStep, VFCTStep, MapStep, VRAMStep, EnableStep, CopyStep, CheckStep, AfterStep, Zenon
   DEF VRAMNext, Searching, Next

(* GetVBIOS gives back every mapping and the ROM's enable bit on each path *)
(* that does not panic, for any machine and any table.                     *)
THEOREM SourcesAreReturned == VRAMSpec => []NothingHeld
<1>1. IInv => NothingHeld
  BY Zenon DEF IInv, HeldInv, NothingHeld
<1> QED
  BY <1>1, InitIInv, IInvStep, PTL DEF VRAMSpec

(* GetVBIOS leaves an ATOM BIOS when it succeeds, unless the unchecked     *)
(* copy of the override failed, and none when it fails.                    *)
THEOREM ResultIsTrue == VRAMSpec => []DataFitsResult
<1>1. ASSUME IInv PROVE DataFitsResult
  BY <1>1, AbsentAssumption DEF DataFitsResult, IInv, DataInv, Kept
<1> QED
  BY <1>1, InitIInv, IInvStep, PTL DEF VRAMSpec

(* The sources that offer an ATOM BIOS.                                    *)
HasProperty == property # Absent /\ CheckATOMBIOS(property)
HasVRAM == vram # Absent /\ CheckATOMBIOS(vram)
HasROM == rom.base /\ rom.image # Absent /\ CheckATOMBIOS(rom.image)

(* The walk over VFCT has passed only images that are whole and no match.  *)
Walked(strict) ==
  vfct # Absent => \A l \in 1..(Offset - 1) : ~vfct[l].cut /\ ~Matches(vfct[l], strict)

(* Each place of the search has the better sources behind it, in vain.     *)
InVainInv ==
  /\ pc \in {"strict", "vram", "vram look", "rom", "rom copy", "rom check", "relaxed"} =>
       ~HasProperty
  /\ pc \in {"vram", "vram look", "rom", "rom copy", "rom check", "relaxed"} => ~HasVFCT(TRUE)
  /\ pc \in {"rom", "rom copy", "rom check", "relaxed"} => ~HasVRAM
  /\ pc = "relaxed" => ~HasROM
  /\ pc = "vram look" => vram # Absent
  /\ pc \in {"rom copy", "rom check"} => rom.base /\ rom.image # Absent
  /\ pc \in {"property", "vram", "vram look", "rom", "rom copy", "rom check"} => Offset = 1
  /\ pc \in {"strict", "relaxed"} => Walked(pc = "strict")

(* The data names its source, which is the best.                           *)
FromBest ==
  \/ VBIOSData = Absent
  \/ VBIOSData.from = "property" /\ HasProperty
  \/ VBIOSData.from = "strict" /\ ~HasProperty /\ HasVFCT(TRUE)
  \/ VBIOSData.from = "vram" /\ ~HasProperty /\ ~HasVFCT(TRUE) /\ HasVRAM
  \/ VBIOSData.from = "rom" /\ ~HasProperty /\ ~HasVFCT(TRUE) /\ ~HasVRAM /\ HasROM
  \/ /\ VBIOSData.from = "relaxed" /\ ~HasProperty /\ ~HasVFCT(TRUE) /\ ~HasVRAM /\ ~HasROM
     /\ HasVFCT(FALSE)

ChosenInv ==
  /\ pc = "done" => FromBest
  /\ ret = "failed" =>
       ~HasProperty /\ ~HasVFCT(TRUE) /\ ~HasVRAM /\ ~HasROM /\ ~HasVFCT(FALSE)

SourceInv == InVainInv /\ ChosenInv

(* A walk that ends without an ATOM BIOS: VFCT has none to offer.          *)
LEMMA NothingInVFCT ==
  ASSUME Offered, NEW strict \in BOOLEAN, Walked(strict),
         vfct # Absent =>
           \/ Offset > Len(vfct)
           \/ vfct[Offset].cut
           \/ Matches(vfct[Offset], strict) /\ ~CheckATOMBIOS(vfct[Offset].image)
  PROVE  ~HasVFCT(strict)
BY TablesAssumption DEF HasVFCT, Offered, FirstMatch, Walked

(* A walk that ends at an ATOM BIOS has found what VFCT offers.            *)
LEMMA SomethingInVFCT ==
  ASSUME Offered, NEW strict \in BOOLEAN, Walked(strict), vfct # Absent, ~(Offset > Len(vfct)),
         ~vfct[Offset].cut, Matches(vfct[Offset], strict), CheckATOMBIOS(vfct[Offset].image)
  PROVE  HasVFCT(strict)
BY DEF Offered, Walked, FirstMatch, HasVFCT

(* The offers are those of the machine, which stays as it is.              *)
LEMMA OffersStay ==
  ASSUME UNCHANGED fixed
  PROVE  /\ HasProperty' <=> HasProperty
         /\ HasVRAM' <=> HasVRAM
         /\ HasROM' <=> HasROM
         /\ HasVFCT(TRUE)' <=> HasVFCT(TRUE)
         /\ HasVFCT(FALSE)' <=> HasVFCT(FALSE)
BY Zenon DEF fixed, HasProperty, HasVRAM, HasROM, HasVFCT, FirstMatch, Matches, CheckATOMBIOS

(* One image of VFCT, or the end of the table.                             *)
LEMMA VFCTSource == ASSUME IInv, SourceInv, FromVFCT PROVE SourceInv'
<1>1. /\ pc \in {"strict", "relaxed"} /\ UNCHANGED fixed /\ VBIOSData = Absent
      /\ Offered /\ Walked(pc = "strict")
  BY Zenon DEF FromVFCT, IInv, DataInv, Before, SourceInv, InVainInv
<1>2. /\ ~HasProperty
      /\ pc = "relaxed" => ~HasVFCT(TRUE) /\ ~HasVRAM /\ ~HasROM
  BY <1>1, Zenon DEF SourceInv, InVainInv
<1>3. PICK strict \in BOOLEAN : strict = (pc = "strict")
  BY Zenon
<1>4. Walked(strict)
  BY <1>1, <1>3, Zenon
<1>5. CASE AfterVFCT /\ Offset' = 1 /\ UNCHANGED VBIOSData /\ ~HasVFCT(strict)
  <2>1. CASE pc = "strict"
    <3>1. pc' = "vram" /\ ret' = ret /\ ~HasVFCT(TRUE)
      BY <1>3, <1>5, <2>1, Zenon DEF AfterVFCT, Go
    <3> QED
      BY <1>1, <1>5, <3>1, OffersStay, Zenon DEF SourceInv, InVainInv, ChosenInv
  <2>2. CASE pc = "relaxed"
    <3>1. pc' = "done" /\ ret' = "failed" /\ ~HasVFCT(FALSE)
      BY <1>3, <1>5, <2>2, Zenon DEF AfterVFCT, Return
    <3>2. VBIOSData' = Absent
      BY <1>1, <1>5, Zenon
    <3> QED
      BY <1>1, <2>2, <3>1, <3>2, OffersStay, Zenon DEF SourceInv, InVainInv, ChosenInv, FromBest
  <2> QED
    BY <1>1, <2>1, <2>2, Zenon
<1>6. CASE /\ vfct # Absent /\ ~vfct[Offset].cut /\ ~Matches(vfct[Offset], strict)
           /\ Offset' = Offset + 1 /\ UNCHANGED <<pc, ret, VBIOSData>>
  <2>1. \A l \in 1..(Offset' - 1) : l = Offset \/ l \in 1..(Offset - 1)
    BY <1>1, <1>6 DEF Offered
  <2>2. vfct' = vfct
    BY <1>1, Zenon DEF fixed
  <2>3. \A l \in 1..(Offset' - 1) : ~vfct[l].cut /\ ~Matches(vfct[l], strict)
    BY <1>4, <1>6, <2>1, Zenon DEF Walked
  <2>4. Walked(pc = "strict")'
    BY <1>3, <1>6, <2>2, <2>3, Zenon DEF Walked, Matches
  <2>5. InVainInv'
    BY <1>1, <1>2, <1>6, <2>4, OffersStay, Zenon DEF InVainInv
  <2>6. ChosenInv'
    BY <1>1, <1>6, OffersStay, Zenon DEF SourceInv, ChosenInv
  <2> QED
    BY <2>5, <2>6, Zenon DEF SourceInv
<1>7. CASE /\ vfct # Absent /\ ~(Offset > Len(vfct)) /\ ~vfct[Offset].cut /\ Matches(vfct[Offset], strict)
           /\ CheckATOMBIOS(vfct[Offset].image) /\ Copy(pc, vfct[Offset].image, Return("found"))
  <2>1. HasVFCT(strict)
    BY <1>1, <1>4, <1>7, SomethingInVFCT, Zenon
  <2>2. CASE VBIOSData' = [from |-> pc, image |-> vfct[Offset].image] /\ Return("found")
    <3>1. VBIOSData'.from = pc /\ pc' = "done" /\ ret' = "found"
      BY <2>2, Zenon DEF Return
    <3>2. FromBest'
      BY <1>1, <1>2, <1>3, <2>1, <3>1, OffersStay, Zenon DEF FromBest
    <3> QED
      BY <3>1, <3>2, Zenon DEF SourceInv, InVainInv, ChosenInv
  <2>3. CASE Panic
    BY <1>1, <2>3, OffersStay, Zenon DEF Panic, SourceInv, InVainInv, ChosenInv
  <2> QED
    BY <1>7, <2>2, <2>3, Zenon DEF Copy
<1> QED
  <2>1. CASE vfct = Absent \/ Offset > Len(vfct)
    BY <1>1, <1>4, <1>5, <2>1, NothingInVFCT, Zenon DEF FromVFCT
  <2>2. CASE ~(vfct = Absent \/ Offset > Len(vfct)) /\ vfct[Offset].cut
    BY <1>1, <1>4, <1>5, <2>2, NothingInVFCT, Zenon DEF FromVFCT
  <2>3. CASE ~(vfct = Absent \/ Offset > Len(vfct)) /\ ~vfct[Offset].cut /\ ~Matches(vfct[Offset], strict)
    BY <1>3, <1>6, <2>3, Zenon DEF FromVFCT
  <2>4. CASE /\ ~(vfct = Absent \/ Offset > Len(vfct)) /\ ~vfct[Offset].cut /\ Matches(vfct[Offset], strict)
             /\ CheckATOMBIOS(vfct[Offset].image)
    BY <1>3, <1>7, <2>4, Zenon DEF FromVFCT
  <2>5. CASE /\ ~(vfct = Absent \/ Offset > Len(vfct)) /\ ~vfct[Offset].cut /\ Matches(vfct[Offset], strict)
             /\ ~CheckATOMBIOS(vfct[Offset].image)
    <3>1. ~HasVFCT(strict)
      BY <1>1, <1>4, <2>5, NothingInVFCT, Zenon
    <3> QED
      BY <1>3, <1>5, <2>5, <3>1, Zenon DEF FromVFCT
  <2> QED
    BY <2>1, <2>2, <2>3, <2>4, <2>5, Zenon

(* The other steps of the search: a source that has nothing is passed by,  *)
(* and the first that has something ends it.                               *)
LEMMA OtherSource ==
  ASSUME IInv, SourceInv,
         FromProperty \/ MapFramebuffer \/ FromVRAM \/ EnableROM \/ CopyROM \/ CheckROM
  PROVE  SourceInv'
<1>1. UNCHANGED fixed /\ Offset' = Offset
  BY Zenon DEF FromProperty, MapFramebuffer, FromVRAM, EnableROM, CopyROM, CheckROM
<1>2. rom' = rom /\ vfct' = vfct /\ vram' = vram
  BY <1>1, Zenon DEF fixed
<1>3. ASSUME Panic PROVE SourceInv'
  BY <1>1, <1>3, OffersStay, Zenon DEF Panic, SourceInv, InVainInv, ChosenInv
<1>4. ASSUME ret' = "found", pc' = "done", FromBest' PROVE SourceInv'
  BY <1>4, Zenon DEF SourceInv, InVainInv, ChosenInv
<1>5. CASE FromProperty
  <2>1. pc = "property" /\ Offset = 1
    BY <1>5, Zenon DEF FromProperty, SourceInv, InVainInv
  <2>2. CASE HasProperty
    <3>1. /\ VBIOSData' \in {[from |-> "property", image |-> property], Absent}
          /\ ret' = "found" /\ pc' = "done"
      BY <1>5, <2>2, Zenon DEF FromProperty, HasProperty, Return
    <3>2. VBIOSData' = Absent \/ VBIOSData'.from = "property"
      BY <3>1
    <3>3. FromBest'
      BY <1>1, <2>2, <3>2, OffersStay, Zenon DEF FromBest
    <3> QED
      BY <1>4, <3>1, <3>3, Zenon
  <2>3. CASE ~HasProperty
    <3>1. pc' = "strict" /\ ret' = ret /\ Offset' = 1
      BY <1>5, <2>1, <2>3, Zenon DEF FromProperty, HasProperty, Go
    <3>2. Walked(pc = "strict")'
      BY <3>1 DEF Walked
    <3> QED
      BY <1>1, <2>3, <3>1, <3>2, OffersStay, Zenon DEF SourceInv, InVainInv, ChosenInv
  <2> QED
    BY <2>2, <2>3, Zenon
<1>6. CASE MapFramebuffer
  <2>1. /\ pc = "vram" /\ ret' = ret
        /\ (pc' = "vram look" /\ vram # Absent) \/ (pc' = "rom" /\ ~HasVRAM)
    BY <1>6, Zenon DEF MapFramebuffer, Go, HasVRAM
  <2> QED
    BY <1>1, <1>2, <2>1, OffersStay, Zenon DEF SourceInv, InVainInv, ChosenInv
<1>7. CASE FromVRAM
  <2>1. pc = "vram look" /\ vram \in Images
    BY <1>7, Zenon DEF FromVRAM, IInv, DataInv
  <2>2. CASE /\ CheckATOMBIOS(vram) /\ VBIOSData' = [from |-> "vram", image |-> vram]
             /\ Return("found")
    <3>1. VBIOSData'.from = "vram" /\ ret' = "found" /\ pc' = "done"
      BY <2>2, Zenon DEF Return
    <3>2. HasVRAM
      BY <2>1, <2>2, Zenon DEF HasVRAM, SourceInv, InVainInv
    <3>3. FromBest'
      BY <1>1, <2>1, <3>1, <3>2, OffersStay, Zenon DEF FromBest, SourceInv, InVainInv
    <3> QED
      BY <1>4, <3>1, <3>3, Zenon
  <2>3. CASE Panic
    BY <1>3, <2>3, Zenon
  <2>4. CASE ~CheckATOMBIOS(vram) /\ Go("rom")
    <3>1. pc' = "rom" /\ ret' = ret /\ ~HasVRAM
      BY <2>4, Zenon DEF Go, HasVRAM
    <3> QED
      BY <1>1, <2>1, <3>1, OffersStay, Zenon DEF SourceInv, InVainInv, ChosenInv
  <2> QED
    BY <1>7, <2>2, <2>3, <2>4, Zenon DEF FromVRAM
<1>8. CASE EnableROM
  <2>1. /\ pc = "rom" /\ ret' = ret /\ Offset = 1
        /\ \/ pc' = "relaxed" /\ ~HasROM
           \/ pc' = "rom copy" /\ rom.base /\ rom.image # Absent
    BY <1>8, Zenon DEF EnableROM, Go, HasROM, SourceInv, InVainInv
  <2>2. Walked(pc = "strict")'
    <3>1. Offset' = 1
      BY <1>1, <2>1, Zenon
    <3> QED
      BY <3>1 DEF Walked
  <2>3. ChosenInv'
    BY <1>1, <2>1, OffersStay, Zenon DEF SourceInv, ChosenInv
  <2>4. InVainInv'
    BY <1>1, <1>2, <2>1, <2>2, OffersStay, Zenon DEF SourceInv, InVainInv
  <2> QED
    BY <2>3, <2>4, Zenon DEF SourceInv
<1>9. CASE CopyROM
  <2>1. pc = "rom copy"
    BY <1>9, Zenon DEF CopyROM
  <2>2. CASE Go("rom check")
    BY <1>1, <1>2, <2>1, <2>2, OffersStay, Zenon DEF Go, SourceInv, InVainInv, ChosenInv
  <2> QED
    BY <1>3, <1>9, <2>2, Zenon DEF CopyROM
<1>10. CASE CheckROM
  <2>1. /\ pc = "rom check" /\ Offset = 1 /\ rom.base /\ rom.image # Absent
        /\ VBIOSData = [from |-> "rom", image |-> rom.image]
    BY <1>10, Zenon DEF CheckROM, IInv, DataInv, SourceInv, InVainInv
  <2>2. VBIOSData.from = "rom" /\ VBIOSData.image = rom.image
    BY <2>1, Zenon
  <2>3. CASE CheckATOMBIOS(VBIOSData.image)
    <3>1. VBIOSData' = VBIOSData /\ ret' = "found" /\ pc' = "done"
      BY <1>10, <2>3, Zenon DEF CheckROM, Return
    <3>2. HasROM
      BY <2>1, <2>3, Zenon DEF HasROM
    <3>3. FromBest'
      BY <1>1, <2>1, <3>1, <3>2, OffersStay, Zenon DEF FromBest, SourceInv, InVainInv
    <3> QED
      BY <1>4, <3>1, <3>3, Zenon
  <2>4. CASE ~CheckATOMBIOS(VBIOSData.image)
    <3>1. pc' = "relaxed" /\ ret' = ret /\ Offset' = 1
      BY <1>10, <2>1, <2>4, Zenon DEF CheckROM, Go
    <3>2. ~HasROM
      BY <2>2, <2>4, Zenon DEF HasROM
    <3>3. Walked(pc = "strict")'
      BY <3>1 DEF Walked
    <3>4. ChosenInv'
      BY <1>1, <3>1, OffersStay, Zenon DEF SourceInv, ChosenInv
    <3>5. InVainInv'
      BY <1>1, <2>1, <3>1, <3>2, <3>3, OffersStay, Zenon DEF SourceInv, InVainInv
    <3> QED
      BY <3>4, <3>5 DEF SourceInv
  <2> QED
    BY <2>3, <2>4, Zenon
<1> QED
  BY <1>5, <1>6, <1>7, <1>8, <1>9, <1>10, Zenon

(* The hooks after the search leave the choice as it is.                   *)
LEMMA AfterSource ==
  ASSUME IInv, SourceInv,
         PopulateVRAMInfo \/ StartReserving \/ MapSubrange \/ Finished \/ Faulted
           \/ UNCHANGED <<vars, vramVars>>
  PROVE  SourceInv'
<1>1. UNCHANGED <<fixed, Offset, VBIOSData, ret>>
  BY Zenon DEF PopulateVRAMInfo, StartReserving, MapSubrange, Finished, Faulted, vars
<1>2. pc' = pc \/ (pc \in {"property", "done"} /\ pc' = "fault")
  BY Zenon DEF PopulateVRAMInfo, StartReserving, MapSubrange, Finished, Faulted, vars
<1>3. rom' = rom /\ vfct' = vfct /\ vram' = vram
  BY <1>1, Zenon DEF fixed
<1>4. FromBest' <=> FromBest
  BY <1>1, OffersStay, Zenon DEF FromBest
<1>5. pc' = pc => (Walked(pc = "strict")' <=> Walked(pc = "strict"))
  BY <1>1, <1>3, Zenon DEF Walked, Matches
<1>6. InVainInv'
  BY <1>1, <1>2, <1>3, <1>5, OffersStay, Zenon DEF SourceInv, InVainInv
<1>7. ChosenInv'
  BY <1>1, <1>2, <1>4, OffersStay, Zenon DEF SourceInv, ChosenInv
<1> QED
  BY <1>6, <1>7, Zenon DEF SourceInv

(* The search takes the best source that offers an ATOM BIOS and fails     *)
(* only if none does, for any machine and a VFCT of any length.            *)
THEOREM BestSourceIsTaken == VRAMSpec => []BestSourceWins
<1>1. VRAMInit => SourceInv
  BY Zenon DEF VRAMInit, Init, SourceInv, InVainInv, ChosenInv
<1>2. IInv /\ SourceInv /\ [VRAMNext]_<<vars, vramVars>> => SourceInv'
  BY VFCTSource, OtherSource, AfterSource, Zenon DEF VRAMNext, Searching, Next
<1>3. ASSUME SourceInv PROVE BestSourceWins
  <2>1. DOMAIN Offers = 1..5
    BY DEF Offers
  <2>2. /\ Offers[1][1] = "property" /\ (Offers[1][2] <=> HasProperty)
        /\ Offers[2][1] = "strict" /\ (Offers[2][2] <=> HasVFCT(TRUE))
        /\ Offers[3][1] = "vram" /\ (Offers[3][2] <=> HasVRAM)
        /\ Offers[4][1] = "rom" /\ (Offers[4][2] <=> HasROM)
        /\ Offers[5][1] = "relaxed" /\ (Offers[5][2] <=> HasVFCT(FALSE))
    BY Zenon DEF Offers, HasProperty, HasVRAM, HasROM
  <2>3. /\ HasProperty => Offers[1] = <<"property", TRUE>>
        /\ HasVFCT(TRUE) => Offers[2] = <<"strict", TRUE>>
        /\ HasVRAM => Offers[3] = <<"vram", TRUE>>
        /\ HasROM => Offers[4] = <<"rom", TRUE>>
        /\ HasVFCT(FALSE) => Offers[5] = <<"relaxed", TRUE>>
    BY Zenon DEF Offers, HasProperty, HasVRAM, HasROM
  <2>4. ret = "failed" => \A k \in DOMAIN Offers : ~Offers[k][2]
    <3>1. \A k \in 1..5 : k = 1 \/ k = 2 \/ k = 3 \/ k = 4 \/ k = 5
      OBVIOUS
    <3> QED
      BY <1>3, <2>1, <2>2, <3>1, Zenon DEF SourceInv, ChosenInv
  <2>5. ASSUME VBIOSData # Absent, pc = "done"
        PROVE  \E k \in DOMAIN Offers : /\ Offers[k] = <<VBIOSData.from, TRUE>>
                                        /\ \A l \in 1..(k - 1) : ~Offers[l][2]
    <3>1. FromBest
      BY <1>3, <2>5, Zenon DEF SourceInv, ChosenInv
    <3>2. /\ \A l \in 1..(1 - 1) : FALSE
          /\ \A l \in 1..(2 - 1) : l = 1
          /\ \A l \in 1..(3 - 1) : l = 1 \/ l = 2
          /\ \A l \in 1..(4 - 1) : l = 1 \/ l = 2 \/ l = 3
          /\ \A l \in 1..(5 - 1) : l = 1 \/ l = 2 \/ l = 3 \/ l = 4
      OBVIOUS
    <3>3. CASE VBIOSData.from = "property" /\ HasProperty
      <4>1. 1 \in DOMAIN Offers
        BY <2>1
      <4> WITNESS 1 \in DOMAIN Offers
      <4> QED
        BY <2>3, <3>2, <3>3, Zenon
    <3>4. CASE VBIOSData.from = "strict" /\ ~HasProperty /\ HasVFCT(TRUE)
      <4>1. 2 \in DOMAIN Offers
        BY <2>1
      <4> WITNESS 2 \in DOMAIN Offers
      <4> QED
        BY <2>2, <2>3, <3>2, <3>4, Zenon
    <3>5. CASE VBIOSData.from = "vram" /\ ~HasProperty /\ ~HasVFCT(TRUE) /\ HasVRAM
      <4>1. 3 \in DOMAIN Offers
        BY <2>1
      <4> WITNESS 3 \in DOMAIN Offers
      <4> QED
        BY <2>2, <2>3, <3>2, <3>5, Zenon
    <3>6. CASE VBIOSData.from = "rom" /\ ~HasProperty /\ ~HasVFCT(TRUE) /\ ~HasVRAM /\ HasROM
      <4>1. 4 \in DOMAIN Offers
        BY <2>1
      <4> WITNESS 4 \in DOMAIN Offers
      <4> QED
        BY <2>2, <2>3, <3>2, <3>6, Zenon
    <3>7. CASE /\ VBIOSData.from = "relaxed" /\ ~HasProperty /\ ~HasVFCT(TRUE) /\ ~HasVRAM
               /\ ~HasROM /\ HasVFCT(FALSE)
      <4>1. 5 \in DOMAIN Offers
        BY <2>1
      <4> WITNESS 5 \in DOMAIN Offers
      <4> QED
        BY <2>2, <2>3, <3>2, <3>7, Zenon
    <3> QED
      BY <2>5, <3>1, <3>3, <3>4, <3>5, <3>6, <3>7, Zenon DEF FromBest
  <2> QED
    BY <2>4, <2>5, Zenon DEF BestSourceWins
<1> QED
  BY <1>1, <1>2, <1>3, InitIInv, IInvStep, PTL DEF VRAMSpec
-------------------------------------------------------------------------------
(* The selectors are mapped from the first on without a gap; the next one  *)
(* is attempted, and all of them are there on success.                     *)
ReserveInv ==
  \E m \in 0..15 :
    /\ mapping = 1..m
    /\ attempt = 0 => m = 0
    /\ attempt \in 1..15 => attempt = m + 1
    /\ reserved = "success" => m = 15

(* There are fifteen selectors.                                            *)
LEMMA SubrangesLen == Len(Subranges) = 15 /\ DOMAIN Subranges = 1..15
BY DEF Subranges

(* Where each area of the reserved memory begins, and its length.          *)
LEMMA SubrangesAre ==
  /\ Subranges[1] = <<0, 1>> /\ Subranges[2] = <<1, 1>> /\ Subranges[3] = <<2, 1>>
  /\ Subranges[4] = <<3, 1>> /\ Subranges[5] = <<4, 1>> /\ Subranges[6] = <<5, 1>>
  /\ Subranges[7] = <<6, 1>> /\ Subranges[8] = <<7, 1>> /\ Subranges[9] = <<8, 1>>
  /\ Subranges[10] = <<9, 1>> /\ Subranges[11] = <<10, 1>> /\ Subranges[12] = <<11, 1>>
  /\ Subranges[13] = <<12, 4>> /\ Subranges[14] = <<16, 4>> /\ Subranges[15] = <<0, 20>>
BY Zenon DEF Subranges

(* The areas of the cursors are one unit each; PPLIB and DMCUB have four.  *)
LEMMA CellsAre ==
  /\ \A k \in 1..12 : Cells(k) = (k - 1)..(k - 1)
  /\ Cells(13) = 12..15 /\ Cells(14) = 16..19 /\ Cells(15) = 0..19
BY SubrangesAre DEF Cells

(* No two areas share a unit, and they fill the range of the last selector. *)
LEMMA AreasPartition ==
  /\ \A k, l \in Areas : k < l => Cells(k) \cap Cells(l) = {}
  /\ Cells(Len(Subranges)) = UNION {Cells(k) : k \in Areas}
BY SubrangesLen, CellsAre DEF Areas

(* Nothing is mapped before the first attempt.                             *)
LEMMA ReserveInit == VRAMInit => ReserveInv
BY DEF VRAMInit, ReserveInv

(* Only InitializeReservedVRAM maps, one selector after the other.         *)
LEMMA ReserveStep == ReserveInv /\ [VRAMNext]_<<vars, vramVars>> => ReserveInv'
<1> SUFFICES ASSUME ReserveInv, [VRAMNext]_<<vars, vramVars>> PROVE ReserveInv'
  OBVIOUS
<1>1. PICK m \in 0..15 :
        /\ mapping = 1..m
        /\ attempt = 0 => m = 0
        /\ attempt \in 1..15 => attempt = m + 1
        /\ reserved = "success" => m = 15
  BY Zenon DEF ReserveInv
<1>2. CASE UNCHANGED <<mapping, attempt, reserved>>
  BY <1>2, Zenon DEF ReserveInv
<1>3. CASE StartReserving
  BY <1>3 DEF StartReserving, ReserveInv
<1>4. CASE MapSubrange
  <2>1. /\ attempt \in 1..15
        /\ \/ /\ mapping' = mapping \cup {attempt} /\ attempt' = attempt + 1
              /\ reserved' = IF attempt < 15 THEN reserved ELSE "success"
           \/ attempt' = 16 /\ reserved' = "error" /\ UNCHANGED mapping
    BY <1>4, SubrangesLen DEF MapSubrange, Ends
  <2>2. attempt = m + 1 /\ m + 1 \in 0..15 /\ reserved # "success"
    BY <1>1, <2>1
  <2>3. CASE /\ mapping' = mapping \cup {attempt} /\ attempt' = attempt + 1
             /\ reserved' = IF attempt < 15 THEN reserved ELSE "success"
    <3>1. mapping' = 1..(m + 1)
      BY <1>1, <2>2, <2>3
    <3>2. attempt' = (m + 1) + 1 /\ attempt' # 0 /\ (reserved' = "success" => m + 1 = 15)
      BY <2>2, <2>3
    <3> QED
      BY <2>2, <3>1, <3>2, Zenon DEF ReserveInv
  <2>4. CASE attempt' = 16 /\ reserved' = "error" /\ UNCHANGED mapping
    <3>1. mapping' = 1..m /\ attempt' # 0 /\ attempt' \notin 1..15 /\ reserved' # "success"
      BY <1>1, <2>4
    <3> QED
      BY <3>1, Zenon DEF ReserveInv
  <2> QED
    BY <2>1, <2>3, <2>4, Zenon
<1> QED
  BY <1>2, <1>3, <1>4, Zenon DEF VRAMNext, Searching, PopulateVRAMInfo, Faulted, vramVars

(* InitializeReservedVRAM leaves a prefix of the selectors mapped, all of  *)
(* them on success; the areas share nothing and fill the whole.            *)
THEOREM ReservesWholly == VRAMSpec => []ReservedWholly
<1>1. ReserveInv => ReservedWholly
  <2> SUFFICES ASSUME ReserveInv PROVE ReservedWholly
    OBVIOUS
  <2>1. PICK m \in 0..15 : mapping = 1..m /\ (reserved = "success" => m = 15)
    BY Zenon DEF ReserveInv
  <2>2. \A k \in mapping : 1..k \subseteq mapping
    BY <2>1
  <2>3. reserved = "success" => mapping = DOMAIN Subranges
    BY <2>1, SubrangesLen, Zenon
  <2> QED
    BY <2>2, <2>3, AreasPartition, Zenon DEF ReservedWholly
<1> QED
  BY <1>1, ReserveInit, ReserveStep, PTL DEF VRAMSpec
-------------------------------------------------------------------------------
(* How the plugin meets the machine.                                       *)

(* Where a device comes from.                                              *)
Placed(d, a, x) == a \in DOMAIN machine /\ x \in DOMAIN machine[a].devices /\ d = machine[a].devices[x]
Unsearched == {"load", "start", "create"}
Early == Unsearched \cup {"grab", "off", "gpu", "refused"}
Spared(d) == (switchOffAll \/ d.off) => ~d.service
Blank(s) == name[s] = <<>> /\ model[s] = "none"
IGPU == <<"IGPU">>
GFX(n) == <<"GFX", n>>

(* The built-in device and the external ones are devices of the machine,   *)
(* no two of them the same.                                                *)
FoundInv ==
  /\ OwnSlots(machine) /\ i \in Nat \ {0} /\ j \in Nat
  /\ videoBuiltin # NoDevice =>
       \E a, x : Placed(videoBuiltin, a, x) /\ (IsIGPU(videoBuiltin) \/ ~machine[a].bridge)
  /\ videoExternal \in Seq(Devices)
  /\ \A k \in DOMAIN videoExternal : ~IsIGPU(videoExternal[k]) /\
       \E a, x : Placed(videoExternal[k], a, x) /\ machine[a].bridge /\ (stage = "grab" => a < i)
  /\ \A k, l \in DOMAIN videoExternal : videoExternal[k].slot = videoExternal[l].slot => k = l
  /\ stage \in Unsearched => i = 1 /\ machine = <<>> /\ videoBuiltin = NoDevice /\ videoExternal = <<>>

(* The devices looked at are spared, and the ones terminated are gone.     *)
OffInv ==
  /\ stage = "off" => \A k \in 1..(i - 1) : k \in DOMAIN videoExternal => Spared(videoExternal[k])
  /\ stage \in {"gpu", "externals", "routed"} => \A k \in DOMAIN videoExternal : Spared(videoExternal[k])
  /\ stage \in Unsearched \cup {"grab"} => terminated = {}
  /\ \A s \in terminated :
       /\ s \in Slots
       /\ videoBuiltin # NoDevice => videoBuiltin.slot # s
       /\ \A k \in DOMAIN videoExternal : videoExternal[k].slot # s

(* What is described is the GPU or an external device behind the loop, and *)
(* the names are told apart.                                               *)
Described(s) ==
  \/ Blank(s)
  \/ videoBuiltin # NoDevice /\ s = videoBuiltin.slot
  \/ \E k \in DOMAIN videoExternal : s = videoExternal[k].slot /\ (stage = "externals" => k < i)
Named ==
  /\ \A s \in Slots : name[s] \in {<<>>, IGPU} \/ \E n \in 0..(j - 1) : name[s] = GFX(n)
  /\ \A s \in Slots : name[s] = IGPU => videoBuiltin # NoDevice /\ s = videoBuiltin.slot
  /\ \A s, t \in Slots : \A n \in 0..(j - 1) : name[s] = GFX(n) /\ name[t] = GFX(n) => s = t
  /\ \A n \in 0..(j - 1) : \E s \in Slots : name[s] = GFX(n)
NameInv ==
  /\ DOMAIN name = Slots /\ DOMAIN model = Slots
  /\ stage \in Early => j = 0 /\ \A s \in Slots : Blank(s)
  /\ \A s \in Slots : Described(s)
  /\ Named

(* A machine with one candidate, which the plugin serves.                  *)
Only(d) ==
  /\ ~gpuSwitch /\ Candidates = {d}
  /\ d.pci /\ ~d.off /\ d.vendor = "AMD" /\ d.id \in {"163F", "1640"}

GPUInv ==
  /\ stage # "panic" => reason = "none"
  /\ reason = "kernel" => kernel \notin BigSur..Tahoe
  /\ \A d : Only(d) =>
       /\ stage = "grab" => \A a \in 1..(i - 1) : a \in DOMAIN machine =>
            \A x \in Builtins(machine[a]) : videoBuiltin = d
       /\ videoBuiltin \in {NoDevice, d}
       /\ stage \in {"off", "gpu", "externals", "routed"} => videoBuiltin = d
       /\ reason \in {"none", "route"}

(* A device of the machine is one at some place of it.                     *)
LEMMA DevicesAre ==
  \A d : d \in Devices <=> \E a, x : Placed(d, a, x)
BY DEF Devices, Placed

(* Two devices in the same slot are one, at one place.                     *)
LEMMA SlotsOf ==
  ASSUME FoundInv, NEW d, NEW a, NEW x, Placed(d, a, x)
  PROVE  /\ d # NoDevice /\ d.slot \in Slots /\ d \in Devices
         /\ \A e, b, y : Placed(e, b, y) /\ d.slot = e.slot => a = b /\ x = y /\ d = e
BY DevicesAre DEF FoundInv, OwnSlots, Placed

(* The built-in device is none of the external ones.                       *)
LEMMA Apart ==
  ASSUME FoundInv, videoBuiltin # NoDevice, NEW k \in DOMAIN videoExternal
  PROVE  videoBuiltin.slot # videoExternal[k].slot
BY SlotsOf DEF FoundInv

(* What is remembered sits in a slot.                                      *)
LEMMA SlotsAre ==
  ASSUME FoundInv
  PROVE  /\ videoBuiltin # NoDevice => videoBuiltin.slot \in Slots
         /\ \A k \in DOMAIN videoExternal : videoExternal[k].slot \in Slots /\ videoExternal[k] # NoDevice
BY SlotsOf, Zenon DEF FoundInv

(* What a child of the root adds: nothing, or a device behind it.          *)
LEMMA GrabEffect ==
  ASSUME FoundInv, Grab
  PROVE  /\ i \in DOMAIN machine
         /\ \/ Builtins(machine[i]) = {} /\ videoBuiltin' = videoBuiltin
            \/ \E x \in Builtins(machine[i]) : videoBuiltin' = machine[i].devices[x]
         /\ \/ videoExternal' = videoExternal
            \/ /\ machine[i].bridge
               /\ \E x \in Externals(machine[i]) : videoExternal' = Append(videoExternal, machine[i].devices[x])
<1>1. i \in DOMAIN machine
  BY DEF FoundInv, OwnSlots, Grab
<1>2. \A x \in DOMAIN machine[i].devices : machine[i].devices[x] # NoDevice
  BY <1>1, Zenon DEF FoundInv, OwnSlots
<1>3. PICK d \in LastAt(machine[i].devices, Builtins(machine[i])) :
         videoBuiltin' = IF d = NoDevice THEN videoBuiltin ELSE d
  BY Zenon DEF Grab
<1>4. \/ Builtins(machine[i]) = {} /\ videoBuiltin' = videoBuiltin
      \/ \E x \in Builtins(machine[i]) : videoBuiltin' = machine[i].devices[x]
  <2>1. CASE Builtins(machine[i]) = {} /\ d = NoDevice
    BY <1>3, <2>1, Zenon
  <2>2. CASE \E x \in Builtins(machine[i]) : d = machine[i].devices[x]
    <3>1. d # NoDevice
      BY <1>2, <2>2, Zenon DEF Builtins
    <3> QED
      BY <1>3, <2>2, <3>1, Zenon
  <2>3. (Builtins(machine[i]) = {} /\ d = NoDevice) \/ \E x \in Builtins(machine[i]) : d = machine[i].devices[x]
    BY <1>3, Zenon DEF LastAt
  <2> QED
    BY <2>1, <2>2, <2>3, Zenon
<1>5. PICK e \in LastAt(machine[i].devices, Externals(machine[i])) :
         videoExternal' = IF machine[i].bridge /\ e # NoDevice /\ machine[i].audio # "AZAL"
                            THEN Append(videoExternal, e) ELSE videoExternal
  BY Zenon DEF Grab
<1>6. \/ videoExternal' = videoExternal
      \/ /\ machine[i].bridge
         /\ \E x \in Externals(machine[i]) : videoExternal' = Append(videoExternal, machine[i].devices[x])
  <2>1. CASE e = NoDevice
    BY <1>5, <2>1, Zenon
  <2>2. CASE \E x \in Externals(machine[i]) : e = machine[i].devices[x]
    BY <1>5, <2>2, Zenon
  <2>3. e = NoDevice \/ \E x \in Externals(machine[i]) : e = machine[i].devices[x]
    BY <1>5, Zenon DEF LastAt
  <2> QED
    BY <2>1, <2>2, <2>3, Zenon
<1> QED
  BY <1>1, <1>4, <1>6, Zenon

(* A step that finds nothing, and at most forgets the built-in device,     *)
(* keeps what is known of the devices found.                               *)
LEMMA FoundKept ==
  ASSUME FoundInv, UNCHANGED <<machine, videoExternal>>, videoBuiltin' \in {videoBuiltin, NoDevice},
         i' \in Nat \ {0}, j' \in Nat, stage' = "grab" => stage = "grab" /\ i' = i,
         stage' \in Unsearched => stage \in Unsearched /\ i' = i
  PROVE  FoundInv'
<1> USE DEF FoundInv
<1>1. (OwnSlots(machine) /\ i \in Nat \ {0} /\ j \in Nat /\ videoExternal \in Seq(Devices))'
  BY DEF OwnSlots, Devices
<1>2. \A d, a, x : Placed(d, a, x)' <=> Placed(d, a, x)
  BY Zenon DEF Placed
<1>3. (videoBuiltin # NoDevice =>
         \E a, x : Placed(videoBuiltin, a, x) /\ (IsIGPU(videoBuiltin) \/ ~machine[a].bridge))'
  BY Zenon DEF Placed
<1>4. \A k \in DOMAIN videoExternal : ~IsIGPU(videoExternal[k]) /\
       \E a, x : Placed(videoExternal[k], a, x) /\ machine[a].bridge /\ (stage' = "grab" => a < i')
  BY SMT
<1>5. (\A k \in DOMAIN videoExternal : ~IsIGPU(videoExternal[k]) /\
       \E a, x : Placed(videoExternal[k], a, x) /\ machine[a].bridge /\ (stage = "grab" => a < i))'
  BY DEF Placed
<1> QED
  BY <1>1, <1>3, <1>5, Zenon

(* A child of the root adds at most one external device, of a later place  *)
(* than the ones before it.                                                *)
LEMMA GrabFound == ASSUME FoundInv, Grab PROVE FoundInv'
<1>1. /\ stage = "grab" /\ stage' = "grab" /\ i' = i + 1 /\ i \in Nat \ {0} /\ machine' = machine /\ j' = j
      /\ i \in DOMAIN machine /\ OwnSlots(machine)
  BY GrabEffect, Zenon DEF Grab, FoundInv, boot
<1>2. Devices' = Devices /\ \A d, a, x : Placed(d, a, x)' <=> Placed(d, a, x)
  BY <1>1 DEF Devices, Placed
<1>3. (OwnSlots(machine) /\ i \in Nat \ {0} /\ j \in Nat)'
  BY <1>1 DEF OwnSlots, FoundInv
<1>4. (videoBuiltin # NoDevice =>
         \E a, x : Placed(videoBuiltin, a, x) /\ (IsIGPU(videoBuiltin) \/ ~machine[a].bridge))'
  BY <1>1, GrabEffect, Zenon DEF FoundInv, Placed, Builtins
<1>5. \A d, a, x : Placed(d, a, x) => a \in Nat /\ (a < i => a < i + 1)
  <2>1. \A a \in DOMAIN machine : a \in Nat
    BY <1>1 DEF OwnSlots
  <2>2. \A a \in Nat : a < i => a < i + 1
    BY <1>1
  <2> QED
    BY <2>1, <2>2, Zenon DEF Placed
<1>6. CASE videoExternal' = videoExternal
  <2>1. (\A k \in DOMAIN videoExternal : ~IsIGPU(videoExternal[k]) /\
           \E a, y : Placed(videoExternal[k], a, y) /\ machine[a].bridge /\ (stage = "grab" => a < i))'
    BY <1>1, <1>2, <1>6, <1>5, Zenon DEF FoundInv
  <2> QED
    BY <1>1, <1>2, <1>3, <1>4, <1>6, <2>1, Zenon DEF FoundInv, Unsearched
<1>7. CASE /\ machine[i].bridge
           /\ \E x \in Externals(machine[i]) : videoExternal' = Append(videoExternal, machine[i].devices[x])
  <2>1. PICK x \in Externals(machine[i]) : videoExternal' = Append(videoExternal, machine[i].devices[x])
    BY <1>7, Zenon
  <2>2. PICK d : d = machine[i].devices[x]
    OBVIOUS
  <2>3. Placed(d, i, x) /\ ~IsIGPU(d) /\ machine[i].bridge
    BY <1>1, <1>7, <2>2, Zenon DEF Placed, Externals
  <2>4. d \in Devices
    BY <2>3, DevicesAre, Zenon
  <2>5. PICK n \in Nat : n = Len(videoExternal)
    BY DEF FoundInv
  <2>6. PICK v : v = Append(videoExternal, d)
    BY Zenon
  <2>7. /\ v \in Seq(Devices) /\ DOMAIN v = 1..(n + 1) /\ v[n + 1] = d
        /\ DOMAIN videoExternal = 1..n /\ \A k \in 1..n : v[k] = videoExternal[k]
    BY <2>4, <2>5, <2>6 DEF FoundInv
  <2>8. \A k \in 1..n : ~IsIGPU(v[k]) /\
          \E a, y : Placed(v[k], a, y) /\ machine[a].bridge /\ a < i /\ a < i + 1
    <3> TAKE k \in 1..n
    <3>1. PICK a, y : Placed(videoExternal[k], a, y) /\ machine[a].bridge /\ a < i
      BY <1>1, <2>7, Zenon DEF FoundInv
    <3>2. a \in Nat
      BY <1>5, <3>1, Zenon
    <3>3. a < i + 1
      BY <1>1, <3>1, <3>2
    <3> QED
      BY <2>7, <3>1, <3>3, Zenon DEF FoundInv
  <2>9. \A k \in 1..(n + 1) : ~IsIGPU(v[k]) /\
          \E a, y : Placed(v[k], a, y) /\ machine[a].bridge /\ a < i + 1
    BY <1>1, <2>3, <2>7, <2>8
  <2>10. \A k \in 1..n : v[k].slot # d.slot
    <3> TAKE k \in 1..n
    <3>1. PICK a, y : Placed(v[k], a, y) /\ a < i
      BY <2>8, Zenon
    <3>2. a \in Nat
      BY <1>5, <3>1, Zenon
    <3>3. a # i
      BY <1>1, <3>1
    <3> QED
      BY <2>3, <3>1, <3>3, SlotsOf
  <2>11. \A k, l \in 1..(n + 1) : v[k].slot = v[l].slot => k = l
    BY <2>7, <2>10 DEF FoundInv
  <2>12. videoExternal' = v
    BY <2>1, <2>2, <2>6, Zenon
  <2>13. (\A k \in DOMAIN videoExternal : ~IsIGPU(videoExternal[k]) /\
           \E a, y : Placed(videoExternal[k], a, y) /\ machine[a].bridge /\ (stage = "grab" => a < i))'
    BY <1>1, <2>7, <2>9, <2>12, Zenon DEF Placed
  <2> QED
    BY <1>1, <1>2, <1>4, <2>7, <2>11, <2>12, <2>13 DEF FoundInv
<1> QED
  BY <1>6, <1>7, GrabEffect, Zenon

(* A step of processSwitchOff takes the device out and stays, or spares it *)
(* and goes on.                                                            *)
LEMMA SwitchOffEffect ==
  ASSUME FoundInv, SwitchOff
  PROVE  \E n \in Nat :
           /\ n = Len(videoExternal) /\ DOMAIN videoExternal = 1..n /\ i \in 1..n
           /\ stage = "off" /\ stage' = "off" /\ UNCHANGED <<machine, switchOffAll, j, videoBuiltin, name, model>>
           /\ \/ /\ i' = i /\ terminated' = terminated \cup {videoExternal[i].slot}
                 /\ videoExternal' \in Seq(Devices) /\ DOMAIN videoExternal' = 1..(n - 1)
                 /\ \A x \in 1..(i - 1) : videoExternal'[x] = videoExternal[x]
                 /\ \A x \in i..(n - 1) : videoExternal'[x] = videoExternal[x + 1]
              \/ i' = i + 1 /\ UNCHANGED <<videoExternal, terminated>> /\ Spared(videoExternal[i])
<1>1. PICK n \in Nat : n = Len(videoExternal)
  BY DEF FoundInv
<1>2. DOMAIN videoExternal = 1..n /\ i \in 1..n
  BY <1>1 DEF FoundInv, SwitchOff
<1>3. stage = "off" /\ stage' = "off" /\ UNCHANGED <<machine, switchOffAll, j, videoBuiltin, name, model>>
  BY Zenon DEF SwitchOff, boot, described
<1>4. CASE (switchOffAll \/ videoExternal[i].off) /\ videoExternal[i].service
  <2>1. videoExternal' = RemoveAt(videoExternal, i) /\ i' = i
        /\ terminated' = terminated \cup {videoExternal[i].slot}
    BY <1>4, Zenon DEF SwitchOff
  <2>2. PICK v, w : v = videoExternal /\ w = videoExternal'
    OBVIOUS
  <2>3. v \in Seq(Devices) /\ i \in 1..Len(v) /\ w = RemoveAt(v, i)
    BY <1>2, <2>1, <2>2 DEF FoundInv
  <2>4. /\ w \in Seq(Devices) /\ DOMAIN w = 1..(Len(v) - 1)
        /\ \A x \in 1..(i - 1) : w[x] = v[x]
        /\ \A x \in i..(Len(v) - 1) : w[x] = v[x + 1]
    BY <2>3 DEF RemoveAt
  <2> QED
    BY <1>1, <1>2, <1>3, <2>1, <2>2, <2>4, Zenon
<1>5. CASE ~((switchOffAll \/ videoExternal[i].off) /\ videoExternal[i].service)
  BY <1>2, <1>3, <1>5 DEF SwitchOff, Spared
<1> QED
  BY <1>4, <1>5, Zenon

(* Taking a device out leaves the others found and apart.                  *)
LEMMA SwitchOffFound == ASSUME FoundInv, SwitchOff PROVE FoundInv'
<1>1. PICK n \in Nat :
           /\ n = Len(videoExternal) /\ DOMAIN videoExternal = 1..n /\ i \in 1..n
           /\ stage = "off" /\ stage' = "off" /\ UNCHANGED <<machine, switchOffAll, j, videoBuiltin, name, model>>
           /\ \/ /\ i' = i /\ terminated' = terminated \cup {videoExternal[i].slot}
                 /\ videoExternal' \in Seq(Devices) /\ DOMAIN videoExternal' = 1..(n - 1)
                 /\ \A x \in 1..(i - 1) : videoExternal'[x] = videoExternal[x]
                 /\ \A x \in i..(n - 1) : videoExternal'[x] = videoExternal[x + 1]
              \/ i' = i + 1 /\ UNCHANGED <<videoExternal, terminated>> /\ Spared(videoExternal[i])
  BY SwitchOffEffect, Zenon
<1>2. CASE UNCHANGED videoExternal /\ i' = i + 1
  <2>1. i' \in Nat \ {0} /\ j' \in Nat
    BY <1>1, <1>2 DEF FoundInv
  <2> QED
    BY <1>1, <1>2, <2>1, FoundKept, Zenon DEF Unsearched
<1>3. CASE /\ i' = i /\ videoExternal' \in Seq(Devices) /\ DOMAIN videoExternal' = 1..(n - 1)
           /\ \A x \in 1..(i - 1) : videoExternal'[x] = videoExternal[x]
           /\ \A x \in i..(n - 1) : videoExternal'[x] = videoExternal[x + 1]
  <2> DEFINE f(x) == IF x < i THEN x ELSE x + 1
  <2>1. \A x \in 1..(n - 1) : f(x) \in 1..n /\ f(x) # i /\ videoExternal'[x] = videoExternal[f(x)]
    BY <1>1, <1>3
  <2>2. \A x, y \in 1..(n - 1) : f(x) = f(y) => x = y
    BY <1>1
  <2> HIDE DEF f
  <2>3. Devices' = Devices
    BY <1>1 DEF Devices
  <2>4. (OwnSlots(machine) /\ i \in Nat \ {0} /\ j \in Nat)'
    BY <1>1 DEF FoundInv, OwnSlots
  <2>5. (videoBuiltin # NoDevice =>
         \E a, x : Placed(videoBuiltin, a, x) /\ (IsIGPU(videoBuiltin) \/ ~machine[a].bridge))'
    BY <1>1, Zenon DEF FoundInv, Placed
  <2>6. \A x \in 1..(n - 1) : ~IsIGPU(videoExternal'[x]) /\
          \E a, y : Placed(videoExternal'[x], a, y) /\ machine[a].bridge
    BY <1>1 DEF FoundInv
  <2>7. (\A k \in DOMAIN videoExternal : ~IsIGPU(videoExternal[k]) /\
           \E a, y : Placed(videoExternal[k], a, y) /\ machine[a].bridge /\ (stage = "grab" => a < i))'
    BY <1>1, <1>3, <2>6, Zenon DEF Placed
  <2>8. \A x, y \in 1..(n - 1) : videoExternal'[x].slot = videoExternal'[y].slot => x = y
    BY <1>1, <2>1, <2>2 DEF FoundInv
  <2> QED
    BY <1>1, <1>3, <2>3, <2>5, <2>7, <2>8, Zenon DEF FoundInv, Unsearched
<1> QED
  BY <1>1, <1>2, <1>3, Zenon

(* Nothing is found at first, on a machine with its devices apart.         *)
LEMMA InitFound == ASSUME ProbeInit PROVE FoundInv
<1>1. stage = "load" /\ machine = <<>> /\ i = 1 /\ j = 0 /\ videoBuiltin = NoDevice /\ videoExternal = <<>>
  BY Zenon DEF ProbeInit
<1>2. OwnSlots(machine)
  BY <1>1 DEF OwnSlots
<1>3. videoExternal \in Seq(Devices) /\ DOMAIN videoExternal = {} /\ i \in Nat \ {0} /\ j \in Nat
  BY <1>1
<1> QED
  BY <1>1, <1>2, <1>3, Zenon DEF FoundInv

(* The machine is looked at when nothing was found yet.                    *)
LEMMA CreateFound == ASSUME FoundInv, Create PROVE FoundInv'
<1>1. /\ stage = "create" /\ stage' = "grab" /\ machine' \in Machines /\ i' = 1 /\ j' = j
      /\ videoBuiltin' = NoDevice /\ videoExternal' = <<>> /\ j \in Nat
  BY Zenon DEF FoundInv, Create, info, Unsearched
<1>2. OwnSlots(machine)'
  BY <1>1, MachinesAssumption, Zenon DEF OwnSlots
<1>3. (videoExternal \in Seq(Devices))' /\ DOMAIN videoExternal' = {} /\ i' \in Nat \ {0}
  BY <1>1
<1> QED
  BY <1>1, <1>2, <1>3, Zenon DEF FoundInv, Unsearched

(* FoundInv is kept by every step.                                         *)
LEMMA FoundStep == ASSUME FoundInv, [ProbeNext]_probeVars PROVE FoundInv'
<1>1. i \in Nat \ {0} /\ j \in Nat /\ 1 \in Nat \ {0} /\ i + 1 \in Nat \ {0} /\ j + 1 \in Nat
  BY DEF FoundInv
<1> USE DEF Unsearched
<1>2. CASE Load
  BY <1>1, <1>2, FoundKept, Zenon DEF Load, info, described
<1>3. CASE StartModule
  BY <1>1, <1>3, FoundKept, Zenon DEF StartModule, PanicOver, boot, info, described
<1>4. CASE Grabbed
  BY <1>1, <1>4, FoundKept, Zenon DEF Grabbed, boot, info, described
<1>5. CASE SwitchOffInternal
  BY <1>1, <1>5, FoundKept, Zenon DEF SwitchOffInternal, boot, described
<1>6. CASE FindGPU
  <2>1. stage' \in {"externals", "panic"} /\ UNCHANGED <<machine, videoExternal, videoBuiltin, i, j>>
    BY <1>6, Zenon DEF FindGPU, FindGPUAmong, PanicOver, boot, info
  <2> QED
    BY <1>1, <2>1, FoundKept, Zenon
<1>7. CASE RenameExternal
  BY <1>1, <1>7, FoundKept, Zenon DEF RenameExternal, External, boot, info
<1>8. CASE RouteKernel
  BY <1>1, <1>8, FoundKept, Zenon DEF RouteKernel, PanicOver, boot, info
<1>9. CASE UNCHANGED probeVars
  BY <1>1, <1>9, FoundKept, Zenon DEF probeVars, boot, info
<1> QED
  BY <1>2, <1>3, <1>4, <1>5, <1>6, <1>7, <1>8, <1>9, CreateFound, GrabFound, SwitchOffFound, Zenon
     DEF ProbeNext, ProbeDone

(* Nothing is switched off at first.                                       *)
LEMMA InitOff == ASSUME ProbeInit PROVE OffInv
BY Zenon DEF ProbeInit, OffInv

(* One step of processSwitchOff: the device that takes the place of the    *)
(* one removed is looked at next, and none left sits in a terminated slot. *)
LEMMA SwitchOffOff == ASSUME FoundInv, OffInv, SwitchOff PROVE OffInv'
<1>1. PICK n \in Nat :
           /\ n = Len(videoExternal) /\ DOMAIN videoExternal = 1..n /\ i \in 1..n
           /\ stage = "off" /\ stage' = "off" /\ UNCHANGED <<machine, switchOffAll, j, videoBuiltin, name, model>>
           /\ \/ /\ i' = i /\ terminated' = terminated \cup {videoExternal[i].slot}
                 /\ videoExternal' \in Seq(Devices) /\ DOMAIN videoExternal' = 1..(n - 1)
                 /\ \A x \in 1..(i - 1) : videoExternal'[x] = videoExternal[x]
                 /\ \A x \in i..(n - 1) : videoExternal'[x] = videoExternal[x + 1]
              \/ i' = i + 1 /\ UNCHANGED <<videoExternal, terminated>> /\ Spared(videoExternal[i])
  BY SwitchOffEffect, Zenon
<1>2. CASE i' = i + 1 /\ UNCHANGED <<videoExternal, terminated>> /\ Spared(videoExternal[i])
  <2>1. \A k \in 1..(i' - 1) : k \in 1..(i - 1) \/ k = i
    BY <1>1, <1>2
  <2>2. \A d : Spared(d)' <=> Spared(d)
    BY <1>1, Zenon DEF Spared
  <2> QED
    BY <1>1, <1>2, <2>1, <2>2, Zenon DEF OffInv, Unsearched, Spared
<1>3. CASE /\ i' = i /\ terminated' = terminated \cup {videoExternal[i].slot}
           /\ DOMAIN videoExternal' = 1..(n - 1)
           /\ \A x \in 1..(i - 1) : videoExternal'[x] = videoExternal[x]
           /\ \A x \in i..(n - 1) : videoExternal'[x] = videoExternal[x + 1]
  <2>1. \A k \in 1..(i - 1) : Spared(videoExternal[k]) /\ videoExternal'[k] = videoExternal[k]
    <3>1. \A k \in 1..(i - 1) : k \in 1..n
      BY <1>1
    <3> QED
      BY <1>1, <1>3, <3>1, Zenon DEF OffInv
  <2>2. (\A k \in 1..(i - 1) : k \in DOMAIN videoExternal => Spared(videoExternal[k]))'
    BY <1>1, <2>1 DEF Spared
  <2>3. \A x \in 1..(n - 1) : \E y \in 1..n : y # i /\ videoExternal'[x] = videoExternal[y]
    BY <1>1, <1>3
  <2>4. ASSUME NEW s \in terminated', NEW x \in 1..(n - 1) PROVE videoExternal'[x].slot # s
    <3>1. PICK y \in 1..n : y # i /\ videoExternal'[x] = videoExternal[y]
      BY <2>3, Zenon
    <3>2. videoExternal[y].slot # videoExternal[i].slot
      BY <1>1, <3>1, Zenon DEF FoundInv
    <3> QED
      BY <1>1, <3>1, <3>2, Zenon DEF OffInv
  <2>5. ASSUME NEW s \in terminated' PROVE s \in Slots /\ (videoBuiltin # NoDevice => videoBuiltin.slot # s)
    BY <1>1, <1>3, SlotsAre, Apart, Zenon DEF OffInv
  <2> QED
    BY <1>1, <2>2, <2>4, <2>5, Zenon DEF OffInv, Unsearched
<1> QED
  BY <1>1, <1>2, <1>3, Zenon

(* The built-in device is forgotten when it is terminated.                 *)
LEMMA SwitchOffInternalOff == ASSUME FoundInv, OffInv, SwitchOffInternal PROVE OffInv'
<1>1. stage = "off" /\ stage' = "gpu" /\ i > Len(videoExternal) /\ UNCHANGED <<switchOffAll, videoExternal>>
  BY Zenon DEF SwitchOffInternal, boot
<1>2. \A k \in DOMAIN videoExternal : k \in 1..(i - 1)
  BY <1>1 DEF FoundInv
<1>3. \A k \in DOMAIN videoExternal : Spared(videoExternal[k])'
  BY <1>1, <1>2, Zenon DEF OffInv, Spared
<1>4. CASE UNCHANGED <<videoBuiltin, terminated>>
  BY <1>1, <1>3, <1>4, Zenon DEF OffInv, Unsearched
<1>5. CASE /\ videoBuiltin # NoDevice /\ videoBuiltin' = NoDevice
           /\ terminated' = terminated \cup {videoBuiltin.slot}
  <2>1. \A s \in terminated' : s \in Slots /\ \A k \in DOMAIN videoExternal : videoExternal[k].slot # s
    BY <1>5, SlotsAre, Apart, Zenon DEF OffInv
  <2> QED
    BY <1>1, <1>3, <1>5, <2>1, Zenon DEF OffInv, Unsearched
<1> QED
  BY <1>4, <1>5, Zenon DEF SwitchOffInternal

(* Steps outside processSwitchOff terminate nothing.                       *)
LEMMA OffKept ==
  ASSUME OffInv, UNCHANGED <<switchOffAll, videoBuiltin, videoExternal, terminated>>,
         stage' # "off", stage' \in {"gpu", "externals", "routed"} => stage \in {"gpu", "externals", "routed"},
         stage' \in Unsearched \cup {"grab"} => stage \in Unsearched \cup {"grab"}
  PROVE  OffInv'
BY Zenon DEF Spared, OffInv

(* OffInv is kept by every step.                                           *)
LEMMA OffStep == ASSUME FoundInv, OffInv, [ProbeNext]_probeVars PROVE OffInv'
<1> USE DEF Unsearched
<1>1. CASE Load
  BY <1>1, OffKept, Zenon DEF Load, info
<1>2. CASE StartModule
  BY <1>2, OffKept, Zenon DEF StartModule, PanicOver, boot, info
<1>3. CASE Create \/ Grab
  BY <1>3, Zenon DEF Create, Grab, info, OffInv
<1>4. CASE Grabbed
  <2>1. /\ stage = "grab" /\ stage' = "off" /\ i' = 1
        /\ UNCHANGED <<videoBuiltin, videoExternal, terminated>>
    BY <1>4, Zenon DEF Grabbed, info
  <2>2. terminated' = {}
    BY <2>1, Zenon DEF OffInv
  <2>3. \A k \in 1..(i' - 1) : FALSE
    BY <2>1
  <2>4. stage' \notin {"gpu", "externals", "routed"} /\ stage' \notin Unsearched \cup {"grab"}
    BY <2>1
  <2> QED
    BY <2>2, <2>3, <2>4, Zenon DEF OffInv
<1>5. CASE FindGPU
  <2>1. stage = "gpu" /\ stage' \in {"externals", "panic"} /\ UNCHANGED <<switchOffAll, videoBuiltin, videoExternal, terminated>>
    BY <1>5, Zenon DEF FindGPU, FindGPUAmong, PanicOver, boot, info
  <2> QED
    BY <2>1, OffKept, Zenon
<1>6. CASE RenameExternal
  BY <1>6, OffKept, Zenon DEF RenameExternal, External, boot, info
<1>7. CASE RouteKernel
  BY <1>7, OffKept, Zenon DEF RouteKernel, PanicOver, boot, info
<1>8. CASE UNCHANGED probeVars
  BY <1>8, Zenon DEF probeVars, boot, info, OffInv, Spared
<1> QED
  BY <1>1, <1>2, <1>3, <1>4, <1>5, <1>6, <1>7, <1>8, SwitchOffOff, SwitchOffInternalOff, Zenon
     DEF ProbeNext, ProbeDone

(* The names differ from each other and from no name.                      *)
LEMMA Labels ==
  /\ IGPU # <<>> /\ \A n : GFX(n) # <<>> /\ GFX(n) # IGPU
  /\ \A m, n : GFX(m) = GFX(n) => m = n
BY Zenon DEF IGPU, GFX

(* The names stay told apart as long as nothing is renamed.                *)
LEMMA NamedKept == ASSUME Named, UNCHANGED <<name, j, videoBuiltin>> PROVE Named'
BY DEF Named

(* And what is described remains so while the loop goes on or is left.     *)
LEMMA DescribedKept ==
  ASSUME NEW s, Described(s), UNCHANGED <<name, model, videoBuiltin, videoExternal>>,
         stage' = "externals" => stage = "externals" /\ \A k \in DOMAIN videoExternal : k < i => k < i'
  PROVE  Described(s)'
BY Zenon DEF Described, Blank

(* Nothing described is described rightly.                                 *)
LEMMA BlankNames ==
  ASSUME DOMAIN name = Slots, DOMAIN model = Slots, j = 0, \A s \in Slots : Blank(s)
  PROVE  NameInv
BY Labels DEF NameInv, Described, Named, Blank

(* Nothing is described at first.                                          *)
LEMMA InitName == ASSUME ProbeInit PROVE NameInv
BY BlankNames, Zenon DEF ProbeInit, Blank

(* Nor before the GPU is found.                                            *)
LEMMA EarlyNames ==
  ASSUME NameInv, stage \in Early, UNCHANGED <<name, model, j>>
  PROVE  NameInv'
BY Labels, Zenon DEF NameInv, Described, Named, Blank

(* The GPU is the first to be described.                                   *)
LEMMA FindGPUName == ASSUME FoundInv, NameInv, FindGPU PROVE NameInv'
<1>1. stage = "gpu" /\ stage \in Early /\ UNCHANGED <<j, videoBuiltin, videoExternal>>
  BY Zenon DEF FindGPU, FindGPUAmong, Early, info
<1>2. CASE UNCHANGED described
  BY <1>1, <1>2, EarlyNames, Zenon DEF described
<1>3. CASE IsPCI(videoBuiltin) /\ Describe(videoBuiltin, <<"IGPU">>) /\ stage' \in {"externals", "panic"}
  BY <1>1, <1>3 DEF IsPCI, NameInv, Describe, Blank, IGPU, Early, Unsearched, Described, Named
<1>4. \/ UNCHANGED described
      \/ IsPCI(videoBuiltin) /\ Describe(videoBuiltin, <<"IGPU">>) /\ stage' \in {"externals", "panic"}
  <2>1. CASE ~IsPCI(videoBuiltin)
    BY <2>1, Zenon DEF FindGPU, FindGPUAmong
  <2>2. CASE IsPCI(videoBuiltin) /\ videoBuiltin.vendor # "AMD"
    BY <2>2, Zenon DEF FindGPU, FindGPUAmong
  <2>3. CASE IsPCI(videoBuiltin) /\ videoBuiltin.vendor = "AMD"
    BY Zenon DEF FindGPU, FindGPUAmong, PanicOver
  <2> QED
    BY <2>1, <2>2, <2>3, Zenon
<1> QED
  BY <1>2, <1>3, <1>4, Zenon

(* An external device is described once, under the next number.            *)
LEMMA RenameName == ASSUME FoundInv, NameInv, RenameExternal PROVE NameInv'
<1>1. PICK n \in Nat : n = Len(videoExternal) /\ DOMAIN videoExternal = 1..n
  BY DEF FoundInv
<1>2. /\ stage = "externals" /\ stage' = "externals" /\ i' = i + 1 /\ i \in 1..n /\ j \in Nat
      /\ UNCHANGED <<videoBuiltin, videoExternal>>
  BY <1>1 DEF RenameExternal, External, FoundInv, info
<1>3. stage \notin Early /\ stage' \notin Early /\ DOMAIN name = Slots /\ DOMAIN model = Slots
  BY <1>2, Zenon DEF Early, Unsearched, NameInv
<1>4. \A k \in 1..n : k < i => k < i + 1
  BY <1>2
<1>5. CASE UNCHANGED <<name, model, j>>
  BY <1>1, <1>2, <1>3, <1>4, <1>5, DescribedKept, NamedKept, Zenon DEF NameInv
<1>6. CASE Describe(videoExternal[i], <<"GFX", j>>) /\ j' = j + 1
  <2>1. PICK e : e = videoExternal[i].slot
    OBVIOUS
  <2>2. e \in Slots
    BY <1>1, <1>2, <2>1, SlotsAre, Zenon
  <2>3. ~(videoBuiltin # NoDevice /\ e = videoBuiltin.slot)
    BY <1>1, <1>2, <2>1, Apart, Zenon
  <2>4. \A k \in 1..n : k < i => e # videoExternal[k].slot
    BY <1>1, <1>2, <2>1 DEF FoundInv
  <2>5. Blank(e)
    BY <1>1, <1>2, <2>2, <2>3, <2>4, Zenon DEF NameInv, Described, Named
  <2>6. /\ DOMAIN name' = Slots /\ DOMAIN model' = Slots /\ name'[e] = GFX(j)
        /\ \A s \in Slots \ {e} : name'[s] = name[s] /\ model'[s] = model[s]
    BY <1>3, <1>6, <2>1, <2>2, Zenon DEF Describe, GFX
  <2>7. \A s \in Slots : Described(s)'
    BY <1>1, <1>2, <2>1, <2>6 DEF Described, Blank, NameInv
  <2>8. /\ \A m \in 0..(j' - 1) : m \in 0..(j - 1) \/ m = j
        /\ j \in 0..(j' - 1) /\ \A m \in 0..(j - 1) : m \in 0..(j' - 1) /\ m # j
    BY <1>2, <1>6
  <2>9. \A s \in Slots : name'[s] \in {<<>>, IGPU} \/ \E m \in 0..(j' - 1) : name'[s] = GFX(m)
    <3> TAKE s \in Slots
    <3>1. CASE s = e
      BY <2>6, <2>8, <3>1, Zenon
    <3>2. CASE s # e
      <4>1. name[s] \in {<<>>, IGPU} \/ \E m \in 0..(j - 1) : name[s] = GFX(m)
        BY Zenon DEF NameInv, Named
      <4> QED
        BY <2>6, <2>8, <3>2, <4>1, Zenon
    <3> QED
      BY <3>1, <3>2, Zenon
  <2>10. \A s \in Slots : name'[s] = IGPU => videoBuiltin # NoDevice /\ s = videoBuiltin.slot
    BY <2>6, Labels, Zenon DEF NameInv, Described, Named
  <2>11. \A s \in Slots \ {e} : name'[s] # GFX(j)
    <3>1. ASSUME NEW s \in Slots PROVE name[s] # GFX(j)
      <4>1. name[s] \in {<<>>, IGPU} \/ \E m \in 0..(j - 1) : name[s] = GFX(m)
        BY Zenon DEF NameInv, Named
      <4>2. CASE name[s] \in {<<>>, IGPU}
        BY <4>2, Labels, Zenon
      <4>3. CASE \E m \in 0..(j - 1) : name[s] = GFX(m)
        BY <2>8, <4>3, Labels, Zenon
      <4> QED
        BY <4>1, <4>2, <4>3, Zenon
    <3> QED
      BY <2>6, <3>1, Zenon
  <2>12. \A s, t \in Slots : \A m \in 0..(j' - 1) : name'[s] = GFX(m) /\ name'[t] = GFX(m) => s = t
    <3> TAKE s, t \in Slots
    <3> TAKE m \in 0..(j' - 1)
    <3>1. CASE m = j
      BY <2>11, <3>1, Zenon
    <3>2. CASE m \in 0..(j - 1)
      <4>1. \A u \in Slots : name'[u] = GFX(m) => name[u] = GFX(m)
        BY <2>6, <2>8, <3>2, Labels, Zenon
      <4>2. \A u, w \in Slots : \A k \in 0..(j - 1) : name[u] = GFX(k) /\ name[w] = GFX(k) => u = w
        BY Zenon DEF NameInv, Named
      <4> QED
        BY <3>2, <4>1, <4>2, Zenon
    <3> QED
      BY <2>8, <3>1, <3>2, Zenon
  <2>13. \A m \in 0..(j' - 1) : \E s \in Slots : name'[s] = GFX(m)
    <3> TAKE m \in 0..(j' - 1)
    <3>1. CASE m = j
      BY <2>2, <2>6, <3>1, Zenon
    <3>2. CASE m \in 0..(j - 1)
      BY <2>5, <2>6, <3>2, Labels, Zenon DEF NameInv, Named, Blank
    <3> QED
      BY <2>8, <3>1, <3>2, Zenon
  <2>14. Named'
    BY <1>2, <2>9, <2>10, <2>12, <2>13, Zenon DEF Named
  <2> QED
    BY <1>3, <2>6, <2>7, <2>14, Zenon DEF NameInv
<1> QED
  BY <1>5, <1>6, Zenon DEF RenameExternal, External, described

(* NameInv is kept by every step.                                          *)
LEMMA NameStep == ASSUME FoundInv, NameInv, [ProbeNext]_probeVars PROVE NameInv'
<1>1. CASE Load \/ StartModule \/ Create \/ Grab \/ Grabbed \/ SwitchOff \/ SwitchOffInternal
  <2>1. stage \in Early /\ UNCHANGED <<name, model, j>>
    BY <1>1, Zenon
       DEF Load, StartModule, Create, Grab, Grabbed, SwitchOff, SwitchOffInternal, described, Early, Unsearched
  <2> QED
    BY <2>1, EarlyNames, Zenon
<1>2. CASE RouteKernel
  BY <1>2, NamedKept, DescribedKept, Zenon
     DEF RouteKernel, PanicOver, described, info, Early, Unsearched, NameInv
<1>3. CASE UNCHANGED probeVars
  BY <1>3, NamedKept, DescribedKept, Zenon DEF probeVars, described, info, NameInv, Blank
<1> QED
  BY <1>1, <1>2, <1>3, FindGPUName, RenameName, Zenon DEF ProbeNext, ProbeDone

(* The machine stays what it is.                                           *)
LEMMA OnlyKept == ASSUME UNCHANGED <<machine, gpuSwitch>> PROVE \A d : Only(d)' <=> Only(d)
BY DEF Candidates, Only

(* Before the search there is no machine to speak of.                      *)
LEMMA NoneYet == ASSUME machine = <<>> PROVE \A d : ~Only(d)
BY DEF Candidates, Only

(* The one candidate of a machine that has one.                            *)
LEMMA OnlyOne ==
  ASSUME FoundInv, NEW d, Only(d)
  PROVE  /\ ~gpuSwitch /\ d # NoDevice /\ d.pci /\ ~d.off /\ d.vendor = "AMD" /\ d.id \in {"163F", "1640"}
         /\ \E a \in DOMAIN machine : Builtins(machine[a]) # {}
         /\ \A a \in DOMAIN machine : \A x \in Builtins(machine[a]) : machine[a].devices[x] = d
<1>1. \A e : e \in Candidates <=> \E a \in DOMAIN machine : \E x \in Builtins(machine[a]) : e = machine[a].devices[x]
  BY DEF Candidates
<1>2. \A a \in DOMAIN machine : \A x \in Builtins(machine[a]) : Placed(machine[a].devices[x], a, x)
  BY Zenon DEF Builtins, Placed
<1>3. \A a \in DOMAIN machine : \A x \in Builtins(machine[a]) : machine[a].devices[x] = d
  BY <1>1, Zenon DEF Only
<1>4. PICK a \in DOMAIN machine : \E x \in Builtins(machine[a]) : d = machine[a].devices[x]
  BY <1>1, Zenon DEF Only
<1>5. PICK x \in Builtins(machine[a]) : d = machine[a].devices[x]
  BY <1>4, Zenon
<1>6. d # NoDevice
  BY <1>2, <1>5, SlotsOf, Zenon
<1> QED
  BY <1>3, <1>5, <1>6, Zenon DEF Only

(* No GPU is remembered at first.                                          *)
LEMMA InitGPU == ASSUME ProbeInit PROVE GPUInv
BY NoneYet, Zenon DEF ProbeInit, GPUInv

(* The one GPU is remembered once its child of the root was seen, and      *)
(* nothing replaces it.                                                    *)
LEMMA GrabGPU == ASSUME FoundInv, GPUInv, Grab PROVE GPUInv'
<1>1. /\ stage = "grab" /\ stage' = "grab" /\ i' = i + 1 /\ i \in Nat \ {0} /\ i \in DOMAIN machine
      /\ UNCHANGED <<machine, gpuSwitch, reason, kernel>>
  BY GrabEffect, Zenon DEF Grab, FoundInv, boot
<1>2. \A d : Only(d)' <=> Only(d)
  BY <1>1, OnlyKept, Zenon
<1>3. \A a \in 1..((i + 1) - 1) : a = i \/ a \in 1..(i - 1)
  BY <1>1
<1>4. ASSUME NEW d, Only(d)
      PROVE  /\ \A a \in 1..((i + 1) - 1) : a \in DOMAIN machine =>
                  \A x \in Builtins(machine[a]) : videoBuiltin' = d
             /\ videoBuiltin' \in {NoDevice, d} /\ reason \in {"none", "route"}
  <2>1. Builtins(machine[i]) # {} => videoBuiltin' = d
    <3>1. \A x \in Builtins(machine[i]) : machine[i].devices[x] = d
      <4>1. \A a \in DOMAIN machine : \A x \in Builtins(machine[a]) : machine[a].devices[x] = d
        BY <1>4, OnlyOne, Zenon
      <4> QED
        BY <1>1, <4>1, Zenon
    <3> QED
      BY <3>1, GrabEffect, Zenon
  <2>2. Builtins(machine[i]) = {} => videoBuiltin' = videoBuiltin
    BY GrabEffect, Zenon
  <2>3. \A a \in 1..(i - 1) : a \in DOMAIN machine => \A x \in Builtins(machine[a]) : videoBuiltin = d
    BY <1>1, <1>4, Zenon DEF GPUInv
  <2>4. videoBuiltin \in {NoDevice, d} /\ reason \in {"none", "route"}
    BY <1>4, Zenon DEF GPUInv
  <2> QED
    BY <1>3, <2>1, <2>2, <2>3, <2>4, Zenon
<1> QED
  BY <1>1, <1>2, <1>4, Zenon DEF GPUInv

(* After the whole root it was seen.                                       *)
LEMMA GrabbedGPU == ASSUME FoundInv, GPUInv, Grabbed PROVE GPUInv'
<1>1. /\ stage = "grab" /\ stage' = "off" /\ \A a \in DOMAIN machine : a \in 1..(i - 1)
      /\ UNCHANGED <<machine, gpuSwitch, kernel, reason, videoBuiltin>>
  BY DEF Grabbed, boot, info, FoundInv, OwnSlots
<1>2. \A d : Only(d)' <=> Only(d)
  BY <1>1, OnlyKept, Zenon
<1>3. ASSUME NEW d, Only(d) PROVE videoBuiltin = d /\ reason \in {"none", "route"}
  BY <1>1, <1>3, OnlyOne, Zenon DEF GPUInv
<1> QED
  BY <1>1, <1>2, <1>3, Zenon DEF GPUInv

(* It is accepted.                                                         *)
LEMMA FindGPUGPU == ASSUME FoundInv, GPUInv, FindGPU PROVE GPUInv'
<1>1. /\ stage = "gpu" /\ stage' \in {"externals", "panic"}
      /\ UNCHANGED <<machine, gpuSwitch, kernel, videoBuiltin>>
  BY Zenon DEF FindGPU, FindGPUAmong, PanicOver, boot, info
<1>2. \A d : Only(d)' <=> Only(d)
  BY <1>1, OnlyKept, Zenon
<1>3. ASSUME NEW d, Only(d) PROVE videoBuiltin = d /\ reason' \in {"none", "route"}
  <2>1. videoBuiltin = d /\ reason \in {"none", "route"}
    BY <1>1, <1>3, Zenon DEF GPUInv
  <2>2. IsPCI(videoBuiltin) /\ videoBuiltin.vendor = "AMD" /\ videoBuiltin.id \in {"163F", "1640"}
    BY <1>3, <2>1, OnlyOne, Zenon DEF IsPCI
  <2>3. reason' = reason
    BY <2>2, Zenon DEF FindGPU, FindGPUAmong
  <2> QED
    BY <2>1, <2>3, Zenon
<1>4. reason' # "kernel" /\ (stage' # "panic" => reason' = reason)
  BY <1>1, Zenon DEF FindGPU, FindGPUAmong, PanicOver, GPUInv
<1> QED
  BY <1>1, <1>2, <1>3, <1>4, Zenon DEF GPUInv

(* GPUInv is kept by every step.                                           *)
LEMMA GPUStep == ASSUME FoundInv, GPUInv, [ProbeNext]_probeVars PROVE GPUInv'
<1>1. ASSUME UNCHANGED <<machine, gpuSwitch>> PROVE \A d : Only(d)' <=> Only(d)
  BY <1>1, OnlyKept, Zenon
<1>2. CASE Load
  BY <1>1, <1>2, NoneYet, Zenon DEF Load, FoundInv, Unsearched, GPUInv
<1>3. CASE StartModule
  <2>1. kernel \notin {BigSur, Monterey, Ventura, Sonoma, Sequoia, Tahoe} => kernel \notin BigSur..Tahoe
    BY DEF BigSur, Monterey, Ventura, Sonoma, Sequoia, Tahoe
  <2>2. machine = <<>> /\ UNCHANGED <<machine, kernel, gpuSwitch>> /\ stage = "start"
    BY <1>3, Zenon DEF StartModule, boot, FoundInv, Unsearched
  <2>3. \A d : ~Only(d)'
    BY <1>1, <2>2, NoneYet, Zenon
  <2> QED
    BY <1>3, <2>1, <2>2, <2>3, Zenon DEF StartModule, PanicOver, GPUInv
<1>9. CASE Create
  <2>1. stage = "create" /\ stage' = "grab" /\ UNCHANGED <<kernel, reason>> /\ i' = 1 /\ videoBuiltin' = NoDevice
    BY <1>9, Zenon DEF Create, info, FoundInv, Unsearched
  <2>2. 1..(i' - 1) = {}
    BY <2>1
  <2> QED
    BY <2>1, <2>2, Zenon DEF GPUInv
<1>4. CASE SwitchOff
  BY <1>1, <1>4, Zenon DEF SwitchOff, boot, GPUInv
<1>5. CASE SwitchOffInternal
  <2>1. stage = "off" /\ stage' = "gpu" /\ UNCHANGED <<machine, gpuSwitch, kernel, reason>>
    BY <1>5, Zenon DEF SwitchOffInternal, boot
  <2>2. ASSUME NEW d, Only(d) PROVE videoBuiltin' = d /\ reason \in {"none", "route"}
    <3>1. videoBuiltin = d /\ reason \in {"none", "route"}
      BY <2>1, <2>2, Zenon DEF GPUInv
    <3>2. ~gpuSwitch /\ ~videoBuiltin.off
      BY <2>2, <3>1, Zenon DEF Only
    <3> QED
      BY <1>5, <3>1, <3>2, Zenon DEF SwitchOffInternal
  <2> QED
    BY <1>1, <2>1, <2>2, Zenon DEF GPUInv
<1>6. CASE RenameExternal
  BY <1>1, <1>6, Zenon DEF RenameExternal, External, boot, info, GPUInv
<1>7. CASE RouteKernel
  BY <1>1, <1>7, Zenon DEF RouteKernel, PanicOver, boot, info, GPUInv
<1>8. CASE UNCHANGED probeVars
  BY <1>1, <1>8, Zenon DEF probeVars, boot, info, GPUInv
<1> QED
  BY <1>2, <1>3, <1>4, <1>5, <1>6, <1>7, <1>8, <1>9, GrabGPU, GrabbedGPU, FindGPUGPU, Zenon
     DEF ProbeNext, ProbeDone

(* The four together are an invariant of the probe.                        *)
LEMMA ProbeInvariant ==
  ProbeSpec => [](FoundInv /\ OffInv /\ NameInv /\ GPUInv)
<1>1. ProbeInit => FoundInv /\ OffInv /\ NameInv /\ GPUInv
  BY InitFound, InitOff, InitName, InitGPU, Zenon
<1>2. FoundInv /\ OffInv /\ NameInv /\ GPUInv /\ [ProbeNext]_probeVars => (FoundInv /\ OffInv /\ NameInv /\ GPUInv)'
  BY FoundStep, OffStep, NameStep, GPUStep, Zenon
<1> QED
  BY <1>1, <1>2, PTL DEF ProbeSpec

(* Once processSwitchOff is over, no external device remains that was      *)
(* asked off and could be terminated, and no terminated device is renamed  *)
(* or described by ProcessPatcher: for every machine.                      *)
THEOREM SwitchedOffStays == ProbeSpec => []SwitchedOffIsLeftAlone
<1>1. FoundInv /\ OffInv /\ NameInv => SwitchedOffIsLeftAlone
  <2> SUFFICES ASSUME FoundInv, OffInv, NameInv PROVE SwitchedOffIsLeftAlone
    OBVIOUS
  <2>1. \A s \in terminated : Blank(s)
    BY Zenon DEF OffInv, NameInv, Described
  <2> QED
    BY <2>1, Zenon DEF SwitchedOffIsLeftAlone, Spared, Blank, OffInv
<1> QED
  BY <1>1, ProbeInvariant, PTL

(* ProcessPatcher gives no two devices the same name, and numbers the      *)
(* external ones GFX0, GFX1, ... without a gap, on every machine.          *)
THEOREM NamesDiffer == ProbeSpec => []NamesAreDistinct
<1>1. NameInv => NamesAreDistinct
  <2> SUFFICES ASSUME NameInv PROVE NamesAreDistinct
    OBVIOUS
  <2>1. ASSUME NEW s \in Slots, NEW t \in Slots, name[s] = name[t], name[s] # <<>> PROVE s = t
    BY <2>1 DEF NameInv, Described, Named
  <2>2. ASSUME NEW s \in Slots, name[s] # <<>>, name[s] # IGPU PROVE \E n \in 0..(j - 1) : name[s] = GFX(n)
    BY <2>2, Zenon DEF NameInv, Described, Named
  <2>3. ASSUME NEW n \in 0..(j - 1)
        PROVE  \E s \in Slots : name[s] # <<>> /\ name[s] # IGPU /\ name[s] = GFX(n)
    BY Labels, Zenon DEF NameInv, Described, Named
  <2>4. {name[s] : s \in {t \in Slots : name[t] # <<>> /\ name[t] # IGPU}} = {GFX(n) : n \in 0..(j - 1)}
    BY <2>2, <2>3, Zenon
  <2>5. {name[s] : s \in {t \in Slots : name[t] # <<>> /\ name[t] # <<"IGPU">>}}
          = {<<"GFX", n>> : n \in 0..(j - 1)}
    BY <2>4, Zenon DEF IGPU, GFX
  <2> QED
    BY <2>1, <2>5, Zenon DEF NamesAreDistinct
<1> QED
  BY <1>1, ProbeInvariant, PTL

(* Where Lilu has one candidate for the built-in GPU, an AMD PCI device    *)
(* that ProcessPatcher knows and that was left on, nothing panics before   *)
(* the kernel is hooked, on every such machine; and StartModule knows      *)
(* every kernel that the configuration admits.                             *)
THEOREM GPUIsAccepted == ProbeSpec => []PanicIsEarned
<1>1. GPUInv => PanicIsEarned
  BY Zenon DEF PanicIsEarned, Only, GPUInv
<1> QED
  BY <1>1, ProbeInvariant, PTL
-------------------------------------------------------------------------------
(* A step of the composed machine is a step of Registration or leaves it   *)
(* alone (kern_start, initConsole, performCommonInit).                     *)
LEMMA RegistrationPart == BootNext => [RegistrationNext]_registrationVars
<1> SUFFICES ASSUME BootNext PROVE RegistrationNext \/ UNCHANGED registrationVars
  BY Zenon
<1>1. CASE DeckAsks \/ DeckLoads \/ DeckStarts \/ DeckRegisters
  BY <1>1, DeckAssumption, Zenon
     DEF DeckAsks, DeckLoads, DeckStarts, DeckRegisters, RegistrationNext, PluginStep
<1>2. CASE OthersStep
  BY <1>2, Zenon DEF OthersStep, RegistrationNext
<1>3. CASE SearchDevices \/ DevicesFound \/ DevicesPanic \/ OtherCallback \/ OtherPanics \/ QueueKexts
  BY <1>3, Zenon
     DEF SearchDevices, DevicesFound, DevicesPanic, OtherCallback, OtherPanics, QueueKexts,
         RegistrationNext, CommonInit
<1>4. CASE ProcessPatcher
  <2>1. CallbackPanics \/ RunCallback \/ UNCHANGED registrationVars
    BY <1>4, Zenon DEF ProcessPatcher
  <2> QED
    BY <2>1, Zenon DEF RegistrationNext, CommonInit
<1>5. CASE BootDone
  BY <1>5, Zenon DEF BootDone, bootVars
<1> QED
  BY <1>1, <1>2, <1>3, <1>4, <1>5, Zenon DEF BootNext, InitGoesOn

(* And it is a step of Probe or leaves that alone (StartModule,            *)
(* DeviceInfo::create, ProcessPatcher).                                    *)
LEMMA ProbePart == BootNext => [ProbeNext]_probeVars
<1> SUFFICES ASSUME BootNext PROVE ProbeNext \/ UNCHANGED probeVars
  BY Zenon
<1>1. CASE DeckAsks \/ DeckRegisters \/ OthersStep \/ OtherCallback \/ OtherPanics \/ QueueKexts \/ DevicesPanic
  BY <1>1, Zenon DEF DeckAsks, DeckRegisters, OthersStep, OtherCallback, OtherPanics, QueueKexts, DevicesPanic
<1>2. CASE DeckLoads \/ DeckStarts \/ SearchDevices \/ DevicesFound
  BY <1>2, Zenon DEF DeckLoads, DeckStarts, SearchDevices, DevicesFound, ProbeNext
<1>3. CASE ProcessPatcher
  BY <1>3, Zenon DEF ProcessPatcher, ProbeNext
<1>4. CASE BootDone
  BY <1>4, Zenon DEF BootDone, bootVars
<1> QED
  BY <1>1, <1>2, <1>3, <1>4, Zenon DEF BootNext, InitGoesOn

(* What NootedDeck and Lilu do together at boot is, seen from either side, *)
(* what Registration and Probe say: the theorems about each hold of both.  *)
THEOREM BootIsBoth == BootSpec => RegistrationSpec /\ ProbeSpec
<1>1. BootInit => RegistrationInit /\ ProbeInit
  BY Zenon DEF BootInit
<1>2. [BootNext]_bootVars => [RegistrationNext]_registrationVars /\ [ProbeNext]_probeVars
  BY RegistrationPart, ProbePart, Zenon DEF bootVars
<1> QED
  BY <1>1, <1>2, PTL DEF BootSpec, RegistrationSpec, ProbeSpec
===============================================================================
