--------------------------------- MODULE VBIOS ---------------------------------
(***************************************************************************)
(* Where the video BIOS comes from: a device property, the image of this   *)
(* device in the ACPI table VFCT, the start of the frame buffer, the PCI   *)
(* expansion ROM, and at last any image of VFCT for this kind of device.   *)
(* Every source may be absent, broken or hold something that is no ATOM    *)
(* BIOS, and every copy may fail.                                          *)
(***************************************************************************)
EXTENDS Integers, Sequences

CONSTANTS
  Images,       \* contents of an image: [long, signed, header, fits, magic]
  Tables,       \* VFCT tables: sequences of [length, here, kind, cut, image]
  Absent        \* a source that is not there

Sources == {"property", "strict", "vram", "rom", "relaxed"}
AllImages == Images \cup UNION {{t[k].image : k \in DOMAIN t} : t \in Tables}

ASSUME TablesAssumption == \A t \in Tables : Len(t) \in Nat /\ DOMAIN t = 1..Len(t)
ASSUME AbsentAssumption ==
  \A s \in Sources, m \in AllImages : [from |-> s, image |-> m] # Absent

VARIABLES
  property, vfct, vram, rom,        \* what the machine offers: fixed
  pc, Offset,                            \* the function under way; the image of VFCT it looks at
  VBIOSData,                        \* where the data was copied from, or Absent
  mapped,                           \* device memory that is mapped
  romEnabled,                       \* the enable bit of the expansion ROM
  ret                               \* of GetVBIOS

fixed == <<property, vfct, vram, rom>>
vars == <<fixed, pc, Offset, VBIOSData, mapped, romEnabled, ret>>

Init ==
  /\ property \in Images \cup {Absent}
  /\ vfct \in Tables \cup {Absent}
  /\ vram \in Images \cup {Absent}                  \* Absent: no frame buffer BAR
  /\ rom \in {[base |-> TRUE, image |-> m] : m \in Images}
             \cup {[base |-> b, image |-> Absent] : b \in BOOLEAN}
  /\ pc = "property" /\ Offset = 1
  /\ VBIOSData = Absent /\ mapped = {} /\ romEnabled = FALSE
  /\ ret = "none"

Go(place) == pc' = place /\ UNCHANGED ret
Return(value) == pc' = "done" /\ ret' = value
Panic == pc' = "panic" /\ UNCHANGED ret

(* CheckATOMBIOS.                                                          *)
CheckATOMBIOS(m) == m.long /\ m.signed /\ m.header /\ m.fits /\ m.magic \in {"ATOM", "MOTA"}

(* A copy into VBIOSData that must not fail.                               *)
Copy(source, m, next) ==
  \/ VBIOSData' = [from |-> source, image |-> m] /\ next
  \/ VBIOSData' = Absent /\ Panic

(* The override.  Its copy is not checked.                                 *)
FromProperty ==
  /\ pc = "property"
  /\ IF property # Absent /\ CheckATOMBIOS(property)
       THEN /\ VBIOSData' \in {[from |-> "property", image |-> property], Absent}
            /\ Return("found")
       ELSE Go("strict") /\ UNCHANGED VBIOSData
  /\ UNCHANGED <<fixed, Offset, mapped, romEnabled>>

(* GetVBIOSFromVFCT, one image of the table: the first that matches is the *)
(* answer, whether it is an ATOM BIOS or not.                              *)
AfterVFCTSkipping == IF pc = "strict" THEN Go("rom") ELSE Return("failed")
AfterVFCT == IF pc = "strict" THEN Go("vram") ELSE Return("failed")
Matches(entry, strict) == entry.length > 0 /\ (~strict \/ entry.here) /\ entry.kind

FromVFCT ==
  /\ pc \in {"strict", "relaxed"}
  /\ IF vfct = Absent \/ Offset > Len(vfct)
       THEN AfterVFCT /\ Offset' = 1 /\ UNCHANGED VBIOSData
     ELSE IF vfct[Offset].cut
       THEN AfterVFCT /\ Offset' = 1 /\ UNCHANGED VBIOSData
     ELSE IF ~Matches(vfct[Offset], pc = "strict")
       THEN Offset' = Offset + 1 /\ UNCHANGED <<pc, ret, VBIOSData>>
     ELSE IF CheckATOMBIOS(vfct[Offset].image)
       THEN Copy(pc, vfct[Offset].image, Return("found")) /\ UNCHANGED Offset
       ELSE AfterVFCT /\ Offset' = 1 /\ UNCHANGED VBIOSData
  /\ UNCHANGED <<fixed, mapped, romEnabled>>

(* GetVBIOSFromVRAM: the BAR is mapped, looked at, copied and released.    *)
MapFramebuffer ==
  /\ pc = "vram"
  /\ IF vram = Absent
       THEN Go("rom") /\ UNCHANGED mapped
       ELSE Go("vram look") /\ mapped' = mapped \cup {"Bar0"}
  /\ UNCHANGED <<fixed, Offset, VBIOSData, romEnabled>>

FromVRAMLeaking ==
  /\ pc = "vram look"
  /\ IF CheckATOMBIOS(vram)
       THEN Copy("vram", vram, Return("found"))
       ELSE Go("rom") /\ UNCHANGED VBIOSData
  /\ UNCHANGED <<fixed, Offset, mapped, romEnabled>>

FromVRAM ==
  /\ pc = "vram look"
  /\ IF CheckATOMBIOS(vram)
       THEN \/ /\ VBIOSData' = [from |-> "vram", image |-> vram]
               /\ Return("found") /\ mapped' = mapped \ {"Bar0"}
            \/ VBIOSData' = Absent /\ Panic /\ UNCHANGED mapped
       ELSE Go("rom") /\ mapped' = mapped \ {"Bar0"} /\ UNCHANGED VBIOSData
  /\ UNCHANGED <<fixed, Offset, romEnabled>>

(* GetVBIOSFromExpansionROM: the ROM is enabled while it is copied; a copy *)
(* that is no ATOM BIOS is released.                                       *)
EnableROM ==
  /\ pc = "rom"
  /\ IF ~rom.base \/ rom.image = Absent
       THEN Go("relaxed") /\ UNCHANGED <<mapped, romEnabled>>
       ELSE Go("rom copy") /\ mapped' = mapped \cup {"ROM"} /\ romEnabled' = TRUE
  /\ UNCHANGED <<fixed, Offset, VBIOSData>>

CopyROM ==
  /\ pc = "rom copy"
  /\ \/ VBIOSData' = [from |-> "rom", image |-> rom.image] /\ Go("rom check") /\ mapped' = mapped \ {"ROM"}
     \/ VBIOSData' = Absent /\ Panic /\ UNCHANGED mapped
  /\ UNCHANGED <<fixed, Offset, romEnabled>>

CheckROMLax ==
  /\ pc = "rom check"
  /\ romEnabled' = FALSE
  /\ IF CheckATOMBIOS(VBIOSData.image) THEN Return("found") ELSE Go("relaxed")
  /\ UNCHANGED <<fixed, Offset, VBIOSData, mapped>>

CheckROM ==
  /\ pc = "rom check"
  /\ romEnabled' = FALSE
  /\ IF CheckATOMBIOS(VBIOSData.image)
       THEN Return("found") /\ UNCHANGED VBIOSData
       ELSE Go("relaxed") /\ VBIOSData' = Absent
  /\ UNCHANGED <<fixed, Offset, mapped>>

Finished == pc \in {"done", "panic"} /\ UNCHANGED vars

Next == FromProperty \/ FromVFCT \/ MapFramebuffer \/ FromVRAM \/ EnableROM \/ CopyROM
          \/ CheckROM \/ Finished

Spec == Init /\ [][Next]_vars
-------------------------------------------------------------------------------
(* GetVBIOS leaves an ATOM BIOS behind when it succeeds, unless the copy   *)
(* of the override failed, and nothing when it does not.                   *)
DataFitsResult ==
  pc = "done" =>
    IF VBIOSData # Absent THEN ret = "found" /\ CheckATOMBIOS(VBIOSData.image)
    ELSE ret = "found" => property # Absent /\ CheckATOMBIOS(property)

(* Whatever the outcome, the mappings and the ROM enable bit are returned. *)
NothingHeld == pc = "done" => mapped = {} /\ ~romEnabled

FirstMatch(strict) == {k \in DOMAIN vfct : /\ \A l \in 1..k : ~vfct[l].cut
                                           /\ Matches(vfct[k], strict)
                                           /\ \A l \in 1..(k - 1) : ~Matches(vfct[l], strict)}
HasVFCT(strict) == vfct # Absent /\ \E k \in FirstMatch(strict) : CheckATOMBIOS(vfct[k].image)

(* Each source in the order of preference, with what it offers.            *)
Offers ==
  <<<<"property", property # Absent /\ CheckATOMBIOS(property)>>,
    <<"strict", HasVFCT(TRUE)>>,
    <<"vram", vram # Absent /\ CheckATOMBIOS(vram)>>,
    <<"rom", rom.base /\ rom.image # Absent /\ CheckATOMBIOS(rom.image)>>,
    <<"relaxed", HasVFCT(FALSE)>>>>

(* The data is from the best source that offers an ATOM BIOS, and the      *)
(* search fails only if none does.                                         *)
BestSourceWins ==
  /\ VBIOSData # Absent /\ pc = "done" =>
       \E k \in DOMAIN Offers : /\ Offers[k] = <<VBIOSData.from, TRUE>>
                                /\ \A l \in 1..(k - 1) : ~Offers[l][2]
  /\ ret = "failed" => \A k \in DOMAIN Offers : ~Offers[k][2]
===============================================================================
