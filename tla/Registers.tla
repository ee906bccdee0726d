------------------------------- MODULE Registers -------------------------------
(***************************************************************************)
(* The GPU's registers as the plug-in reaches them.  A register below the  *)
(* length of the mapping is accessed directly; any other one by writing its*)
(* number to PCIE_INDEX2 and then accessing PCIE_DATA2, with nothing that  *)
(* keeps another thread from using the pair in between.                    *)
(*                                                                         *)
(* The users here are the hooks on the interrupt block; SMU adds the       *)
(* mailbox as another.                                                     *)
(***************************************************************************)
EXTENDS Integers

CONSTANTS
  Mappings,     \* the sets of registers that a mapping may reach
  MaxInits      \* bound: rings the driver sets up

Register == {"C2PMSG_66", "C2PMSG_82", "C2PMSG_90", "IH_CHICKEN", "IH_CLK_CTRL",
             "MC_VM_FB_OFFSET", "RCC_STRAP0"}

ASSUME RegistersAssumption == Mappings \subseteq SUBSET Register /\ MaxInits \in Nat

VARIABLES
  rMMIO,        \* has InitHWLate mapped the registers?
  mapped,       \* the registers its mapping reaches
  reg,          \* their contents
  index,        \* PCIE_INDEX2
  selected,     \* users that wrote the index and have yet to access the data
  crossed,      \* one wrote it between another's two accesses (history)
  doorbell,     \* C2PMSG_66 was written and the firmware has yet to see it
  ring          \* WrapIH40IVRingInitHardware

window == <<rMMIO, mapped, index, selected, crossed>>

(* A value: what it stands for, and bits of interest.                      *)
Value(what) == [is |-> what, bits |-> {}]
Zero == Value(<<>>)
SetBit(v, bit) == [is |-> v.is, bits |-> {bit}]
OrBit(v, bit) == [v EXCEPT !.bits = @ \cup {bit}]

RegistersInit(contents) ==
  /\ rMMIO = FALSE /\ mapped \in Mappings
  /\ reg = contents /\ index = "IH_CLK_CTRL" /\ doorbell = FALSE
  /\ selected = {} /\ crossed = FALSE
  /\ ring = [pc |-> "idle", inits |-> 0, value |-> Zero, left |-> Zero]

(* The first call maps the registers and reads two of them, before any     *)
(* hook that uses them is live; the other calls return at once.            *)
InitHWLate ==
  /\ ~rMMIO /\ rMMIO' = TRUE
  /\ index' = IF "RCC_STRAP0" \notin mapped THEN "RCC_STRAP0"
              ELSE IF "MC_VM_FB_OFFSET" \notin mapped THEN "MC_VM_FB_OFFSET" ELSE index
  /\ UNCHANGED <<mapped, reg, selected, crossed, doorbell, ring>>

(* ReadRegion32Bit and WriteRegion32Bit of register r: the first access if *)
(* it takes two, and the register that the last one reaches.               *)
Select(u, r) ==
  /\ r \notin mapped /\ u \notin selected
  /\ index' = r
  /\ crossed' = (crossed \/ selected # {})
  /\ selected' = selected \cup {u}
  /\ UNCHANGED <<rMMIO, mapped, reg, doorbell>>

Reached(r) == IF r \in mapped THEN r ELSE index
Access(u, r) ==
  /\ r \in mapped \/ u \in selected
  /\ selected' = selected \ {u}
  /\ UNCHANGED <<rMMIO, mapped, index, crossed>>

Read(r) == reg[Reached(r)]
ReadRegion32Bit(u, r) == Access(u, r) /\ UNCHANGED <<reg, doorbell>>
WriteRegion32Bit(u, r, v) ==
  /\ Access(u, r)
  /\ reg' = [reg EXCEPT ![Reached(r)] = v]
  /\ doorbell' = (doorbell \/ Reached(r) = "C2PMSG_66")

(* The driver's own set-up of a ring leaves some value in IH_CHICKEN.      *)
RingInit ==
  /\ rMMIO /\ ring.pc = "idle" /\ ring.inits < MaxInits
  /\ LET v == [is |-> <<"ring", ring.inits>>, bits |-> {"other"}]
     IN /\ reg' = [reg EXCEPT !["IH_CHICKEN"] = v]
        /\ ring' = [ring EXCEPT !.pc = "read", !.inits = @ + 1, !.left = v]
  /\ UNCHANGED <<window, doorbell>>

(* WrapIH40IVRingInitHardware then reads it and writes it back.            *)
RingSelect ==
  /\ ring.pc \in {"read", "write"} /\ Select("ring", "IH_CHICKEN")
  /\ UNCHANGED ring

RingRead ==
  /\ ring.pc = "read"
  /\ ReadRegion32Bit("ring", "IH_CHICKEN")
  /\ ring' = [ring EXCEPT !.pc = "write", !.value = Read("IH_CHICKEN")]

RingWriteBit ==
  /\ ring.pc = "write"
  /\ WriteRegion32Bit("ring", "IH_CHICKEN", SetBit(ring.value, "MC_SPACE_GPA_ENABLE"))
  /\ ring' = [ring EXCEPT !.pc = "idle", !.value = Zero]

RingWrite ==
  /\ ring.pc = "write"
  /\ WriteRegion32Bit("ring", "IH_CHICKEN", OrBit(ring.value, "MC_SPACE_GPA_ENABLE"))
  /\ ring' = [ring EXCEPT !.pc = "idle", !.value = Zero]

(* WrapIRQMGRWriteRegister on the way of a value to IH_CLK_CTRL.           *)
ClockValue(v) == IF "DBUS_MUX" \in v.bits THEN OrBit(v, "BUFFER_MEM") ELSE v

IRQMGRWriteRegister ==
  /\ rMMIO
  /\ \E bits \in SUBSET {"DBUS_MUX"} :
       reg' = [reg EXCEPT !["IH_CLK_CTRL"] = ClockValue([Zero EXCEPT !.bits = bits])]
  /\ UNCHANGED <<window, doorbell, ring>>

RingStep == RingSelect \/ RingRead \/ RingWrite
RegistersNext == InitHWLate \/ RingInit \/ RingStep \/ IRQMGRWriteRegister
-------------------------------------------------------------------------------
(* As long as no thread crossed another's use of the pair, the interrupt   *)
(* block is set up as the hooks mean it: IH_CHICKEN holds what the driver  *)
(* left there with MC_SPACE_GPA_ENABLE added, and IH_CLK_CTRL never        *)
(* overrides the DBUS clock without the clock of the buffer memory.        *)
InterruptsSetUp ==
  ~crossed =>
    /\ ring.pc = "idle" /\ ring.inits > 0
         => reg["IH_CHICKEN"] = OrBit(ring.left, "MC_SPACE_GPA_ENABLE")
    /\ "DBUS_MUX" \in reg["IH_CLK_CTRL"].bits => "BUFFER_MEM" \in reg["IH_CLK_CTRL"].bits
===============================================================================
