---------------------------------- MODULE VRAM ---------------------------------
(***************************************************************************)
(* What the frame buffer is told of its memory: the type and width, from   *)
(* the system information table of the video BIOS, and the areas at its    *)
(* start that are reserved, mapped one after the other.  The hook that     *)
(* reports the width is routed, while nothing calls GetVBIOS yet: it runs  *)
(* with no search made, or after one.                                      *)
(***************************************************************************)
EXTENDS VBIOS

CONSTANT
  SystemInfos       \* system information tables: [format, content, channels]

VARIABLES
  width,            \* the width that PopulateVRAMInfo reports; -1 before
  mapping,          \* InitializeReservedVRAM: the subranges mapped so far
  attempt,          \* the one it maps next
  reserved          \* what it returned

vramVars == <<width, mapping, attempt, reserved>>

(* The selectors with their offset and length, in units of 0x40000: two    *)
(* cursors of each of six heads, PPLIB, DMCUB, and the whole.              *)
Subranges ==
  <<<<0, 1>>, <<1, 1>>, <<2, 1>>, <<3, 1>>, <<4, 1>>, <<5, 1>>,
    <<6, 1>>, <<7, 1>>, <<8, 1>>, <<9, 1>>, <<10, 1>>, <<11, 1>>,
    <<12, 4>>, <<16, 4>>, <<0, 20>>>>

VRAMInit == Init /\ width = -1 /\ mapping = {} /\ attempt = 0 /\ reserved = "none"

Searching == Next /\ UNCHANGED vramVars

(* GetVBIOSDataTable reads the data without a test: with no search made,   *)
(* or none that left data, the hook faults.  A table of another revision,  *)
(* or none, leaves one channel.                                            *)
Known(t) == (t.format = 1 /\ t.content \in {11, 12}) \/ (t.format = 2 /\ t.content \in {1, 2})
Channels(t) == IF t # Absent /\ Known(t) /\ t.channels > 0 THEN t.channels ELSE 1

PopulateVRAMInfo ==
  /\ pc \in {"property", "done"} /\ width = -1
  /\ IF VBIOSData = Absent
       THEN pc' = "fault" /\ UNCHANGED width
       ELSE \E t \in SystemInfos \cup {Absent} : width' = Channels(t) * 64 /\ UNCHANGED pc
  /\ UNCHANGED <<fixed, Offset, VBIOSData, mapped, romEnabled, ret, mapping, attempt, reserved>>

(* InitializeReservedVRAM touches nothing of the above, so that it may     *)
(* come last.  One subrange, which the driver may refuse; then its error   *)
(* is the result.                                                          *)
StartReserving ==
  /\ width >= 0 /\ attempt = 0
  /\ attempt' = 1
  /\ UNCHANGED <<vars, width, mapping, reserved>>

Ends == attempt' = Len(Subranges) + 1
MapSubrangeHeedless ==
  /\ attempt \in DOMAIN Subranges
  /\ \E ok \in BOOLEAN :
       /\ mapping' = IF ok THEN mapping \cup {attempt} ELSE mapping
       /\ attempt' = attempt + 1
       /\ reserved' = IF attempt < Len(Subranges) THEN reserved
                      ELSE IF ok THEN "success" ELSE "error"
  /\ UNCHANGED <<vars, width>>

MapSubrange ==
  /\ attempt \in DOMAIN Subranges
  /\ \/ /\ mapping' = mapping \cup {attempt} /\ attempt' = attempt + 1
        /\ reserved' = IF attempt < Len(Subranges) THEN reserved ELSE "success"
     \/ Ends /\ reserved' = "error" /\ UNCHANGED mapping
  /\ UNCHANGED <<vars, width>>

Faulted == pc = "fault" /\ UNCHANGED <<vars, vramVars>>

VRAMNext == Searching \/ PopulateVRAMInfo \/ StartReserving \/ MapSubrange \/ Faulted
VRAMSpec == VRAMInit /\ [][VRAMNext]_<<vars, vramVars>>
-------------------------------------------------------------------------------
Cells(k) == Subranges[k][1]..(Subranges[k][1] + Subranges[k][2] - 1)
Areas == 1..(Len(Subranges) - 1)

(* InitializeReservedVRAM succeeds only with every selector mapped; the    *)
(* areas then share no byte and fill the range of the last selector, and a *)
(* failure leaves the areas before it and none after.                      *)
ReservedWholly ==
  /\ \A k \in mapping : 1..k \subseteq mapping
  /\ reserved = "success" => mapping = DOMAIN Subranges
  /\ reserved = "success" => Cells(Len(Subranges)) = UNION {Cells(k) : k \in Areas}
  /\ reserved # "none" => \A k, l \in mapping \cap Areas : k < l => Cells(k) \cap Cells(l) = {}
===============================================================================
