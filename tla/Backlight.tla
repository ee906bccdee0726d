------------------------------- MODULE Backlight -------------------------------
(***************************************************************************)
(* The brightness of the embedded panel.  The system sets and reads it     *)
(* through the framebuffer's connection attribute, which the module hooks; *)
(* the driver creates the links to the panels; a matching notification     *)
(* tells the maximum of the display.  They run on different threads and    *)
(* share the module's fields without a lock, as do the displays that attach *)
(* (ApplePanels).                                                          *)
(***************************************************************************)
EXTENDS ApplePanels

CONSTANTS
  Setters,          \* threads that set the brightness
  Values,           \* brightness values the system asks for: uintptr_t
  Maxima,           \* what a display may name as its maximum: UInt32
  Links,            \* embedded links: [id, type, oled]
  FullScale,        \* full PWM duty, the default maximum (0xFFFF)
  MaxOLED,          \* millinits of the brightest OLED (512000)
  Modulus,          \* of UInt32 (2^32)
  MaxCalls,         \* bound: brightness changes and displays in one behaviour
  NoLink

ASSUME BacklightAssumption ==
  /\ Values \subseteq Nat /\ Maxima \subseteq Nat
  /\ FullScale \in Nat \ {0} /\ MaxOLED \in Nat /\ Modulus \in Nat
  /\ FullScale * 100 < Modulus /\ MaxOLED * 100 < Modulus
  /\ NoLink \notin Links /\ \A l \in Links : l.oled \in BOOLEAN

VARIABLES
  CurrentPwmBacklightLevel, MaxPwmBacklightLevel, EmbeddedPanelLink, SupportsAUX,
  creating,         \* link in WrapLinkCreate whose AUX flag is not stored yet, or NoLink
  created,          \* links created so far
  call,             \* of each setter
  calls,            \* of them so far
  panel,            \* what the panel was last told: link, path, level
  basis             \* the value and the maximum it was worked out from (history)

fields == <<CurrentPwmBacklightLevel, MaxPwmBacklightLevel, EmbeddedPanelLink, SupportsAUX>>
linkVars == <<EmbeddedPanelLink, SupportsAUX, creating, created>>
brightness == <<fields, creating, created, call, panel, basis>>
vars == <<brightness, calls, panelVars>>

Idle == [pc |-> "idle", percentage |-> 0, from |-> [value |-> 0, max |-> 0],
         aux |-> FALSE, raced |-> FALSE, alone |-> FALSE, ret |-> "none"]

Init ==
  /\ CurrentPwmBacklightLevel = 0 /\ MaxPwmBacklightLevel = FullScale
  /\ EmbeddedPanelLink = NoLink /\ SupportsAUX = FALSE
  /\ creating = NoLink /\ created = {}
  /\ call = [t \in Setters |-> Idle] /\ calls = 0 /\ ApplePanelsInit
  /\ panel = [link |-> NoLink, path |-> "none", level |-> 0, raced |-> FALSE]
  /\ basis = [value |-> 0, max |-> FullScale]

Mul32(a, b) == (a * b) % Modulus
Becomes(t, r) == call' = [call EXCEPT ![t] = r]

(* OnAppleBacklightDisplayLoad: any maximum is accepted but 0.              *)
OnAppleBacklightDisplayLoadUnchecked ==
  /\ \E max \in Maxima : MaxPwmBacklightLevel' = max
  /\ UNCHANGED <<CurrentPwmBacklightLevel, linkVars, call, calls, panel, basis, panelVars>>

OnAppleBacklightDisplayLoad ==
  /\ \E max \in Maxima : max # 0 /\ MaxPwmBacklightLevel' = max
  /\ UNCHANGED <<CurrentPwmBacklightLevel, linkVars, call, calls, panel, basis, panelVars>>

(* WrapLinkCreate: LVDS falls through to EDP, so both store the link and    *)
(* then its AUX capability; calls under way are racing it.                  *)
StoreLink(l) ==
  /\ creating = NoLink /\ l \notin created
  /\ EmbeddedPanelLink' = IF l.type \in {"LVDS", "EDP"} THEN l ELSE EmbeddedPanelLink
  /\ creating' = IF l.type \in {"LVDS", "EDP"} THEN l ELSE NoLink
  /\ created' = created \cup {l}
  /\ call' = [t \in Setters |-> [call[t] EXCEPT !.raced = (call[t].pc # "idle")]]
  /\ UNCHANGED <<CurrentPwmBacklightLevel, MaxPwmBacklightLevel, SupportsAUX, calls, panel, basis, panelVars>>

StoreAUXOnce ==
  /\ creating # NoLink
  /\ SupportsAUX' = (SupportsAUX \/ creating.oled)
  /\ creating' = NoLink
  /\ UNCHANGED <<CurrentPwmBacklightLevel, MaxPwmBacklightLevel, EmbeddedPanelLink, created,
                 call, calls, panel, basis, panelVars>>

StoreAUX ==
  /\ creating # NoLink
  /\ SupportsAUX' = creating.oled
  /\ creating' = NoLink
  /\ UNCHANGED <<CurrentPwmBacklightLevel, MaxPwmBacklightLevel, EmbeddedPanelLink, created,
                 call, calls, panel, basis, panelVars>>

(* wrapSetAttributeForConnection for 'bklt': the value is stored, cut to   *)
(* UInt32 and held against no maximum (alone records whether the latest    *)
(* change was the only one under way) ...                                  *)
StoreCurrent(t) ==
  /\ call[t].pc = "idle" /\ calls < MaxCalls
  /\ \E v \in Values : CurrentPwmBacklightLevel' = v % Modulus
  /\ calls' = calls + 1
  /\ call' = [u \in Setters |->
       IF u # t THEN [call[u] EXCEPT !.alone = FALSE]
       ELSE [Idle EXCEPT !.pc = "check", !.raced = (creating # NoLink),
                         !.alone = \A o \in Setters \ {t} : call[o].pc = "idle"]]
  /\ UNCHANGED <<MaxPwmBacklightLevel, linkVars, panel, basis, panelVars>>

(* ... the maximum is checked ...                                           *)
CheckMax(t) ==
  /\ call[t].pc = "check"
  /\ Becomes(t, IF MaxPwmBacklightLevel = 0
                  THEN [call[t] EXCEPT !.pc = "idle", !.ret = "InternalError"]
                  ELSE [call[t] EXCEPT !.pc = "percent"])
  /\ UNCHANGED <<fields, creating, created, calls, panel, basis, panelVars>>

(* ... and the percentage is worked out from the fields as they are now.    *)
Percentage(t) ==
  /\ call[t].pc = "percent"
  /\ Becomes(t, [call[t] EXCEPT
       !.pc = "path",
       !.percentage = IF MaxPwmBacklightLevel = 0 THEN -1
                      ELSE Mul32(CurrentPwmBacklightLevel, 100) \div MaxPwmBacklightLevel,
       !.from = [value |-> CurrentPwmBacklightLevel, max |-> MaxPwmBacklightLevel]])
  /\ UNCHANGED <<fields, creating, created, calls, panel, basis, panelVars>>

ChoosePath(t) ==
  /\ call[t].pc = "path"
  /\ Becomes(t, [call[t] EXCEPT !.pc = "send", !.aux = SupportsAUX])
  /\ UNCHANGED <<fields, creating, created, calls, panel, basis, panelVars>>

(* The level for the path, and the driver's function, which may refuse it.  *)
Level(aux, percentage) == Mul32(IF aux THEN MaxOLED ELSE FullScale, percentage) \div 100

Accepting(t, accepted, result) ==
  /\ call[t].pc = "send"
  /\ Becomes(t, [call[t] EXCEPT !.pc = "idle", !.ret = result])
  /\ IF accepted
       THEN /\ panel' = [link |-> EmbeddedPanelLink,
                         path |-> IF call[t].aux THEN "AUX" ELSE "PWM",
                         level |-> Level(call[t].aux, call[t].percentage),
                         raced |-> call[t].raced]
            /\ basis' = call[t].from
       ELSE UNCHANGED <<panel, basis>>
  /\ UNCHANGED <<fields, creating, created, calls, panelVars>>

SendUnheeded(t) == \E accepted \in BOOLEAN : Accepting(t, accepted, "Success")
Send(t) ==
  \E accepted \in BOOLEAN :
    Accepting(t, accepted, IF accepted /\ ~call[t].aux THEN "Success" ELSE "DeviceError")

(* ApplePanel::setDisplay, for a display of its own.                       *)
AttachDisplay(d) ==
  /\ attach[d].pc = "idle" => calls < MaxCalls
  /\ calls' = calls + (IF attach[d].pc = "idle" THEN 1 ELSE 0)
  /\ Attach(d)
  /\ UNCHANGED brightness

Next ==
  \/ OnAppleBacklightDisplayLoad
  \/ \E l \in Links : StoreLink(l)
  \/ StoreAUX
  \/ \E d \in Displays : AttachDisplay(d)
  \/ \E t \in Setters : StoreCurrent(t) \/ CheckMax(t) \/ Percentage(t) \/ ChoosePath(t) \/ Send(t)

Spec == Init /\ [][Next]_vars
-------------------------------------------------------------------------------
Scale(path) == IF path = "AUX" THEN MaxOLED ELSE FullScale

(* Whatever setters and notifications store meanwhile, the value and the   *)
(* maximum that a level is worked out from make sense of it.  Nothing is   *)
(* divided by a maximum of 0.  The level is never a greater share of the   *)
(* scale than the value is of the maximum: with a value of at most the     *)
(* maximum it stays on the scale, and a product that wraps around only     *)
(* makes it darker.  If the value is at most the maximum and none wraps,   *)
(* the level is at most a percent of the scale, and one, below that share. *)
LevelFollowsValue ==
  LET scale == Scale(panel.path)
  IN /\ basis.max > 0
     /\ panel.level * basis.max <= scale * basis.value
     /\ basis.value <= basis.max /\ basis.value * 100 < Modulus
          => 100 * scale * basis.value <= (100 * panel.level + scale + 99) * basis.max

(* A link is driven by the path it supports, unless a link was created     *)
(* while the call was under way.                                           *)
PathFitsLink ==
  panel.link # NoLink /\ ~panel.raced => (panel.path = "AUX") = panel.link.oled

Quiet == \A t \in Setters : call[t].pc = "idle"

(* When all is quiet and no other change overlapped the latest one, what   *)
(* the attribute reads back is what the panel was last told, unless the    *)
(* driver refused it (or cannot say: AUX).                                 *)
PanelShowsCurrent ==
  Quiet /\ (\E t \in Setters : call[t].alone /\ call[t].ret = "Success")
    => /\ basis.value = CurrentPwmBacklightLevel
       /\ panel.level = Level(FALSE, Mul32(basis.value, 100) \div basis.max)
===============================================================================
