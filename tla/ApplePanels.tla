------------------------------ MODULE ApplePanels ------------------------------
(***************************************************************************)
(* ApplePanel::setDisplay as the brightness module hooks it: the first     *)
(* call adds the module's panels to a copy of the ApplePanels property of  *)
(* its service, and every call then runs the original, which looks the     *)
(* display up there.  The flag that marks the first call is set before the *)
(* panels are there and is no lock.                                        *)
(***************************************************************************)
EXTENDS Integers

CONSTANTS
  Displays,       \* displays that attach, each with a call of its own
  Services,       \* ApplePanel services
  Listing,        \* those with an ApplePanels property
  ApplesNames,    \* names of panels in that property
  ModulesNames,   \* names in AppleBacklightData
  Missing

ASSUME ApplePanelsAssumption ==
  Listing \subseteq Services /\ Missing \notin ApplesNames \cup ModulesNames

VARIABLES
  once,
  ApplePanels,    \* of each service: the property, a function from names to owners
  attach,         \* the call of each display
  whole           \* services whose panels were merged without a failure (history)

panelVars == <<once, ApplePanels, attach, whole>>

Apples == [n \in ApplesNames |-> "apple"]
Overlay(f, names) ==
  [n \in DOMAIN f \cup names |-> IF n \in names THEN "module" ELSE f[n]]

NotYet == [pc |-> "idle", service |-> Missing, panels |-> Missing, added |-> {},
           entitled |-> FALSE, seen |-> Missing]

ApplePanelsInit ==
  /\ once = FALSE
  /\ ApplePanels = [s \in Services |-> IF s \in Listing THEN Apples ELSE Missing]
  /\ attach = [d \in Displays |-> NotYet]
  /\ whole = {}

(* if (!once): entitled records that the panels of the service are there   *)
(* before the call.                                                        *)
SetDisplay(d) ==
  /\ attach[d].pc = "idle"
  /\ \E s \in Services :
       attach' = [attach EXCEPT ![d] = [NotYet EXCEPT !.pc = IF once THEN "original" ELSE "flag",
                                                     !.service = s, !.entitled = s \in whole]]
  /\ UNCHANGED <<once, ApplePanels, whole>>

(* once = true; the property is looked up and copied, which may fail.      *)
FirstTime(d) ==
  /\ attach[d].pc = "flag"
  /\ once' = TRUE
  /\ LET property == ApplePanels[attach[d].service]
     IN \/ /\ property # Missing
           /\ attach' = [attach EXCEPT ![d].pc = "merge", ![d].panels = property]
        \/ attach' = [attach EXCEPT ![d].pc = "original"]
  /\ UNCHANGED <<ApplePanels, whole>>

(* The entries that can be allocated are added to the copy ...             *)
MergeFresh(d) ==
  /\ attach[d].pc = "merge"
  /\ \E added \in SUBSET ModulesNames :
       attach' = [attach EXCEPT ![d].pc = "property", ![d].added = added,
                                ![d].panels = [n \in added |-> "module"]]
  /\ UNCHANGED <<once, ApplePanels, whole>>

Merge(d) ==
  /\ attach[d].pc = "merge"
  /\ \E added \in SUBSET ModulesNames :
       attach' = [attach EXCEPT ![d].pc = "property", ![d].added = added,
                                ![d].panels = Overlay(attach[d].panels, added)]
  /\ UNCHANGED <<once, ApplePanels, whole>>

(* ... which becomes the property of the service.                          *)
SetProperty(d) ==
  LET s == attach[d].service
      complete == attach[d].added = ModulesNames
  IN /\ attach[d].pc = "property"
     /\ ApplePanels' = [ApplePanels EXCEPT ![s] = attach[d].panels]
     /\ attach' = [e \in Displays |->
          IF e = d THEN [attach[d] EXCEPT !.pc = "original", !.entitled = complete]
          ELSE [attach[e] EXCEPT !.entitled = @ /\ (complete \/ attach[e].service # s)]]
     /\ whole' = IF complete THEN whole \cup {s} ELSE whole \ {s}
     /\ UNCHANGED once

(* The original looks at the property as it is now.                        *)
Original(d) ==
  /\ attach[d].pc = "original"
  /\ attach' = [attach EXCEPT ![d].pc = "done", ![d].seen = ApplePanels[attach[d].service]]
  /\ UNCHANGED <<once, ApplePanels, whole>>

Attach(d) == SetDisplay(d) \/ FirstTime(d) \/ Merge(d) \/ SetProperty(d) \/ Original(d)
-------------------------------------------------------------------------------
(* What ApplePanel::setDisplay looks a display up in never lacks one of    *)
(* Apple's panels, however many first calls race; and it has the module's  *)
(* panels whenever they were in place before the call or the call put them *)
(* there itself.                                                           *)
PanelsSeen ==
  \A d \in Displays : attach[d].pc = "done" =>
    /\ attach[d].service \in Listing => ApplesNames \subseteq DOMAIN attach[d].seen
    /\ attach[d].entitled => attach[d].seen = Overlay(Apples, ModulesNames)
===============================================================================
