----------------------------- MODULE MCAddDrivers -----------------------------
(* Small instances of AddDrivers: two bundles of the table, one with a      *)
(* single personality and one with two, and a third without an XML.         *)
EXTENDS AddDrivers

CONSTANTS accel, fb, hda, Lengths

MCIdentifiers == {accel, fb, hda}

MCXML == [i \in MCIdentifiers |-> IF i = accel THEN 1 ELSE IF i = fb THEN 2 ELSE NoXML]

(* Every array of one of the given lengths over the bundles with an XML and *)
(* Other, a longer one in which a bundle recurs behind another, and one     *)
(* that asks for the missing XML.                                           *)
MCInputs == UNION {[1..n -> {accel, fb, Other}] : n \in Lengths}
              \cup {<<fb, accel, fb>>, <<Other, hda>>}
===============================================================================
