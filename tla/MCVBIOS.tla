-------------------------------- MODULE MCVBIOS --------------------------------
(* Images that are an ATOM BIOS, of either byte order, or fail one test, and *)
(* VFCT tables of up to two images.                                          *)
EXTENDS VRAM

Atom == [long |-> TRUE, signed |-> TRUE, header |-> TRUE, fits |-> TRUE, magic |-> "ATOM"]
MCImages == {Atom, [Atom EXCEPT !.magic = "MOTA"], [Atom EXCEPT !.magic = "other"],
             [Atom EXCEPT !.signed = FALSE]}

Entries ==
  [length : {1}, here : BOOLEAN, kind : BOOLEAN, cut : {FALSE}, image : {Atom, [Atom EXCEPT !.fits = FALSE]}]
  \cup [length : {0}, here : {TRUE}, kind : {TRUE}, cut : {FALSE}, image : {Atom}]
  \cup [length : {1}, here : {TRUE}, kind : {TRUE}, cut : {TRUE}, image : {Atom}]
MCSystemInfos == [format : 1..3, content : {1, 2, 11, 12, 13}, channels : {0, 1, 2}]
MCTables == UNION {[1..n -> Entries] : n \in 0..2}
===============================================================================
