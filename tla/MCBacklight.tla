------------------------------ MODULE MCBacklight ------------------------------
(* A scaled-down UInt32: a byte of duty, an OLED of 500 and a 16-bit modulus *)
(* keep the proportions of 0xFFFF, 512000 and 2^32.  Of the values, 65637   *)
(* is cut to 101; the first product wraps around for 700, the second for 650 *)
(* with a maximum of 100.                                                    *)
EXTENDS Backlight

MCLinks == {[id |-> 1, type |-> "EDP", oled |-> TRUE],
            [id |-> 2, type |-> "LVDS", oled |-> FALSE],
            [id |-> 3, type |-> "HDMI", oled |-> FALSE]}
===============================================================================
