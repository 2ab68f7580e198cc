----------------------------- MODULE MC_Security -----------------------------
(* The input sets of the security layer, as definitions: sequences cannot *)
(* be written in a cfg.                                                   *)
EXTENDS Security

(* Unset, unparsable, 0 and a positive value of the REST limit; unset or *)
(* a positive value of the other numeric variables.                      *)
MCRestInputs == {Unset, Junk, 0, 2}
MCU32Inputs == {Unset, 2}

(* Unset, and every value of one or two entries: an origin, a blank,     *)
(* "*" or an invalid entry.                                               *)
MCCorsInputs == {Unset} \cup Entries(Origins \cup {Blank, Star, Invalid})

(* Absent, unreadable, and every value of one entry.                     *)
MCHeaderInputs == {Unset, Invalid} \cup {<<p>> : p \in Ips \cup {Blank}}
=============================================================================
