-------------------------- MODULE MCLogviewReader --------------------------
(* A log of two days, and one that begins with a line without a date.      *)
EXTENDS LogviewReader

CONSTANTS syslog, auth

MCDates == (syslog :> <<1, 1, 2>>) @@ (auth :> <<0, 1>>)

=============================================================================
