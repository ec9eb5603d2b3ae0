----------------------------- MODULE MCRadioClient -----------------------------
(* A char of three bits and up to five channels, as 200 channels stand to a *)
(* char of eight bits: the numbers of the last channels do not fit into a  *)
(* signed char.  Channel 5 is shown as -3, which is the number of none.    *)
EXTENDS RadioClient
MCNumbers == {-3, 0, 1, 5}
=============================================================================
