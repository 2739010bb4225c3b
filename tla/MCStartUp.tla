------------------------------ MODULE MCStartUp ------------------------------
(* An instance of StartUp for TLC: the servers of two pods.                *)
EXTENDS StartUp

CONSTANTS s1, s2

TwoServers == {s1, s2}

===============================================================================
