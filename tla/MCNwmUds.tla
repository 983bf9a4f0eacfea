------------------------------- MODULE MCNwmUds -------------------------------
(* NwmUds for TLC: consoles that may host are interchangeable, and so are the *)
(* others.                                                                    *)
EXTENDS NwmUds, TLC

ConsoleSymmetry == Permutations(Hosts) \cup Permutations(Consoles \ Hosts)

===============================================================================
