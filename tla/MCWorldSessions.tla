-------------------------- MODULE MCWorldSessions --------------------------
(* Instance of WorldSessions for TLC. *)
EXTENDS WorldSessions

CONSTANTS accA, accB, accC, a1, a2, b1, c1, x, y

\* Session a1 belongs to account accA, and so on.
MCAccount == [s \in Sessions |-> CASE s \in {a1, a2} -> accA [] s = b1 -> accB [] OTHER -> accC]

\* One account has two characters, so that it can come back for the other one.
MCCharacters == [d \in Accounts |-> IF d = accA THEN {x, y} ELSE {}]
\* No characters: for the run about the login queue.
NoCharacters == [d \in Accounts |-> {}]
=============================================================================
