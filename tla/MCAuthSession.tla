--------------------------- MODULE MCAuthSession ---------------------------
(* Two machines of one account: one logs on and reconnects, the other logs *)
(* on at any time.  One connection has time for two realm lists.           *)
EXTENDS AuthSession, TLC

CONSTANTS home, office, c1, c2, c3

MCOwner == c1 :> home @@ c2 :> home @@ c3 :> office
MCMaxCommands == c1 :> 4 @@ c2 :> 3 @@ c3 :> 2
=============================================================================
