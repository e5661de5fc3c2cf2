------------------------------- MODULE MCKeys -------------------------------
EXTENDS ApiKeys, TLC

Symmetric == Permutations(Key) \cup Permutations(Process)

(* What routes need and what keys are issued with: reading the catalog,    *)
(* and doing so on behalf of a player.                                     *)
Roles == {{"catalog:read"}, {"catalog:read", "actor:assert"}}

(* With two ticks an hour and 16 values of a Duration: a short life, the   *)
(* longest, one too long, one whose product wraps to a negative number,    *)
(* and two that wrap to a short life, of which one is negative.            *)
AskedHours == {0, 1, 2, 3, 4, 9, -7}

=============================================================================
