----------------------------- MODULE MCExecutor -----------------------------
(* One-bit source addresses: two single addresses and the prefix of both.   *)
EXTENDS Executor, TLC

Low  == Masked(0, 1)
High == Masked(1, 1)

CONSTANTS r1, r2, h1, h2

\* Two scoped bans of the same sources, one for each host.
MCScopedHosts == r1 :> h1 @@ r2 :> h2
MCScopedPrefixes == r1 :> <<Low, High>> @@ r2 :> <<Low>>

=============================================================================
