----------------------------- MODULE MCCleanOrder -----------------------------
EXTENDS CleanOrder, TLC

CONSTANTS c1, c2

\* Two paths share a driver, the other has its own.
MCDriver == <<"f", "g", "f">>
MCOneDriver == <<"f", "f">>

\* status; stash, which opens no scope of its own; add under core.safecrlf.
MCUses == {[how |-> "map", span |-> "clean", scoped |-> TRUE],
           [how |-> "limiter", span |-> "clean", scoped |-> FALSE],
           [how |-> "limiter", span |-> "write", scoped |-> TRUE]}
\* Three paths cleaned; one with a checkout beside it; two scans of the same two.
MCMixes == {(c1 :> 3 @@ c2 :> 0), (c1 :> 1 @@ c2 :> 1)}
MCNested == {(c1 :> 2 @@ c2 :> 2)}
MCScan == {[how |-> "map", span |-> "clean", scoped |-> TRUE]}
=============================================================================
