------------------------------ MODULE MCTransfer ------------------------------
EXTENDS Transfer, TLC

\* 1, then 2 made here, 3 and on top of it 5 made there, and 4 the local merge of 2 and 3.
MCParents == <<{}, {1}, {1}, {2, 3}, {3}>>
MCCaps == {[atomic |-> TRUE, deletes |-> TRUE], [atomic |-> FALSE, deletes |-> FALSE]}

Plain == [specs |-> ("main" :> ""), force |-> FALSE, lease |-> "none", expect |-> 0,
          includes |-> FALSE, atomic |-> FALSE, hook |-> TRUE]
MCPushMenu ==
  {Plain,
   [Plain EXCEPT !.specs = ("main" :> "" @@ "v1" :> ""), !.atomic = TRUE],
   [Plain EXCEPT !.lease = "auto"],
   [Plain EXCEPT !.lease = "auto", !.includes = TRUE],
   [Plain EXCEPT !.specs = ("main" :> "delete"), !.lease = "given", !.expect = 3],
   [Plain EXCEPT !.specs = ("main" :> "+" @@ "v1" :> "+")]}
\* Two pushes that may overlap at the remote; a push and a fetch; a fetch and its retry.
Budget(w, o, p, f) == [work |-> w, others |-> o, pushes |-> p, fetches |-> f]
MCBudgets == {Budget(1, 1, 2, 0), Budget(2, 1, 1, 1), Budget(0, 2, 0, 2)}
MCFetchMenu ==
  {[prune |-> TRUE, plus |-> TRUE, showForced |-> TRUE],
   [prune |-> FALSE, plus |-> FALSE, showForced |-> TRUE],
   [prune |-> FALSE, plus |-> FALSE, showForced |-> FALSE]}
=============================================================================
