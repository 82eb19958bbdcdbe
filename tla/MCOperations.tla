---------------------------- MODULE MCOperations ----------------------------
(* Operations for TLC. Six changes: a, b, c by sources of those names, m by a    *)
(* merge commit, u by the other branch, w by the user. a meets c and c meets u,   *)
(* b is built on c.                                                               *)
EXTENDS Operations

MCAdds == [s \in {"root", "a", "b", "c", "m", "up", "user"} |->
             CASE s = "root" -> {} [] s = "up" -> {"u"} [] s = "user" -> {"w"} [] OTHER -> {s}]
MCMerges == {"m"}
MCClash == {{"a", "c"}, {"c", "u"}}
MCBuilds == {<<"b", "c">>}

Root == <<[op |-> "pick", src |-> "root", tree |-> {}, add |-> {}, del |-> {}]>>
On(h, s) == Append(h, [op |-> "pick", src |-> s, tree |-> Tree(h) \cup {IF s = "up" THEN "u" ELSE s},
                       add |-> {IF s = "up" THEN "u" ELSE s}, del |-> {}])
MCUpstream == On(Root, "up")
MCStarts == {On(On(Root, "c"), "b")}
MCPickLists == {<<"m">>, <<"a", "c">>, <<"b", "m", "a">>}
MCRevertLists == {<<"b", "a", "c">>}
MCNoLists == {}
MCEdits == {"e"}
=============================================================================
