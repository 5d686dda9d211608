------------------------------ MODULE MCReview ------------------------------
\* Model-checking instance of Review: two builds, the first with one of
\* several blemishes, the second clean, so that observing the wrong build shows.
EXTENDS Review, TLC

CONSTANTS m1, r1, r2

World(text, internal, configured) ==
    [content |-> [g \in Generations |-> IF g = 1 THEN text ELSE <<"plain", "plain">>],
     internal |-> internal, configured |-> configured]
AnyWorlds == {World(<<"plain", "injection">>, FALSE, FALSE), World(<<"secret", "plain">>, TRUE, FALSE),
              World(<<"placeholder", "plain">>, FALSE, TRUE), World(<<"informal", "secret">>, FALSE, TRUE),
              World(<<"blank", "blank">>, FALSE, FALSE)}

\* What a model may write: that all is well, that nothing is, with a finding
\* of its own, and a text that is no report.
AnyProposals ==
    {[valid |-> TRUE, risk |-> 1, rec |-> "publish", findings |-> {}],
     [valid |-> TRUE, risk |-> 4, rec |-> "reject", findings |-> {<<"own", 1>>}],
     [valid |-> FALSE, risk |-> 1, rec |-> "publish", findings |-> {}]}

\* Besides what it is redirected to, a model claims early that all is fit.
AnyWhims == {Call("fitness", [NoArgs EXCEPT !.fit = "match"])}
=============================================================================
