------------------------------- MODULE MCGuard -------------------------------
EXTENDS Guard, TLC

s1 == Value("SSN", "a")
s2 == Value("SSN", "b")
e1 == Value("EMAIL", "c")

\* Two values of a type, one of them twice; a placeholder that the user typed.
MCTexts == {<<s1, e1, s2, s1>>, <<s2, Token("SSN", 1)>>}
\* A value in another field of every request.
MCRests == {{s1}}
MCAnswers == {e1, s2, Token("SSN", 1)}

MCValues == {s1, s2, e1}
MCTrained == {e1}
Symmetry == Permutations(Apps)
MCDefault == [inbound |-> <<>>, inbound_default |-> "mask", outbound |-> <<>>, memorized |-> "redact"]
MCPolicies ==
    {MCDefault,
     [MCDefault EXCEPT !.inbound = [t \in {"EMAIL", "SSN"} |-> IF t = "EMAIL" THEN "allow" ELSE "redact"],
                       !.memorized = "block"],
     [MCDefault EXCEPT !.inbound = [t \in {"SSN"} |-> "block"]]}
=============================================================================
