------------------------------ MODULE MCServer ------------------------------
(* The instances of Server that TLC checks. *)
EXTENDS Server, TLC

\* A body with every field, and one of a PATCH that only names new content.
MCBodies == {[feature |-> 1, tags |-> Tags, active |-> TRUE],
             [feature |-> 1, tags |-> Tags, active |-> Absent]}

MCInputs == {FromBody(b) : b \in MCBodies}

Symmetry == Permutations(Handlers)

\* All variables but out and response: what the last step answered.  No action
\* reads these two, and the action properties checked with this view do so in
\* the next state only, so states that differ in them alone go on alike.  (The
\* type invariant looks at both in the states that are kept.)
View ==
    <<table, drawn, age, cached, ttl, index, pc, req, members, tries, target,
      todo, newTags, held, ticker, tickBuf, call, users, token, signup>>
=============================================================================
