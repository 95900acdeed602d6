------------------------------- MODULE MCRcSession -------------------------------
(* Commands for TLC, three at a time, in three scenarios that are checked one by one: *)
(* creates that wait, prompts over a session that is there, and creates that write    *)
(* Claude's file, each with what gets in their way.                                   *)
EXTENDS RcSession, TLC

CONSTANTS x, xy, z, zy   \* slugs: x is the beginning of xy, and z of zy

Symmetry == Permutations(Cmds)

MCSlugOf == [s \in Old |-> xy]
MCLonger == [sl \in Slugs |-> IF sl = x THEN {xy} ELSE IF sl = z THEN {zy} ELSE {}]
D1 == CHOOSE d \in Dirs : TRUE
D2 == CHOOSE d \in Dirs \ {D1} : TRUE

\* A command on its own, and what may be added to it.
Ask(verb, slug) ==
    [verb |-> verb, slug |-> slug, kind |-> "claude-rc", bypass |-> FALSE, wait |-> FALSE,
     text |-> None, guard |-> None, dir |-> D1]
Create(slug) == Ask("create", slug)

\* Creates that write Claude's file and wait for nothing.
Trusts == {Create(z), [Create(zy) EXCEPT !.dir = D2]}

\* Creates that wait, with what gets in their way.
Creates ==
    {[Create(z) EXCEPT !.bypass = TRUE, !.text = "line"],
     [Ask("claude", zy) EXCEPT !.wait = TRUE],
     Ask("accept-trust", z), Ask("kill", z)}

\* Prompts, with the sessions that come and go meanwhile.
Prompts ==
    {[Ask("prompt", xy) EXCEPT !.text = "block"],
     [Ask("prompt", x) EXCEPT !.text = "unsafe"],
     [Ask("prompt", x) EXCEPT !.text = "line"],
     [Create(x) EXCEPT !.bypass = TRUE],
     [Create(x) EXCEPT !.kind = "shell", !.text = "block"],
     [Create(xy) EXCEPT !.kind = "claude-broker", !.wait = TRUE],
     Create(xy), Ask("kill", xy), Ask("kill", x)}
    \cup {[Ask("prompt", xy) EXCEPT !.text = "line", !.guard = g] : g \in Sessions}

MCAsks == Trusts \cup Creates \cup Prompts

\* One scenario at a time.  The session that is there and Claude's rewriting of its file
\* only matter where they are asked about.
Scenarios ==
    LET Only(asks) == \A c \in Cmds : ask[c] \in asks \cup {None}
        apart == \A s \in Old : pane[s] = "ready"
    IN \/ Only(Prompts) /\ saves = 0
       \/ Only(Creates) /\ saves = 0 /\ apart
       \/ Only(Trusts) /\ apart

=============================================================================
