-------------------------------- MODULE RcSession --------------------------------
(***************************************************************************)
(* Remote-control sessions: the commands create, claude, prompt,           *)
(* accept-trust and kill of shed-ext-rc and shed-machine-rc (clirc.go,     *)
(* rc/ops.go), which run as processes of their own over one tmux server    *)
(* (rc/tmux.go), and the preparation of Claude's configuration file        *)
(* (rc/trust.go).                                                          *)
(*                                                                         *)
(* A tmux call is one step; between two of them other commands run, Claude *)
(* goes on, and a command may be cut off with the connection it runs over. *)
(* A session is named by the command that created it, which stands for the *)
(* UUID it is given; a slug is the name tmux knows it by, and tmux takes   *)
(* the beginning of one for the whole.  Any tmux call may fail.  list and  *)
(* probe only read and are left out.                                       *)
(***************************************************************************)
EXTENDS Naturals, FiniteSets

CONSTANTS
    Cmds,        \* commands
    Old,         \* sessions that are there and ready from the start
    SlugOf,      \* the slug of each of them
    Slugs, Dirs, \* slugs, working directories
    Longer,      \* of a slug: the slugs that begin with it
    Asks,        \* bound: what commands may be asked
    MaxSaves,    \* bound: rewrites of the file by Claude
    None

Sessions == Cmds \cup Old

\* IsClaudeKind, AcceptsTypedInput
Claudes == {"claude-rc", "claude-broker"}
Typable == {"claude-rc", "shell"}

ASSUME RcAssumption ==
    /\ MaxSaves \in Nat
    /\ None \notin Sessions /\ Cmds \cap Old = {}
    /\ SlugOf \in [Old -> Slugs]
    /\ \A s, o \in Old : SlugOf[s] = SlugOf[o] => s = o
    /\ Longer \in [Slugs -> SUBSET Slugs]

\* What the flags of the verbs let be asked: only prompt takes a session id, and the
\* claude verb starts a claude-rc session without a prompt and waits for it.
ASSUME AskAssumption ==
    /\ Asks \subseteq [verb : {"create", "claude", "prompt", "accept-trust", "kill"},
                       slug : Slugs, kind : Claudes \cup Typable, bypass : BOOLEAN,
                       wait : BOOLEAN, text : {None, "line", "block", "unsafe"},
                       guard : Sessions \cup {None}, dir : Dirs]
    /\ \A a \in Asks :
          /\ a.guard # None => a.verb = "prompt"
          /\ a.verb = "claude" => a.kind = "claude-rc" /\ a.text = None /\ a.wait

VARIABLES
    pc, ask,     \* of a command: where it is, what it is asked
    late,        \* history: prompts given the id of a session that was over
    code,        \* its exit code
    looked,      \* the session whose pane it captured last
    screen,      \* prompt: what that capture held, until it is classified
    shown,       \* create: the state that was last classified
    accepted,    \* waitUntilReady: the dialogs it has accepted
    live,        \* tmux: the session that has a slug
    pane,        \* of a session: what it shows, "gone" when it is over
    passed,      \* the dialogs of its start that were accepted
    line,        \* the texts in its input since the last Enter
    sent,        \* the texts submitted, by whose Enter
    buffer,      \* tmux: the text in buffer shed-ext-rc-prompt
    file,        \* the entries of .claude.json
    lock,        \* the command that holds the flock beside it
    copy,        \* what a command has read of the file
    claude,      \* what Claude has read of it and will write back
    saves,       \* how often it has begun to
    typed,       \* history: texts that were typed
    ended,       \* history: sessions that a kill or an Enter on "No, exit" ended
    missed,      \* history: commands whose Enter Claude dropped or a later dialog took
    dropped      \* history: entries of the file that a write took away

commandVars == <<ask, late, code, looked, screen, shown, accepted>>
paneVars == <<live, pane, passed, ended>>
inputVars == <<line, sent, missed>>
tmuxVars == <<paneVars, inputVars, buffer, typed>>
fileVars == <<file, lock, copy, claude, saves, dropped>>
vars == <<pc, commandVars, tmuxVars, fileVars>>

KindOf(s) == IF s \in Old THEN "claude-rc" ELSE ask[s].kind
NameOf(s) == IF s \in Old THEN SlugOf[s] ELSE ask[s].slug

\* What `-t rc-<slug>` finds: the session of that name or else the only one whose name
\* begins so.
At(c) ==
    LET sl == ask[c].slug
        longer == {l \in Longer[sl] : live[l] # None}
    IN IF live[sl] # None THEN live[sl]
       ELSE IF Cardinality(longer) = 1 THEN live[CHOOSE l \in longer : TRUE] ELSE None

Waits(c) == ask[c].wait \/ ask[c].text # None
Own == "own"    \* what Claude itself keeps in the file

Init ==
    /\ pc = [c \in Cmds |-> "idle"] /\ ask = [c \in Cmds |-> None] /\ late = {}
    /\ code = [c \in Cmds |-> None]
    /\ looked = [c \in Cmds |-> None] /\ screen = [c \in Cmds |-> {}] /\ shown = [c \in Cmds |-> "starting"]
    /\ accepted = [c \in Cmds |-> {}]
    /\ live = [sl \in Slugs |-> IF \E s \in Old : SlugOf[s] = sl
                                THEN CHOOSE s \in Old : SlugOf[s] = sl ELSE None]
    /\ pane = [s \in Sessions |-> IF s \in Old THEN "ready" ELSE "none"]
    /\ passed = [s \in Sessions |-> {}]
    /\ line = [s \in Sessions |-> {}] /\ sent = {} /\ buffer = None
    /\ file = {} /\ lock = None /\ copy = [c \in Cmds |-> {}] /\ claude = None
    /\ saves = 0 /\ typed = {} /\ ended = {} /\ missed = {} /\ dropped = {}

-----------------------------------------------------------------------------
(* A command's course *)

Goto(c, to) == pc' = [pc EXCEPT ![c] = to]
Exit(c, n) == Goto(c, "exit") /\ code' = [code EXCEPT ![c] = n]

\* create exits with 0 whatever state it prints; the claude verb tells ready from others.
Finish(c) == Exit(c, IF ask[c].verb = "claude" /\ shown'[c] # "ready" THEN 1 ELSE 0)

\* Mutant: prompt drops it as well.
Fail_Silent(c, n) == Finish(c)

\* A failure of what was to be delivered: create drops it, prompt reports it.
Fail(c, n) == IF ask[c].verb = "prompt" THEN Exit(c, n)
              ELSE Finish(c)

\* ErrBadArgs before anything is done: a prompt for a broker or with control
\* characters, a permission mode for a shell.
Invalid(a) ==
    \/ a.text = "unsafe"
    \/ a.verb = "create" /\ a.text # None /\ a.kind \notin Typable
    \/ a.verb = "create" /\ a.bypass /\ a.kind \notin Claudes

\* Where a command begins: the verbs of run, IsClaudeKind in Create.
First(a) == IF a.verb = "kill" THEN "kill"
            ELSE IF a.verb \in {"prompt", "accept-trust"} THEN "capture"
            ELSE IF a.kind \in Claudes THEN "preseed" ELSE "new"

\* The command line is parsed.  A guard is the id of a session that was created.
Start(c) ==
    /\ pc[c] = "idle"
    /\ \E a \in Asks :
          /\ a.guard # None => pane[a.guard] # "none"
          /\ ask' = [ask EXCEPT ![c] = a]
          /\ late' = IF a.guard # None /\ pane[a.guard] = "gone" THEN late \cup {c} ELSE late
          /\ IF Invalid(a) THEN Exit(c, 2)
             ELSE Goto(c, First(a)) /\ UNCHANGED code
    /\ UNCHANGED <<looked, screen, shown, accepted, tmuxVars, fileVars>>

-----------------------------------------------------------------------------
(* PreseedClaudeConfig: under the lock, read, merge, rename *)

\* Mutant: the lock is not taken.
Locked_Never == FALSE
Locked == lock # None

Write(new, by) ==
    /\ file' = new
    /\ dropped' = dropped \cup {[by |-> by, entry |-> x] : x \in file \ new}

PreseedRead(c) ==
    /\ pc[c] = "preseed" /\ ~Locked
    /\ Goto(c, "seeding")
    /\ lock' = c
    /\ copy' = [copy EXCEPT ![c] = file]
    /\ UNCHANGED <<commandVars, tmuxVars, file, claude, saves, dropped>>

PreseedWrite(c) ==
    /\ pc[c] = "seeding"
    /\ Goto(c, "new")
    /\ Write(copy[c] \cup {ask[c].dir}, "preseed")
    /\ lock' = None /\ copy' = [copy EXCEPT ![c] = {}]
    /\ UNCHANGED <<commandVars, tmuxVars, claude, saves>>

\* No home, no lock, not JSON, disk full: the error is dropped.
PreseedFails(c) ==
    /\ pc[c] \in {"preseed", "seeding"}
    /\ Goto(c, "new")
    /\ lock' = IF pc[c] = "seeding" THEN None ELSE lock
    /\ copy' = [copy EXCEPT ![c] = {}]
    /\ UNCHANGED <<commandVars, tmuxVars, file, claude, saves, dropped>>

-----------------------------------------------------------------------------
(* Create and waitUntilReady *)

\* new-session takes the name as it is: only the same one is a duplicate.
NewSession(c) ==
    /\ pc[c] = "new"
    /\ \/ live[ask[c].slug] # None /\ Exit(c, 3) /\ UNCHANGED <<live, pane>>
       \/ Exit(c, 1) /\ UNCHANGED <<live, pane>>
       \/ /\ live[ask[c].slug] = None
          /\ live' = [live EXCEPT ![ask[c].slug] = c]
          /\ pane' = [pane EXCEPT ![c] = "starting"]
          /\ IF Waits(c) THEN Goto(c, "poll") /\ UNCHANGED code ELSE Exit(c, 0)
    /\ UNCHANGED <<ask, late, looked, screen, shown, accepted, passed, ended, inputVars, buffer, typed, fileVars>>

\* What a pane shows before a session is up; it stays up until it is gone.  A "dialog" is
\* any screen that takes the keyboard after that, a login or a permission, say.
StartScreens == {"starting", "bypass", "bypass2", "bypass1", "trust", "auth"}
Up == {"ready", "dialog", "reconnecting"}

\* capturePane: what the screen says, and of what its last 200 lines may still hold: the
\* URL of a session that is up, whatever has the keyboard, and dialogs answered before.
Captures(s) ==
    {m \cup (IF pane[s] = "starting" THEN {} ELSE {"text"})
       \cup (IF pane[s] \in {"bypass", "bypass2", "bypass1"} THEN {"bypass"}
             ELSE {pane[s]} \cap {"trust", "auth", "reconnecting"})
        : m \in SUBSET (passed[s] \cup (IF pane[s] \in Up THEN {"url"} ELSE {}))}

\* ClassifyPane: `kind` is what the reader takes the session for, `of` what runs in the
\* pane.  Any text makes a shell ready; only a URL of its own kind makes Claude ready.
\* The bypass dialog is no state.
ClassifyPane(kind, of, m) ==
    IF kind = "shell" THEN IF "text" \in m THEN "ready" ELSE "starting"
    ELSE IF "trust" \in m THEN "trust"
    ELSE IF "auth" \in m THEN "auth"
    ELSE IF kind = "claude-broker" /\ "reconnecting" \in m THEN "reconnecting"
    ELSE IF kind = of /\ "url" \in m THEN "ready" ELSE "starting"

Poll(c) ==
    /\ pc[c] = "poll" /\ At(c) # None
    /\ \E m \in Captures(At(c)) :
          LET st == ClassifyPane(ask[c].kind, KindOf(At(c)), m)
              sees(d) == ask[c].kind \in Claudes /\ d \in m /\ d \notin accepted[c]
              bypass == ask[c].bypass /\ sees("bypass")
          IN \/ /\ bypass
                /\ Goto(c, "down")
                /\ UNCHANGED <<code, shown, accepted>>
             \/ /\ ~bypass /\ sees("trust")
                /\ shown' = [shown EXCEPT ![c] = st]
                /\ accepted' = [accepted EXCEPT ![c] = @ \cup {"trust"}]
                /\ Goto(c, "trust")
                /\ UNCHANGED code
             \/ /\ ~bypass /\ ~sees("trust")
                /\ shown' = [shown EXCEPT ![c] = st]
                /\ \/ st = "starting" /\ UNCHANGED <<pc, code>>
                   \/ st = "ready" /\ ask[c].text # None /\ Goto(c, "type") /\ UNCHANGED code
                   \/ st # "starting" /\ (st = "ready" => ask[c].text = None) /\ Finish(c)
                /\ UNCHANGED accepted
    /\ looked' = [looked EXCEPT ![c] = At(c)]
    /\ UNCHANGED <<ask, late, screen, tmuxVars, fileVars>>

\* The session is gone: reported as dead.
PollDead(c) ==
    /\ pc[c] = "poll" /\ At(c) = None
    /\ shown' = [shown EXCEPT ![c] = "dead"]
    /\ Finish(c)
    /\ UNCHANGED <<ask, late, looked, screen, accepted, tmuxVars, fileVars>>

\* Mutant: the text is sent whatever the state.
PollTimesOut_Types(c) ==
    /\ pc[c] = "poll"
    /\ UNCHANGED shown
    /\ IF ask[c].text # None THEN Goto(c, "type") /\ UNCHANGED code ELSE Finish(c)
    /\ UNCHANGED <<ask, late, looked, screen, accepted, tmuxVars, fileVars>>

\* The deadline of 20 seconds: the last state is printed.
PollTimesOut(c) ==
    /\ pc[c] = "poll"
    /\ UNCHANGED shown
    /\ Finish(c)
    /\ UNCHANGED <<ask, late, looked, screen, accepted, tmuxVars, fileVars>>

-----------------------------------------------------------------------------
(* Keys sent to the pane that has the slug now *)

\* An Enter in session s submits the line; or it answers a dialog with the option that is
\* selected; or nothing takes it, one that comes while Claude ingests a text included.
Submits(c, s) ==
    /\ pane[s] = "ready"
    /\ line' = [line EXCEPT ![s] = {}]
    /\ sent' = sent \cup {[text |-> t, by |-> c] : t \in line[s]}
    /\ UNCHANGED <<paneVars, missed>>

Answers(c, s) ==
    /\ pane[s] \in {"bypass2", "trust", "dialog"}
    /\ pane' = [pane EXCEPT ![s] = IF @ = "dialog" THEN "ready" ELSE "starting"]
    /\ passed' = [passed EXCEPT ![s] = CASE pane[s] = "bypass2" -> @ \cup {"bypass"}
                                         [] pane[s] = "trust" -> @ \cup {"trust"}
                                         [] OTHER -> @]
    /\ missed' = IF pane[s] = "dialog" THEN missed \cup {c} ELSE missed
    /\ UNCHANGED <<live, ended, line, sent>>

Ends(c, s, how) ==
    /\ pane' = [pane EXCEPT ![s] = "gone"]
    /\ live' = [live EXCEPT ![NameOf(s)] = None]
    /\ ended' = ended \cup {[session |-> s, by |-> c, how |-> how]}
    /\ UNCHANGED <<passed, inputVars>>

Ignored(c, s) ==
    /\ \/ pane[s] \in {"starting", "auth", "reconnecting"} /\ UNCHANGED missed
       \/ pane[s] = "ready" /\ line[s] # {} /\ KindOf(s) \in Claudes /\ missed' = missed \cup {c}
    /\ UNCHANGED <<paneVars, line, sent>>

Press(c) ==
    /\ At(c) # None
    /\ LET s == At(c) IN
          \/ Submits(c, s) \/ Answers(c, s) \/ Ignored(c, s)
          \/ pane[s] = "bypass" /\ Ends(c, s, "declined")
          \/ pane[s] = "bypass1" /\ Ends(c, s, "declined again")
    /\ UNCHANGED <<buffer, typed>>

\* Mutant: acceptBypassPrompt is a bare Enter.
Down_Skipped(c) ==
    /\ pc[c] = "down"
    /\ Goto(c, "downEnter")
    /\ UNCHANGED <<commandVars, tmuxVars, fileVars>>

\* acceptBypassPrompt: "1. No, exit" is selected, so go down first; from the second option
\* Down may wrap round to the first.  A Down that fails is retried.
Down(c) ==
    /\ pc[c] = "down"
    /\ \/ Goto(c, "poll") /\ UNCHANGED pane
       \/ /\ At(c) # None
          /\ Goto(c, "downEnter")
          /\ \/ pane[At(c)] \in {"bypass", "bypass1"} /\ pane' = [pane EXCEPT ![At(c)] = "bypass2"]
             \/ pane[At(c)] = "bypass2" /\ pane' = [pane EXCEPT ![At(c)] = "bypass1"]
             \/ pane[At(c)] \notin {"bypass", "bypass1"} /\ UNCHANGED pane
    /\ UNCHANGED <<commandVars, live, passed, ended, inputVars, buffer, typed, fileVars>>

\* The dialog is done with only when both were sent: after an Enter that fails, the next
\* poll begins with Down again.
DownEnter(c) ==
    /\ pc[c] = "downEnter"
    /\ Goto(c, "poll")
    /\ \/ UNCHANGED <<accepted, tmuxVars>>
       \/ Press(c) /\ accepted' = [accepted EXCEPT ![c] = @ \cup {"bypass"}]
    /\ UNCHANGED <<ask, late, code, looked, screen, shown, fileVars>>

\* sendEnter on the trust dialog, by create and by accept-trust; its result is dropped.
AcceptTrust(c) ==
    /\ pc[c] = "trust"
    /\ Press(c) \/ UNCHANGED tmuxVars
    /\ IF ask[c].verb = "accept-trust" THEN Exit(c, 0) ELSE Goto(c, "poll") /\ UNCHANGED code
    /\ UNCHANGED <<ask, late, looked, screen, shown, accepted, fileVars>>

\* `text`, typed by c, arrives; a dialog swallows it.
Typed(c, text) ==
    LET s == At(c) IN
    /\ line' = IF pane[s] \in {"starting", "ready", "reconnecting"}
               THEN [line EXCEPT ![s] = @ \cup {text}] ELSE line
    /\ typed' = typed \cup {[text |-> text, by |-> c, into |-> s, pane |-> pane[s]]}

\* A tmux call that fails, since there is no session (4) or for a moment (1).
Failed(c) == \/ At(c) = None /\ Fail(c, 4)
             \/ Fail(c, 1)

\* sendLine with a text of one line.
SendKeys(c) ==
    /\ pc[c] = "type" /\ ask[c].text = "line"
    /\ UNCHANGED shown
    /\ \/ Failed(c) /\ UNCHANGED <<line, typed>>
       \/ At(c) # None /\ Typed(c, c) /\ Goto(c, "enter") /\ UNCHANGED code
    /\ UNCHANGED <<ask, late, looked, screen, accepted, paneVars, sent, missed, buffer, fileVars>>

\* sendBlock: set-buffer, then paste-buffer -d.  Every command uses the same buffer.
SetBuffer(c) ==
    /\ pc[c] = "type" /\ ask[c].text = "block"
    /\ UNCHANGED shown
    /\ \/ Fail(c, 1) /\ UNCHANGED buffer
       \/ Goto(c, "paste") /\ buffer' = c /\ UNCHANGED code
    /\ UNCHANGED <<ask, late, looked, screen, accepted, paneVars, inputVars, typed, fileVars>>

PasteBuffer(c) ==
    /\ pc[c] = "paste"
    /\ UNCHANGED shown
    /\ \/ Failed(c) /\ UNCHANGED <<line, typed, buffer>>
       \/ /\ At(c) # None /\ buffer # None
          /\ Typed(c, buffer) /\ buffer' = None /\ Goto(c, "enter") /\ UNCHANGED code
    /\ UNCHANGED <<ask, late, looked, screen, accepted, paneVars, sent, missed, fileVars>>

Enter(c) ==
    /\ pc[c] = "enter"
    /\ UNCHANGED shown
    /\ \/ Failed(c) /\ UNCHANGED tmuxVars
       \/ Press(c) /\ Finish(c)
    /\ UNCHANGED <<ask, late, looked, screen, accepted, fileVars>>

-----------------------------------------------------------------------------
(* prompt, accept-trust, kill *)

\* capturePaneChecked
Capture(c) ==
    /\ pc[c] = "capture"
    /\ \/ Exit(c, IF At(c) = None THEN 4 ELSE 1) /\ UNCHANGED <<looked, screen>>
       \/ /\ At(c) # None
          /\ looked' = [looked EXCEPT ![c] = At(c)]
          /\ \E m \in Captures(At(c)) :
                IF ask[c].verb = "prompt"
                THEN Goto(c, "check") /\ screen' = [screen EXCEPT ![c] = m] /\ UNCHANGED code
                ELSE /\ UNCHANGED screen
                     /\ IF "trust" \in m THEN Goto(c, "trust") /\ UNCHANGED code ELSE Exit(c, 0)
    /\ UNCHANGED <<ask, late, shown, accepted, tmuxVars, fileVars>>

\* ParseSession of the environment of session e: without one a session is unmanaged, has no
\* id and counts as a broker.
KindRead(e) == IF e = None THEN "claude-broker" ELSE KindOf(e)
Accepts(c, e) ==
    /\ KindRead(e) \in Typable
    /\ ClassifyPane(KindRead(e), KindOf(looked[c]), screen[c]) = "ready"

\* Mutant: the session id is not compared.
Check_NoGuard(c) ==
    /\ pc[c] = "check"
    /\ IF Accepts(c, At(c)) THEN Goto(c, "type") /\ UNCHANGED code ELSE Exit(c, 2)
    /\ screen' = [screen EXCEPT ![c] = {}]
    /\ UNCHANGED <<ask, late, looked, shown, accepted, tmuxVars, fileVars>>

\* Mutant: a session that is not ready takes prompts.
Check_AnyState(c) ==
    /\ pc[c] = "check"
    /\ IF ask[c].guard \in {None, At(c)} THEN Goto(c, "type") /\ UNCHANGED code
       ELSE Exit(c, 4)
    /\ screen' = [screen EXCEPT ![c] = {}]
    /\ UNCHANGED <<ask, late, looked, shown, accepted, tmuxVars, fileVars>>

\* loadSession reads the environment after the pane, and takes a failure for none; then
\* id, kind and state are checked.
Check(c) ==
    /\ pc[c] = "check"
    /\ \E e \in {At(c), None} :
          IF ask[c].guard \notin {None, e} THEN Exit(c, 4)
          ELSE IF Accepts(c, e) THEN Goto(c, "type") /\ UNCHANGED code
          ELSE Exit(c, 2)
    /\ screen' = [screen EXCEPT ![c] = {}]
    /\ UNCHANGED <<ask, late, looked, shown, accepted, tmuxVars, fileVars>>

\* Idempotent: a missing session is success.
Kill(c) ==
    /\ pc[c] = "kill"
    /\ \/ At(c) = None /\ Exit(c, 0) /\ UNCHANGED tmuxVars
       \/ Exit(c, 1) /\ UNCHANGED tmuxVars
       \/ At(c) # None /\ Ends(c, At(c), "killed") /\ Exit(c, 0) /\ UNCHANGED <<buffer, typed>>
    /\ UNCHANGED <<ask, late, looked, screen, shown, accepted, fileVars>>

-----------------------------------------------------------------------------
(* Claude, and the connections commands run over *)

\* Claude's start goes from dialog to dialog, then to ready or, when not logged in, auth.
Show(s) ==
    /\ s \in Cmds /\ pane[s] = "starting"
    /\ LET bypass == ask[s].bypass /\ "bypass" \notin passed[s]
           trust == KindOf(s) \in Claudes /\ "trust" \notin passed[s] /\ ask[s].dir \notin file
       IN \E p \in (IF bypass THEN {"bypass"} ELSE IF trust THEN {"trust"}
                    ELSE IF KindOf(s) \in Claudes THEN {"ready", "auth"} ELSE {"ready"}) :
             pane' = [pane EXCEPT ![s] = p]
    /\ UNCHANGED <<pc, commandVars, live, passed, ended, inputVars, buffer, typed, fileVars>>

\* A broker loses and regains its connection.  In the others a dialog comes up, or is
\* answered from a phone or a browser.
Interrupted(s) ==
    /\ pane[s] \in Up
    /\ pane' = [pane EXCEPT ![s] = IF @ # "ready" THEN "ready"
                                   ELSE IF KindOf(s) = "claude-broker" THEN "reconnecting"
                                   ELSE "dialog"]
    /\ UNCHANGED <<pc, commandVars, live, passed, ended, inputVars, buffer, typed, fileVars>>

\* Claude reads its file and writes it back, without the lock.
ClaudeReads ==
    /\ claude = None /\ saves < MaxSaves
    /\ claude' = file /\ saves' = saves + 1
    /\ UNCHANGED <<pc, commandVars, tmuxVars, file, lock, copy, dropped>>

ClaudeWrites ==
    /\ claude # None
    /\ Write(claude \cup {Own}, "claude")
    /\ claude' = None
    /\ UNCHANGED <<pc, commandVars, tmuxVars, lock, copy, saves>>

\* The command dies with its connection, and the kernel gives its lock back.  Cut off
\* anywhere else, a command is one that takes no further step.
Cut(c) ==
    /\ pc[c] = "seeding"
    /\ Goto(c, "cut")
    /\ lock' = None /\ copy' = [copy EXCEPT ![c] = {}]
    /\ UNCHANGED <<commandVars, tmuxVars, file, claude, saves, dropped>>

-----------------------------------------------------------------------------
Command(c) ==
    \/ Start(c) \/ PreseedRead(c) \/ PreseedWrite(c) \/ PreseedFails(c)
    \/ NewSession(c) \/ Poll(c) \/ PollDead(c) \/ PollTimesOut(c)
    \/ Down(c) \/ DownEnter(c) \/ AcceptTrust(c)
    \/ SendKeys(c) \/ SetBuffer(c) \/ PasteBuffer(c) \/ Enter(c)
    \/ Capture(c) \/ Check(c) \/ Kill(c)

Next ==
    \/ \E c \in Cmds : Command(c) \/ Cut(c)
    \/ \E s \in Sessions : Show(s) \/ Interrupted(s)
    \/ ClaudeReads \/ ClaudeWrites

Spec == Init /\ [][Next]_vars

-----------------------------------------------------------------------------
\* Every variable has its type, and tmux gives a slug to a session that lives.
TypeOK ==
    /\ ask \in [Cmds -> Asks \cup {None}] /\ code \in [Cmds -> {None} \cup 0..4]
    /\ looked \in [Cmds -> Sessions \cup {None}]
    /\ live \in [Slugs -> Sessions \cup {None}]
    /\ \A sl \in Slugs : live[sl] # None => pane[live[sl]] \notin {"none", "gone"}
    /\ line \in [Sessions -> SUBSET Cmds] /\ buffer \in Cmds \cup {None}
    /\ missed \subseteq Cmds /\ late \subseteq Cmds
    /\ file \subseteq Dirs \cup {Own} /\ lock \in Cmds \cup {None}
    /\ lock # None => pc[lock] = "seeding"

\* The session a command is about: for create the one it made, else the one it found.
About(c) == IF ask[c].verb \in {"create", "claude"} THEN c ELSE looked[c]

\* What a command is to act upon is no longer what its slug stands for, or never was.
Elsewhere(s, c) == pane[s] = "gone" \/ NameOf(s) # ask[c].slug

\* A prompt given a session id is typed into that session, or else, when the slug came to
\* stand for another after the id was compared, into that one; never when the session was
\* over before the prompt was given.  And no text is typed at a screen of a session's start,
\* except when the slug has come to stand for another session than the one looked at, or is
\* only the beginning of that one's name: id and state are read before the text is sent.  A
\* session that is up is ready for a command whatever has its keyboard.
TypedWhereChecked ==
    \A t \in typed :
        LET a == About(t.by)
            g == ask[t.by].guard
        IN /\ g # None => t.by \notin late /\ (t.into = g \/ Elsewhere(g, t.by))
           /\ t.pane \in StartScreens => Elsewhere(a, t.by) /\ (t.into = a => NameOf(a) # ask[t.by].slug)

\* No Enter of any command answers "No, exit" to the bypass dialog of the session it is
\* about, unless its slug was the beginning of another name or has been taken since, or a
\* second Down, sent since an Enter failed or by a command that is elsewhere, has wrapped
\* round to that option.  (It takes the types along.)
BypassNotRefused ==
    /\ TypeOK
    /\ \A x \in ended : x.how = "declined" =>
          LET a == About(x.by)
          IN Elsewhere(a, x.by) /\ (x.session = a => NameOf(a) # ask[x.by].slug)

Submitted(b) == \E x \in sent : x.text = b

\* The text was the command's own, or came out of the buffer that blocks share.
OwnOrPasted(t) == t.text = t.by \/ (ask[t.by].text = "block" /\ ask[t.text].text = "block")

\* It was submitted, unless Claude dropped the Enter, or a dialog that came up on the way
\* took Enter or text, or the slug came to stand for another session.
Delivered(t) ==
    \/ Submitted(t.text)
    \/ t.by \in missed \/ t.pane = "dialog"
    \/ Elsewhere(looked[t.by], t.by)

\* What prompt's exit code says is true as far as tmux can tell: 0 says that the text it
\* typed was submitted, which is its own unless two blocks met in the shared buffer;
\* anything else says that its Enter submitted nothing, neither its own text nor another's.
PromptTold ==
    \A c \in Cmds :
        ask[c] # None /\ ask[c].verb = "prompt" /\ pc[c] = "exit" =>
            IF code[c] = 0 THEN \E t \in typed : t.by = c /\ OwnOrPasted(t) /\ Delivered(t)
            ELSE \A x \in sent : x.by # c

-----------------------------------------------------------------------------
\* Concurrent creates, one of them cut off in the middle, keep each other's trust
\* entries, and Claude's; what Claude writes may drop theirs, and what it writes while a
\* preseed is between its read and its rename is lost.
PreseedsMerge == \A d \in dropped : d.by = "preseed" => d.entry = Own

=============================================================================
