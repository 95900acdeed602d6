----------------------------- MODULE RcSessionProofs -----------------------------
(***************************************************************************)
(* Proofs about RcSession, for any number of commands and sessions, and    *)
(* any number of rewrites by Claude: first Claude's configuration file,    *)
(* then, in four layers, what commands type into sessions.                 *)
(***************************************************************************)
EXTENDS RcSession, FiniteSetTheorems, TLAPS

-----------------------------------------------------------------------------
(* The invariant of Claude's configuration file *)

Types == DOMAIN pc = Cmds /\ DOMAIN copy = Cmds

\* A command between its read and its rename holds the lock.
Holds == \A c \in Cmds : pc[c] = "seeding" => lock = c

\* What that command has read lacks nothing the file has since, but for what Claude itself
\* keeps there.
CopyCurrent == \A c \in Cmds : pc[c] = "seeding" => file \subseteq copy[c] \cup {Own}

\* What Claude will write back is in the file: preseeds only add to it.
ClaudeBehind == claude # None => claude \subseteq file \cup {Own}

FileInv == Types /\ Holds /\ CopyCurrent /\ ClaudeBehind /\ PreseedsMerge

-----------------------------------------------------------------------------
\* A command that is not preparing the file leaves it alone.
LEMMA OthersLeaveFile ==
    ASSUME FileInv, UNCHANGED fileVars, DOMAIN pc' = Cmds,
           \A c \in Cmds : pc'[c] = "seeding" => pc[c] = "seeding"
    PROVE  FileInv'
  BY DEF FileInv, Types, Holds, CopyCurrent, ClaudeBehind, PreseedsMerge, fileVars

\* A command takes the lock and reads the file.
LEMMA PreseedReadStep == ASSUME FileInv, NEW c \in Cmds, PreseedRead(c) PROVE FileInv'
<1>1. /\ pc' = [pc EXCEPT ![c] = "seeding"] /\ lock = None /\ lock' = c
      /\ copy' = [copy EXCEPT ![c] = file] /\ UNCHANGED <<file, claude, dropped>>
  BY DEF PreseedRead, Goto, Locked
<1>2. \A q \in Cmds : pc'[q] = "seeding" => q = c
  BY <1>1, RcAssumption DEF FileInv, Types, Holds, Sessions
<1> QED
  BY <1>1, <1>2 DEF FileInv, Types, Holds, CopyCurrent, ClaudeBehind, PreseedsMerge

\* It merges its entry in and gives the lock back.
LEMMA PreseedWriteStep == ASSUME FileInv, NEW c \in Cmds, PreseedWrite(c) PROVE FileInv'
<1>1. /\ pc[c] = "seeding" /\ pc' = [pc EXCEPT ![c] = "new"] /\ lock' = None
      /\ copy' = [copy EXCEPT ![c] = {}] /\ UNCHANGED claude
      /\ file' = copy[c] \cup {ask[c].dir}
      /\ dropped' = dropped \cup {[by |-> "preseed", entry |-> x] : x \in file \ file'}
  BY DEF PreseedWrite, Goto, Write
<1>2. file \subseteq file' \cup {Own}
  BY <1>1 DEF FileInv, CopyCurrent
<1>3. \A q \in Cmds : pc'[q] # "seeding"
  BY <1>1, RcAssumption DEF FileInv, Types, Holds, Sessions
<1>4. PreseedsMerge'
  BY <1>1, <1>2 DEF FileInv, PreseedsMerge
<1> QED
  BY <1>1, <1>2, <1>3, <1>4 DEF FileInv, Types, Holds, CopyCurrent, ClaudeBehind

\* The preparation fails, or the command is cut off in it.
LEMMA PreseedEnds ==
    ASSUME FileInv, NEW c \in Cmds, PreseedFails(c) \/ Cut(c) PROVE FileInv'
<1>1. /\ DOMAIN pc' = Cmds /\ DOMAIN copy' = Cmds /\ UNCHANGED <<file, claude, dropped>>
      /\ pc'[c] # "seeding"
      /\ \A q \in Cmds \ {c} : pc'[q] = pc[q] /\ copy'[q] = copy[q]
      /\ lock' = lock \/ pc[c] = "seeding"
  BY DEF PreseedFails, Cut, Goto, FileInv, Types
<1>2. Holds'
  BY <1>1 DEF FileInv, Holds
<1> QED
  BY <1>1, <1>2 DEF FileInv, Types, CopyCurrent, ClaudeBehind, PreseedsMerge

\* Claude reads the file, or writes it back.
LEMMA ClaudeStep == ASSUME FileInv, ClaudeReads \/ ClaudeWrites PROVE FileInv'
<1>1. UNCHANGED <<pc, lock, copy>>
  BY DEF ClaudeReads, ClaudeWrites
<1>2. CASE ClaudeReads
  BY <1>1, <1>2
    DEF ClaudeReads, FileInv, Types, Holds, CopyCurrent, ClaudeBehind, PreseedsMerge
<1>3. CASE ClaudeWrites
  <2>1. /\ claude # None /\ claude' = None /\ file' = claude \cup {Own}
        /\ dropped' = dropped \cup {[by |-> "claude", entry |-> x] : x \in file \ file'}
    BY <1>3 DEF ClaudeWrites, Write
  <2>2. CopyCurrent'
    BY <1>1, <2>1 DEF FileInv, CopyCurrent, ClaudeBehind
  <2>3. PreseedsMerge'
    BY <2>1 DEF FileInv, PreseedsMerge
  <2> QED
    BY <1>1, <2>1, <2>2, <2>3 DEF FileInv, Types, Holds, ClaudeBehind
<1> QED
  BY <1>2, <1>3

\* Whatever else commands do leaves the file alone.
LEMMA CommandStep == ASSUME FileInv, NEW c \in Cmds, Command(c) PROVE FileInv'
<1>1. CASE PreseedRead(c) \/ PreseedWrite(c) \/ PreseedFails(c)
  BY <1>1, PreseedReadStep, PreseedWriteStep, PreseedEnds
<1>2. CASE ~(PreseedRead(c) \/ PreseedWrite(c) \/ PreseedFails(c))
  <2>1. UNCHANGED fileVars /\ DOMAIN pc' = DOMAIN pc
        /\ \A q \in DOMAIN pc : pc'[q] = "seeding" => pc[q] = "seeding"
    <3>1. CASE Start(c)
      BY <3>1 DEF Start, Exit, Goto, First
    <3>2. CASE NewSession(c) \/ Poll(c) \/ PollDead(c) \/ PollTimesOut(c)
      BY <3>2 DEF NewSession, Poll, PollDead, PollTimesOut, Finish, Exit, Goto
    <3>3. CASE Down(c) \/ DownEnter(c) \/ AcceptTrust(c) \/ Enter(c)
      BY <3>3 DEF Down, DownEnter, AcceptTrust, Enter, Failed, Fail, Finish, Exit, Goto
    <3>4. CASE SendKeys(c) \/ SetBuffer(c) \/ PasteBuffer(c)
      BY <3>4 DEF SendKeys, SetBuffer, PasteBuffer, Failed, Fail, Finish, Exit, Goto
    <3>5. CASE Capture(c) \/ Check(c) \/ Kill(c)
      BY <3>5 DEF Capture, Check, Kill, Exit, Goto
    <3> QED
      BY <1>2, <3>1, <3>2, <3>3, <3>4, <3>5 DEF Command
  <2> QED
    BY <2>1, OthersLeaveFile DEF FileInv, Types
<1> QED
  BY <1>1, <1>2

\* Every step keeps the invariant of the file.
THEOREM FileInvariance == Spec => []FileInv
<1>1. Init => FileInv
  BY DEF Init, FileInv, Types, Holds, CopyCurrent, ClaudeBehind, PreseedsMerge
<1>2. ASSUME FileInv, [Next]_vars PROVE FileInv'
  <2>1. CASE \E c \in Cmds : Command(c) \/ Cut(c)
    BY <1>2, <2>1, CommandStep, PreseedEnds
  <2>2. CASE \E s \in Sessions : Show(s) \/ Interrupted(s)
    BY <1>2, <2>2, OthersLeaveFile DEF Show, Interrupted, FileInv, Types
  <2>3. CASE ClaudeReads \/ ClaudeWrites
    BY <1>2, <2>3, ClaudeStep
  <2>4. CASE UNCHANGED vars
    BY <1>2, <2>4, OthersLeaveFile DEF vars, FileInv, Types
  <2> QED
    BY <1>2, <2>1, <2>2, <2>3, <2>4 DEF Next
<1> QED
  BY <1>1, <1>2, PTL DEF Spec

\* Concurrent creates keep each other's entries in the file, and Claude's, whichever of
\* them are cut off and whatever Claude writes in between (PreseedClaudeConfig).
THEOREM CreatesKeepEntries == Spec => []PreseedsMerge
<1>1. FileInv => PreseedsMerge
  BY DEF FileInv
<1> QED
  BY <1>1, FileInvariance, PTL

-----------------------------------------------------------------------------
(* Types, and where commands can be *)

\* What a pane shows.
Panes == {"none", "starting", "bypass", "bypass2", "bypass1", "trust", "auth", "ready",
          "dialog", "reconnecting", "gone"}

\* What a capture may hold.
Marks == {"text", "bypass", "trust", "auth", "reconnecting", "url"}

\* Where a command is.
Places == {"idle", "preseed", "seeding", "new", "poll", "down", "downEnter", "trust",
           "type", "paste", "enter", "capture", "check", "kill", "exit", "cut"}

\* A command that makes a session.
Makes(c) == pc[c] # "idle" /\ ask[c].verb \in {"create", "claude"}

\* Places where a command has a session: one it made, or one whose pane it captured.
Later == {"poll", "down", "downEnter", "trust", "type", "paste", "enter"}

\* What is known of a command from where it is: its verb, that what it asks is not
\* refused, and whether the session named after it exists.
Place(c) ==
    /\ pc[c] # "idle" => ask[c] \in Asks
    /\ pc[c] \notin {"idle", "exit"} => ~Invalid(ask[c])
    /\ pc[c] \in {"preseed", "seeding", "new", "poll", "down", "downEnter", "cut"} => Makes(c)
    /\ pc[c] \in {"down", "downEnter"} => ask[c].bypass
    /\ pc[c] = "capture" => ask[c].verb \in {"prompt", "accept-trust"}
    /\ pc[c] = "check" => ask[c].verb = "prompt"
    /\ pc[c] = "kill" => ask[c].verb = "kill"
    /\ pc[c] = "paste" => ask[c].text = "block"
    /\ pc[c] = "trust" => Makes(c) \/ ask[c].verb = "accept-trust"
    /\ pc[c] \in {"type", "paste", "enter"} =>
          (Makes(c) /\ ask[c].text # None) \/ ask[c].verb = "prompt"
    /\ pane[c] # "none" => Makes(c) /\ pc[c] \in Later \cup {"exit"} /\ ~Invalid(ask[c])
    /\ Makes(c) /\ pc[c] \in Later => pane[c] # "none"

\* The variables of the commands, of tmux, and of the configuration file; a slug is given
\* to sessions that were created, and whoever holds the lock is preparing the file.
CommandTypes ==
    /\ pc \in [Cmds -> Places] /\ ask \in [Cmds -> Asks \cup {None}]
    /\ code \in [Cmds -> {None} \cup 0..4]
    /\ looked \in [Cmds -> Sessions \cup {None}] /\ late \subseteq Cmds
    /\ screen \in [Cmds -> SUBSET Marks]
    /\ shown \in [Cmds -> Panes \cup {"dead"}]
    /\ accepted \in [Cmds -> SUBSET {"bypass", "trust"}]
TmuxTypes ==
    /\ live \in [Slugs -> Sessions \cup {None}] /\ pane \in [Sessions -> Panes]
    /\ passed \in [Sessions -> SUBSET {"bypass", "trust"}]
    /\ line \in [Sessions -> SUBSET Cmds]
    /\ buffer \in Cmds \cup {None} /\ missed \subseteq Cmds
    /\ \A sl \in Slugs : live[sl] # None => pane[live[sl]] # "none"
Hows == {"declined", "declined again", "killed"}
RecordTypes ==
    /\ sent \subseteq [text : Cmds, by : Cmds]
    /\ typed \subseteq [text : Cmds, by : Cmds, into : Sessions, pane : Panes]
    /\ ended \subseteq [session : Sessions, by : Cmds, how : Hows]
FileTypes ==
    /\ file \subseteq Dirs \cup {Own} /\ lock \in Cmds \cup {None}
    /\ copy \in [Cmds -> SUBSET (Dirs \cup {Own})]
    /\ claude # None => claude \subseteq Dirs \cup {Own}
    /\ lock # None => pc[lock] = "seeding"

Placed == \A c \in Cmds : Place(c)

\* Types and places, for every command.
TypesInv == CommandTypes /\ TmuxTypes /\ RecordTypes /\ FileTypes /\ Placed

\* A command that is preparing the file stays in it.
Seeds(c) == pc[c] = "seeding" => pc'[c] = "seeding"

\* The session a command finds has a slug, its own if there is one of that name.
LEMMA AtFinds ==
    ASSUME NEW c \in Cmds, ask[c].slug \in Slugs, At(c) # None
    PROVE  \E sl \in Slugs : live[sl] # None /\ At(c) = live[sl]
<1> DEFINE longer == {l \in Longer[ask[c].slug] : live[l] # None}
<1>1. CASE live[ask[c].slug] # None
  BY <1>1 DEF At
<1>2. CASE live[ask[c].slug] = None
  <2>1. Cardinality(longer) = 1 /\ At(c) = live[CHOOSE l \in longer : TRUE]
    BY <1>2 DEF At
  <2>2. longer # {}
    BY <2>1, FS_EmptySet
  <2>3. longer \subseteq Slugs
    BY RcAssumption
  <2> QED
    BY <2>1, <2>2, <2>3
<1> QED
  BY <1>1, <1>2

\* What a command that was started asks, and the session at its slug.
LEMMA AskTypes ==
    ASSUME TypesInv, NEW c \in Cmds, pc[c] # "idle"
    PROVE  /\ ask[c].slug \in Slugs /\ ask[c].dir \in Dirs
           /\ ask[c].guard \in Sessions \cup {None} /\ ask[c].bypass \in BOOLEAN
           /\ ask[c].verb \in {"create", "claude", "prompt", "accept-trust", "kill"}
           /\ ask[c].kind \in Claudes \cup Typable
           /\ ask[c].guard # None => ask[c].verb = "prompt"
           /\ ask[c].verb = "claude" => ask[c].kind = "claude-rc" /\ ask[c].text = None
           /\ At(c) \in Sessions \cup {None}
           /\ At(c) # None => pane[At(c)] # "none"
<1>1. ask[c] \in Asks
  BY DEF TypesInv, Placed, Place
<1>2. ask[c].slug \in Slugs
  BY <1>1, AskAssumption
<1> QED
  BY <1>1, <1>2, AskAssumption, AtFinds DEF TypesInv, TmuxTypes

\* A step that leaves the file alone, and no command out of its preparation.
LEMMA FileKept ==
    ASSUME TypesInv, UNCHANGED fileVars, \A q \in Cmds : Seeds(q) PROVE FileTypes'
  BY DEF TypesInv, FileTypes, fileVars, Seeds

\* The places where commands begin.
LEMMA FirstPlace ==
    ASSUME NEW a PROVE First(a) \in {"kill", "capture", "preseed", "new"}
  BY DEF First

\* Starting a command keeps the types: a refused one exits, another goes to the place of
\* its verb.
LEMMA StartTypes == ASSUME TypesInv, NEW c \in Cmds, Start(c) PROVE TypesInv'
<1>1. PICK a \in Asks :
         /\ ask' = [ask EXCEPT ![c] = a] /\ late' \in {late, late \cup {c}}
         /\ \/ Invalid(a) /\ pc' = [pc EXCEPT ![c] = "exit"] /\ code' = [code EXCEPT ![c] = 2]
            \/ ~Invalid(a) /\ pc' = [pc EXCEPT ![c] = First(a)] /\ UNCHANGED code
  BY DEF Start, Exit, Goto
<1>2. pc[c] = "idle" /\ UNCHANGED <<looked, screen, shown, accepted, tmuxVars, fileVars>>
  BY DEF Start
<1>3. CommandTypes'
  BY <1>1, <1>2, FirstPlace DEF TypesInv, CommandTypes, Places
<1>4. TmuxTypes' /\ RecordTypes'
  BY <1>2 DEF TypesInv, TmuxTypes, RecordTypes, tmuxVars, paneVars, inputVars
<1>5. FileTypes'
  BY <1>1, <1>2, FileKept DEF TypesInv, CommandTypes, Seeds
<1>6. Placed'
  <2> SUFFICES ASSUME NEW q \in Cmds PROVE Place(q)'
    BY DEF Placed
  <2>1. CASE q # c
    BY <1>1, <1>2, <2>1 DEF TypesInv, Placed, Place, CommandTypes, Makes, tmuxVars, paneVars
  <2>2. CASE q = c
    <3>1. ask'[c] = a /\ pane'[c] = "none"
      BY <1>1, <1>2 DEF TypesInv, Placed, Place, CommandTypes, Makes, tmuxVars, paneVars
    <3>2. CASE Invalid(a)
      BY <1>1, <2>2, <3>1, <3>2 DEF TypesInv, Place, CommandTypes, Makes, Later
    <3>3. CASE ~Invalid(a)
      BY <1>1, <2>2, <3>1, <3>3, AskAssumption
        DEF TypesInv, Place, CommandTypes, Makes, Later, First
    <3> QED
      BY <3>2, <3>3
  <2> QED
    BY <2>1, <2>2
<1> QED
  BY <1>3, <1>4, <1>5, <1>6 DEF TypesInv

\* So does each step of preparing the file, and being cut off in it.
LEMMA PreseedTypes ==
    ASSUME TypesInv, NEW c \in Cmds,
           PreseedRead(c) \/ PreseedWrite(c) \/ PreseedFails(c) \/ Cut(c)
    PROVE  TypesInv'
<1>1. /\ UNCHANGED <<commandVars, tmuxVars>>
      /\ \/ pc[c] = "preseed" /\ pc' = [pc EXCEPT ![c] = "seeding"] /\ lock = None /\ lock' = c
         \/ /\ pc[c] \in {"preseed", "seeding"}
            /\ \E p \in {"new", "cut"} : pc' = [pc EXCEPT ![c] = p]
            /\ lock' \in {lock, None} /\ (pc[c] = "seeding" => lock' = None)
  BY DEF PreseedRead, PreseedWrite, PreseedFails, Cut, Goto, Locked, commandVars
<1>2. ask[c].dir \in Dirs
  BY <1>1, AskTypes
<1>3. CommandTypes'
  BY <1>1 DEF TypesInv, CommandTypes, commandVars, Places
<1>4. TmuxTypes' /\ RecordTypes'
  BY <1>1 DEF TypesInv, TmuxTypes, RecordTypes, tmuxVars, paneVars, inputVars
<1>5. FileTypes'
  <2>1. /\ file' \subseteq Dirs \cup {Own} /\ copy' \in [Cmds -> SUBSET (Dirs \cup {Own})]
        /\ UNCHANGED claude
    BY <1>2 DEF TypesInv, FileTypes, CommandTypes, PreseedRead, PreseedWrite, PreseedFails, Cut,
                Write
  <2>2. lock' \in Cmds \cup {None} /\ (lock' # None => pc'[lock'] = "seeding")
    BY <1>1 DEF TypesInv, FileTypes, CommandTypes
  <2> QED
    BY <2>1, <2>2 DEF TypesInv, FileTypes
<1>6. Placed'
  <2> SUFFICES ASSUME NEW q \in Cmds PROVE Place(q)'
    BY DEF Placed
  <2> QED
    BY <1>1 DEF TypesInv, Placed, Place, CommandTypes, Makes, Later, commandVars, tmuxVars, paneVars
<1> QED
  BY <1>3, <1>4, <1>5, <1>6 DEF TypesInv

\* Creating the session: it exists from here on, and only here a session appears.
LEMMA NewSessionTypes == ASSUME TypesInv, NEW c \in Cmds, NewSession(c) PROVE TypesInv'
<1>1. /\ pc[c] = "new" /\ UNCHANGED <<ask, late, looked, screen, shown, accepted, passed, line>>
      /\ UNCHANGED <<sent, missed, buffer, typed, ended, fileVars>> /\ ask[c].slug \in Slugs
  BY AskTypes DEF NewSession, inputVars
<1>2. /\ \E p \in {"poll", "exit"} : pc' = [pc EXCEPT ![c] = p]
      /\ \/ UNCHANGED <<live, pane>> /\ pc'[c] = "exit"
         \/ /\ live' = [live EXCEPT ![ask[c].slug] = c]
            /\ pane' = [pane EXCEPT ![c] = "starting"]
  BY DEF NewSession, Exit, Goto, TypesInv, CommandTypes
<1>3. CommandTypes'
  BY <1>1, <1>2 DEF TypesInv, CommandTypes, NewSession, Exit, Goto, Places
<1>4. TmuxTypes' /\ RecordTypes'
  <2>1. pane' \in [Sessions -> Panes] /\ \A s \in Sessions : pane[s] # "none" => pane'[s] # "none"
    BY <1>2 DEF TypesInv, TmuxTypes, Panes, Sessions
  <2>2. /\ live' \in [Slugs -> Sessions \cup {None}]
        /\ \A sl \in Slugs : live'[sl] # None => pane'[live'[sl]] # "none"
    BY <1>1, <1>2, <2>1 DEF TypesInv, TmuxTypes, Sessions
  <2> QED
    BY <1>1, <2>1, <2>2 DEF TypesInv, TmuxTypes, RecordTypes
<1>5. FileTypes'
  BY <1>1, <1>2, FileKept DEF TypesInv, CommandTypes, Seeds
<1>6. Placed'
  <2> SUFFICES ASSUME NEW q \in Cmds PROVE Place(q)'
    BY DEF Placed
  <2> QED
    BY <1>1, <1>2 DEF TypesInv, Placed, Place, CommandTypes, TmuxTypes, Makes, Later, Sessions
<1> QED
  BY <1>3, <1>4, <1>5, <1>6 DEF TypesInv

\* Waiting for the session to be ready: what Poll finds, and its two other ends.
LEMMA PollTypes ==
    ASSUME TypesInv, NEW c \in Cmds, Poll(c) \/ PollDead(c) \/ PollTimesOut(c)
    PROVE  TypesInv'
<1>1. pc[c] = "poll" /\ UNCHANGED <<ask, late, screen, tmuxVars, fileVars>>
  BY DEF Poll, PollDead, PollTimesOut
<1>2. \A m : ClassifyPane(ask[c].kind, KindOf(At(c)), m) \in Panes
  BY DEF ClassifyPane, Panes
<1>3. CommandTypes'
  <2>1. CASE Poll(c)
    BY <1>2, <2>1, AskTypes DEF TypesInv, CommandTypes, Poll, Finish, Exit, Goto, Places
  <2>2. CASE PollDead(c) \/ PollTimesOut(c)
    BY <2>2 DEF TypesInv, CommandTypes, PollDead, PollTimesOut, Finish, Exit, Goto, Places
  <2> QED
    BY <2>1, <2>2
<1>4. TmuxTypes' /\ RecordTypes'
  BY <1>1 DEF TypesInv, TmuxTypes, RecordTypes, tmuxVars, paneVars, inputVars
<1>5. /\ \E p \in {"poll", "down", "trust", "type", "exit"} : pc' = [pc EXCEPT ![c] = p]
      /\ pc'[c] = "down" => ask[c].bypass
      /\ pc'[c] = "type" => ask[c].text # None
  BY <1>1 DEF Poll, PollDead, PollTimesOut, Finish, Exit, Goto, TypesInv, CommandTypes
<1>6. FileTypes'
  BY <1>1, <1>5, FileKept DEF TypesInv, CommandTypes, Seeds
<1>7. Placed'
  <2> SUFFICES ASSUME NEW q \in Cmds PROVE Place(q)'
    BY DEF Placed
  <2> QED
    BY <1>1, <1>5 DEF TypesInv, Placed, Place, CommandTypes, Makes, Later, tmuxVars, paneVars
<1> QED
  BY <1>3, <1>4, <1>6, <1>7 DEF TypesInv

\* Moving the selection of the bypass dialog.
LEMMA DownTypes == ASSUME TypesInv, NEW c \in Cmds, Down(c) PROVE TypesInv'
<1>1. /\ pc[c] = "down" /\ UNCHANGED <<commandVars, passed, inputVars, buffer>>
      /\ UNCHANGED <<live, typed, ended, fileVars>>
      /\ \E p \in {"poll", "downEnter"} : pc' = [pc EXCEPT ![c] = p]
      /\ \/ UNCHANGED pane
         \/ /\ At(c) # None /\ pane[At(c)] # "none"
            /\ \E p \in {"bypass2", "bypass1"} : pane' = [pane EXCEPT ![At(c)] = p]
  BY DEF Down, Goto
<1>2. CommandTypes'
  BY <1>1 DEF TypesInv, CommandTypes, commandVars, Places
<1>3. TmuxTypes' /\ RecordTypes'
  BY <1>1 DEF TypesInv, TmuxTypes, RecordTypes, Panes, inputVars
<1>4. FileTypes'
  BY <1>1, FileKept DEF TypesInv, CommandTypes, Seeds
<1>5. Placed'
  <2> SUFFICES ASSUME NEW q \in Cmds PROVE Place(q)'
    BY DEF Placed
  <2> QED
    BY <1>1 DEF TypesInv, Placed, Place, CommandTypes, TmuxTypes, Makes, Later, commandVars, Sessions
<1> QED
  BY <1>2, <1>3, <1>4, <1>5 DEF TypesInv

\* The end of a session leaves the types of what tmux keeps.
LEMMA EndsTypes ==
    ASSUME TypesInv, NEW c \in Cmds, NEW s \in Sessions, NEW how \in Hows, pane[s] # "none",
           Ends(c, s, how), UNCHANGED <<buffer, typed>>
    PROVE  /\ TmuxTypes' /\ RecordTypes'
           /\ \A x \in Sessions : pane'[x] = "none" <=> pane[x] = "none"
<1>1. /\ pane' \in [Sessions -> Panes]
      /\ \A x \in Sessions : pane'[x] = "none" <=> pane[x] = "none"
  BY DEF TypesInv, TmuxTypes, Ends, Panes
<1>2. live' = [live EXCEPT ![NameOf(s)] = None] /\ UNCHANGED <<passed, line, sent, missed>>
  BY DEF Ends, inputVars
<1>3. /\ live' \in [Slugs -> Sessions \cup {None}]
      /\ \A sl \in Slugs : live'[sl] # None => live'[sl] = live[sl]
  BY <1>2 DEF TypesInv, TmuxTypes
<1>4. [session |-> s, by |-> c, how |-> how] \in [session : Sessions, by : Cmds, how : Hows]
  OBVIOUS
<1>5. RecordTypes'
  BY <1>2, <1>4 DEF TypesInv, RecordTypes, Ends
<1>6. TmuxTypes'
  BY <1>1, <1>2, <1>3 DEF TypesInv, TmuxTypes
<1> QED
  BY <1>1, <1>5, <1>6

\* An Enter leaves the types of what tmux keeps, and makes no session.
LEMMA PressTypes ==
    ASSUME TypesInv, NEW c \in Cmds, pc[c] # "idle", At(c) # None, Press(c)
    PROVE  TmuxTypes' /\ RecordTypes' /\ \A s \in Sessions : pane'[s] = "none" <=> pane[s] = "none"
<1> DEFINE s == At(c)
<1>1. s \in Sessions /\ pane[s] # "none" /\ UNCHANGED <<buffer, typed>>
  BY AskTypes DEF Press
<1>2. CASE Submits(c, s)
  <2>1. \A t \in line[s] : [text |-> t, by |-> c] \in [text : Cmds, by : Cmds]
    BY <1>1 DEF TypesInv, TmuxTypes
  <2>2. RecordTypes'
    BY <1>1, <1>2, <2>1 DEF TypesInv, RecordTypes, Submits, paneVars
  <2> QED
    BY <1>1, <1>2, <2>2 DEF TypesInv, TmuxTypes, Submits, paneVars
<1>3. CASE Answers(c, s)
  <2>1. \E p \in {"ready", "starting"} : pane' = [pane EXCEPT ![s] = p]
    BY <1>1, <1>3 DEF Answers, TypesInv, TmuxTypes
  <2>2. \E d \in SUBSET {"bypass", "trust"} : passed' = [passed EXCEPT ![s] = d]
    BY <1>1, <1>3 DEF Answers, TypesInv, TmuxTypes
  <2>3. missed' \subseteq Cmds /\ UNCHANGED <<live, ended, line, sent>>
    BY <1>3 DEF Answers, TypesInv, TmuxTypes
  <2>4. passed' \in [Sessions -> SUBSET {"bypass", "trust"}]
    BY <1>1, <2>2 DEF TypesInv, TmuxTypes
  <2>5. /\ pane' \in [Sessions -> Panes]
        /\ \A x \in Sessions : pane'[x] = "none" <=> pane[x] = "none"
    BY <1>1, <2>1 DEF TypesInv, TmuxTypes, Panes
  <2> QED
    BY <1>1, <2>3, <2>4, <2>5 DEF TypesInv, TmuxTypes, RecordTypes
<1>4. ASSUME NEW how \in Hows, Ends(c, s, how)
      PROVE  /\ TmuxTypes' /\ RecordTypes'
             /\ \A x \in Sessions : pane'[x] = "none" <=> pane[x] = "none"
  BY <1>1, <1>4, EndsTypes
<1>5. CASE Ignored(c, s)
  BY <1>1, <1>5 DEF TypesInv, TmuxTypes, RecordTypes, Ignored, paneVars
<1> QED
  BY <1>2, <1>3, <1>4, <1>5 DEF Press, Hows

\* Every action that sends an Enter leaves tmux alone or is Press.
LEMMA EnterPresses ==
    ASSUME NEW c \in Cmds, DownEnter(c) \/ AcceptTrust(c) \/ Enter(c)
    PROVE  UNCHANGED tmuxVars \/ (At(c) # None /\ Press(c))
<1> USE DEF Press
<1>1. CASE DownEnter(c)
  BY <1>1 DEF DownEnter
<1>2. CASE AcceptTrust(c)
  BY <1>2 DEF AcceptTrust
<1>3. CASE Enter(c)
  BY <1>3 DEF Enter
<1> QED
  BY <1>1, <1>2, <1>3

\* Sending an Enter keeps the types.
LEMMA EnterTypes ==
    ASSUME TypesInv, NEW c \in Cmds, DownEnter(c) \/ AcceptTrust(c) \/ Enter(c)
    PROVE  TypesInv'
<1>1. /\ pc[c] \in {"downEnter", "trust", "enter"}
      /\ \E p \in {"poll", "exit"} : pc' = [pc EXCEPT ![c] = p]
      /\ pc'[c] = "poll" =>
            pc[c] = "downEnter" \/ (pc[c] = "trust" /\ ask[c].verb # "accept-trust")
      /\ UNCHANGED <<ask, late, looked, screen, shown, fileVars>>
  BY DEF DownEnter, AcceptTrust, Enter, Failed, Fail, Finish, Exit, Goto, TypesInv, CommandTypes
<1>2. CommandTypes'
  BY <1>1 DEF TypesInv, CommandTypes, DownEnter, AcceptTrust, Enter, Failed, Fail, Finish, Exit, Places
<1>3. UNCHANGED tmuxVars \/ (At(c) # None /\ Press(c))
  BY EnterPresses
<1>4. TmuxTypes' /\ RecordTypes' /\ \A s \in Sessions : pane'[s] = "none" <=> pane[s] = "none"
  BY <1>1, <1>3, PressTypes DEF TypesInv, TmuxTypes, RecordTypes, tmuxVars, paneVars, inputVars
<1>5. FileTypes'
  BY <1>1, FileKept DEF TypesInv, CommandTypes, Seeds
<1>6. Placed'
  <2> SUFFICES ASSUME NEW q \in Cmds PROVE Place(q)'
    BY DEF Placed
  <2> QED
    BY <1>1, <1>4 DEF TypesInv, Placed, Place, CommandTypes, Makes, Later, Sessions
<1> QED
  BY <1>2, <1>4, <1>5, <1>6 DEF TypesInv

\* Typing a line and pasting a block keep the types.
LEMMA TypingTypes ==
    ASSUME TypesInv, NEW c \in Cmds, SendKeys(c) \/ SetBuffer(c) \/ PasteBuffer(c)
    PROVE  TypesInv'
<1>1. /\ pc[c] \in {"type", "paste"} /\ UNCHANGED <<ask, late, looked, screen, shown, accepted, live, pane>>
      /\ UNCHANGED <<passed, sent, missed, ended, fileVars>>
      /\ \E p \in {"paste", "enter", "exit"} :
            pc' = [pc EXCEPT ![c] = p] /\ (p = "paste" => ask[c].text = "block")
  BY DEF SendKeys, SetBuffer, PasteBuffer, Failed, Fail, Finish, Exit, Goto, paneVars, inputVars
<1>2. CommandTypes'
  BY <1>1 DEF TypesInv, CommandTypes, SendKeys, SetBuffer, PasteBuffer, Failed, Fail, Finish, Exit,
              Places
<1>3. buffer' \in Cmds \cup {None}
  BY DEF TypesInv, TmuxTypes, SendKeys, SetBuffer, PasteBuffer
<1>4. \/ UNCHANGED <<line, typed>>
      \/ \E b \in Cmds : At(c) # None /\ Typed(c, b)
  BY DEF SendKeys, SetBuffer, PasteBuffer, TypesInv, TmuxTypes, inputVars
<1>5. TmuxTypes' /\ RecordTypes'
  <2>1. CASE UNCHANGED <<line, typed>>
    BY <1>1, <1>3, <2>1 DEF TypesInv, TmuxTypes, RecordTypes
  <2>2. ASSUME NEW b \in Cmds, At(c) # None, Typed(c, b) PROVE TmuxTypes' /\ RecordTypes'
    <3>1. At(c) \in Sessions /\ pane[At(c)] \in Panes
      BY <1>1, <2>2, AskTypes DEF TypesInv, TmuxTypes
    <3>2. typed' = typed \cup {[text |-> b, by |-> c, into |-> At(c), pane |-> pane[At(c)]]}
      BY <2>2 DEF Typed
    <3>3. line' \in [Sessions -> SUBSET Cmds]
      BY <2>2, <3>1 DEF Typed, TypesInv, TmuxTypes
    <3>4. RecordTypes'
      BY <1>1, <3>1, <3>2 DEF TypesInv, RecordTypes
    <3> QED
      BY <1>1, <1>3, <3>3, <3>4 DEF TypesInv, TmuxTypes
  <2> QED
    BY <1>4, <2>1, <2>2
<1>6. FileTypes'
  BY <1>1, FileKept DEF TypesInv, CommandTypes, Seeds
<1>7. Placed'
  <2> SUFFICES ASSUME NEW q \in Cmds PROVE Place(q)'
    BY DEF Placed
  <2> QED
    BY <1>1 DEF TypesInv, Placed, Place, CommandTypes, Makes, Later
<1> QED
  BY <1>2, <1>5, <1>6, <1>7 DEF TypesInv

\* The steps of prompt, accept-trust and kill before any key is sent.
LEMMA OtherVerbTypes ==
    ASSUME TypesInv, NEW c \in Cmds, Capture(c) \/ Check(c) \/ Kill(c) PROVE TypesInv'
<1>1. /\ pc[c] \in {"capture", "check", "kill"}
      /\ UNCHANGED <<ask, late, accepted, passed, inputVars, buffer, typed, fileVars>>
      /\ \E p \in {"check", "trust", "type", "exit"} : pc' = [pc EXCEPT ![c] = p]
      /\ pc'[c] = "check" => pc[c] = "capture" /\ ask[c].verb = "prompt"
      /\ pc'[c] = "trust" => pc[c] = "capture" /\ ask[c].verb # "prompt"
      /\ pc'[c] = "type" => pc[c] = "check"
  BY DEF Capture, Check, Kill, Ends, Exit, Goto, tmuxVars, paneVars, TypesInv, CommandTypes
<1>2. /\ At(c) \in Sessions \cup {None} /\ ask[c].slug \in Slugs
      /\ At(c) # None => pane[At(c)] # "none"
  BY <1>1, AskTypes
<1>3. CommandTypes'
  <2>1. \A m \in Captures(At(c)) : At(c) # None => m \subseteq Marks
    BY <1>2 DEF Captures, Marks, TypesInv, TmuxTypes, Up
  <2> QED
    BY <1>1, <1>2, <2>1 DEF TypesInv, CommandTypes, Capture, Check, Kill, Exit, Places
<1>4. /\ TmuxTypes' /\ RecordTypes'
      /\ \A s \in Sessions : pane'[s] = "none" <=> pane[s] = "none"
  <2>1. CASE UNCHANGED tmuxVars
    BY <2>1 DEF TypesInv, TmuxTypes, RecordTypes, tmuxVars, paneVars, inputVars
  <2>2. CASE ~UNCHANGED tmuxVars
    <3>1. At(c) # None /\ Ends(c, At(c), "killed") /\ UNCHANGED <<buffer, typed>>
      BY <2>2 DEF Kill, Capture, Check
    <3> QED
      BY <1>2, <3>1, EndsTypes DEF Hows
  <2> QED
    BY <2>1, <2>2
<1>5. FileTypes'
  BY <1>1, FileKept DEF TypesInv, CommandTypes, Seeds
<1>6. Placed'
  <2> SUFFICES ASSUME NEW q \in Cmds PROVE Place(q)'
    BY DEF Placed
  <2> QED
    BY <1>1, <1>4 DEF TypesInv, Placed, Place, CommandTypes, Makes, Later, Sessions
<1> QED
  BY <1>3, <1>4, <1>5, <1>6 DEF TypesInv

\* What Claude shows in a pane.
LEMMA ClaudeTypes ==
    ASSUME TypesInv, NEW s \in Sessions, Show(s) \/ Interrupted(s) PROVE TypesInv'
<1>1. /\ UNCHANGED <<pc, commandVars, live, passed, ended, inputVars, buffer, typed, fileVars>>
      /\ \E p \in Panes \ {"none"} : pane' = [pane EXCEPT ![s] = p]
      /\ pane[s] # "none"
  BY DEF Show, Interrupted, Up, Panes, TypesInv, TmuxTypes
<1>2. CommandTypes' /\ FileTypes'
  BY <1>1 DEF TypesInv, CommandTypes, FileTypes, commandVars, fileVars
<1>3. TmuxTypes' /\ RecordTypes'
  BY <1>1 DEF TypesInv, TmuxTypes, RecordTypes, inputVars
<1>4. Placed'
  BY <1>1 DEF TypesInv, TmuxTypes, Placed, Place, Makes, commandVars, Sessions
<1> QED
  BY <1>2, <1>3, <1>4 DEF TypesInv

\* What Claude does to its configuration file.
LEMMA ClaudeFileTypes ==
    ASSUME TypesInv, ClaudeReads \/ ClaudeWrites PROVE TypesInv'
<1>1. UNCHANGED <<pc, commandVars, tmuxVars, lock, copy>>
  BY DEF ClaudeReads, ClaudeWrites
<1>2. CommandTypes' /\ TmuxTypes' /\ RecordTypes' /\ Placed'
  BY <1>1 DEF TypesInv, CommandTypes, TmuxTypes, RecordTypes, Placed, Place, Makes, commandVars, tmuxVars,
              paneVars, inputVars
<1>3. FileTypes'
  BY <1>1 DEF TypesInv, FileTypes, ClaudeReads, ClaudeWrites, Write
<1> QED
  BY <1>2, <1>3 DEF TypesInv

\* Every variable has its type in every reachable state, and every command is where its
\* verb and flags can have brought it (run and parse of clirc.go, Create and Prompt of
\* ops.go).
THEOREM TypesInvariance == Spec => []TypesInv
<1>1. Init => TypesInv
  <2> SUFFICES ASSUME Init PROVE TypesInv
    OBVIOUS
  <2>1. live \in [Slugs -> Sessions \cup {None}]
        /\ \A sl \in Slugs : live[sl] # None => live[sl] \in Old
    <3> SUFFICES ASSUME NEW sl \in Slugs PROVE live[sl] \in Old \cup {None}
      BY DEF Init, Sessions
    <3> QED
      BY DEF Init
  <2>2. TmuxTypes /\ RecordTypes
    BY <2>1, RcAssumption DEF Init, TmuxTypes, RecordTypes, Sessions, Panes
  <2>3. CommandTypes /\ FileTypes
    BY DEF Init, CommandTypes, FileTypes, Places, Panes
  <2>4. Placed
    BY RcAssumption DEF Init, Placed, Place, Makes, Later, Sessions
  <2> QED
    BY <2>2, <2>3, <2>4 DEF TypesInv
<1>2. ASSUME TypesInv, [Next]_vars PROVE TypesInv'
  <2>1. CASE \E c \in Cmds : Command(c) \/ Cut(c)
    BY <1>2, <2>1, StartTypes, PreseedTypes, NewSessionTypes, PollTypes, DownTypes, EnterTypes,
       TypingTypes, OtherVerbTypes DEF Command
  <2>2. CASE \E s \in Sessions : Show(s) \/ Interrupted(s)
    BY <1>2, <2>2, ClaudeTypes
  <2>3. CASE ClaudeReads \/ ClaudeWrites
    BY <1>2, <2>3, ClaudeFileTypes
  <2>4. CASE UNCHANGED vars
    BY <1>2, <2>4 DEF vars, commandVars, tmuxVars, paneVars, inputVars, fileVars, TypesInv, CommandTypes, TmuxTypes,
                      RecordTypes, FileTypes, Placed, Place, Makes
  <2> QED
    BY <1>2, <2>1, <2>2, <2>3, <2>4 DEF Next
<1> QED
  BY <1>1, <1>2, PTL DEF Spec

-----------------------------------------------------------------------------
(* tmux: slugs, sessions and what their panes show *)

\* A session that was created and is not over.
Lives(s) == pane[s] \notin {"none", "gone"}

\* The bypass dialog, whichever option of it is selected.
BypassScreens == {"bypass", "bypass2", "bypass1"}

\* The session has no bypass dialog to come: it was not asked for, or was accepted.
Safe(s) == s \in Old \/ ~ask[s].bypass \/ "bypass" \in passed[s]

\* A slug is given exactly to the session that lives under it: one at a time.
Slugged == \A s \in Sessions, sl \in Slugs : live[sl] = s <=> Lives(s) /\ NameOf(s) = sl

\* What a pane can show follows from its session: only Claude shows dialogs at its start,
\* the bypass dialog before the others, and only a broker reconnects.
Shape(s) ==
    /\ s \in Old => pane[s] \in Up \cup {"gone"}
    /\ Lives(s) /\ KindOf(s) = "shell" => pane[s] \in Up \cup {"starting"}
    /\ pane[s] \in BypassScreens => ~Safe(s)
    /\ pane[s] \in Up \cup {"trust", "auth"} \/ "trust" \in passed[s] => Safe(s)
    /\ pane[s] = "reconnecting" => KindOf(s) = "claude-broker"
    /\ pane[s] = "none" => passed[s] = {}
Shapes == \A s \in Sessions : Shape(s)

\* The invariant of what tmux keeps.
TmuxInv == Slugged /\ Shapes

\* What a step may do to a session: it does not come back, what is up is up until it is
\* over, and the bypass dialog is left only by accepting it or by the end of the session,
\* its first selection for good.
Evolves(s) ==
    /\ passed[s] \subseteq passed'[s]
    /\ pane[s] # "none" => pane'[s] # "none"
    /\ pane[s] = "gone" => pane'[s] = "gone"
    /\ pane[s] \in Up => pane'[s] \in Up \cup {"gone"}
    /\ pane[s] \in BypassScreens =>
          pane'[s] \in BypassScreens \cup {"gone"} \/ "bypass" \in passed'[s]
    /\ pane'[s] = "bypass" => pane[s] \in {"starting", "bypass"}

\* Commands keep what they were asked.
AsksKept == \A q \in Cmds : pc[q] # "idle" => pc'[q] # "idle" /\ ask'[q] = ask[q]

\* What a step leaves of a command: everything the proofs speak of.
Untouched(q) ==
    /\ pc'[q] = pc[q] /\ ask'[q] = ask[q] /\ code'[q] = code[q]
    /\ looked'[q] = looked[q] /\ screen'[q] = screen[q] /\ (q \in late' <=> q \in late)

\* A step of a command concerns no other command.
LEMMA Alone ==
    ASSUME TypesInv, NEW c \in Cmds, Command(c) \/ Cut(c)
    PROVE  AsksKept /\ \A q \in Cmds \ {c} : Untouched(q)
<1> USE DEF Untouched
<1>1. CASE Start(c)
  BY <1>1, FirstPlace DEF Start, Exit, Goto, AsksKept, TypesInv, CommandTypes
<1>2. CASE PreseedRead(c) \/ PreseedWrite(c) \/ PreseedFails(c) \/ Cut(c)
  BY <1>2 DEF PreseedRead, PreseedWrite, PreseedFails, Cut, Goto, AsksKept, commandVars,
              TypesInv, CommandTypes
<1>3. CASE NewSession(c) \/ Poll(c) \/ PollDead(c) \/ PollTimesOut(c)
  BY <1>3 DEF NewSession, Poll, PollDead, PollTimesOut, Finish, Exit, Goto, AsksKept,
              TypesInv, CommandTypes
<1>4. CASE Down(c) \/ DownEnter(c) \/ AcceptTrust(c) \/ Enter(c)
  BY <1>4 DEF Down, DownEnter, AcceptTrust, Enter, Failed, Fail, Finish, Exit, Goto, AsksKept,
              commandVars, TypesInv, CommandTypes
<1>5. CASE SendKeys(c) \/ SetBuffer(c) \/ PasteBuffer(c)
  BY <1>5 DEF SendKeys, SetBuffer, PasteBuffer, Failed, Fail, Finish, Exit, Goto, AsksKept,
              commandVars, TypesInv, CommandTypes
<1>6. CASE Capture(c) \/ Check(c) \/ Kill(c)
  BY <1>6 DEF Capture, Check, Kill, Exit, Goto, AsksKept, TypesInv, CommandTypes
<1> QED
  BY <1>1, <1>2, <1>3, <1>4, <1>5, <1>6 DEF Command

\* What is asked of a session that exists is kept.
LEMMA KindKept ==
    ASSUME TypesInv, AsksKept, NEW s \in Sessions, pane[s] # "none"
    PROVE  /\ s \in Cmds => ask'[s] = ask[s]
           /\ NameOf(s)' = NameOf(s) /\ KindOf(s)' = KindOf(s)
<1>1. s \in Cmds => ask'[s] = ask[s]
  BY DEF TypesInv, Placed, Place, Makes, AsksKept
<1> QED
  BY <1>1 DEF NameOf, KindOf, Sessions

\* A step that leaves tmux alone keeps its invariant.
LEMMA SessionsKept ==
    ASSUME TypesInv, TmuxInv, AsksKept, UNCHANGED <<live, pane, passed>>
    PROVE  TmuxInv' /\ \A s \in Sessions : Evolves(s)
<1>1. \A s \in Cmds : pane[s] # "none" => ask'[s] = ask[s]
  BY KindKept DEF Sessions
<1>2. Slugged'
  BY <1>1 DEF TmuxInv, Slugged, Lives, NameOf, Sessions
<1>3. ASSUME NEW s \in Sessions PROVE Shape(s)'
  <2>1. Shape(s)
    BY DEF TmuxInv, Shapes
  <2>2. CASE pane[s] # "none"
    BY <1>1, <2>1, <2>2 DEF Shape, Lives, KindOf, Safe, Sessions
  <2>3. CASE pane[s] = "none"
    <3>1. s \notin Old
      BY <2>1, <2>3 DEF Shape, Up
    <3> QED
      BY <2>1, <2>3, <3>1 DEF Shape, Lives, Up, BypassScreens
  <2> QED
    BY <2>2, <2>3
<1>4. \A s \in Sessions : Evolves(s)
  BY DEF Evolves
<1> QED
  BY <1>2, <1>3, <1>4 DEF TmuxInv, Shapes

\* A session is created only at a slug that has none: the one before is over.
LEMMA NewSessionStep ==
    ASSUME TypesInv, TmuxInv, NEW c \in Cmds, NewSession(c)
    PROVE  TmuxInv' /\ \A s \in Sessions : Evolves(s)
<1>1. CASE UNCHANGED <<live, pane>>
  BY <1>1, Alone, SessionsKept DEF NewSession, Command
<1>2. CASE ~UNCHANGED <<live, pane>>
  <2>1. /\ pc[c] = "new" /\ UNCHANGED <<ask, passed>> /\ live[ask[c].slug] = None
        /\ live' = [live EXCEPT ![ask[c].slug] = c] /\ pane' = [pane EXCEPT ![c] = "starting"]
    BY <1>2 DEF NewSession
  <2>2. ask[c].slug \in Slugs /\ pane[c] = "none" /\ c \in Sessions /\ c \notin Old
    BY <2>1, AskTypes, RcAssumption DEF TypesInv, Placed, Place, Later, Sessions
  <2>3. \A s \in Sessions : Lives(s) => NameOf(s) # ask[c].slug
    BY <2>1, <2>2, RcAssumption DEF TmuxInv, Slugged
  <2>4. Slugged'
    BY <2>1, <2>2, <2>3, RcAssumption DEF TmuxInv, TypesInv, TmuxTypes, Slugged, Lives, NameOf
  <2>5. Shapes'
    BY <2>1, <2>2 DEF TmuxInv, TypesInv, TmuxTypes, Shapes, Shape, Lives, KindOf, Safe, Up,
                      BypassScreens
  <2>6. \A s \in Sessions : Evolves(s)
    BY <2>1, <2>2 DEF TypesInv, TmuxTypes, Evolves, Up, BypassScreens
  <2> QED
    BY <2>4, <2>5, <2>6 DEF TmuxInv
<1> QED
  BY <1>1, <1>2

\* The pane of one session changes, or the session ends and gives up its slug.
LEMMA PaneStep ==
    ASSUME TypesInv, TmuxInv, UNCHANGED ask, NEW s \in Sessions, Lives(s),
           NEW p \in Panes \ {"none"}, pane' = [pane EXCEPT ![s] = p],
           live' = IF p = "gone" THEN [live EXCEPT ![NameOf(s)] = None] ELSE live,
           NEW d, passed' = [passed EXCEPT ![s] = d],
           Shape(s)', Evolves(s)
    PROVE  TmuxInv' /\ \A t \in Sessions : Evolves(t)
<1>1. NameOf(s) \in Slugs /\ live[NameOf(s)] = s /\ s # None
  <2>1. NameOf(s) \in Slugs
    BY RcAssumption, AskTypes DEF NameOf, Sessions, Lives, TypesInv, Placed, Place, Makes
  <2> QED
    BY <2>1, RcAssumption DEF TmuxInv, Slugged
<1>2. \A t \in Sessions \ {s} : pane'[t] = pane[t] /\ passed'[t] = passed[t]
  BY DEF TypesInv, TmuxTypes
<1>3. pane'[s] = p
  BY DEF TypesInv, TmuxTypes
<1>4. Slugged'
  <2> SUFFICES ASSUME NEW t \in Sessions, NEW sl \in Slugs
               PROVE  live'[sl] = t <=> Lives(t)' /\ NameOf(t) = sl
    BY DEF Slugged, NameOf
  <2>1. live[sl] = t <=> Lives(t) /\ NameOf(t) = sl
    BY DEF TmuxInv, Slugged
  <2>2. live'[sl] = IF p = "gone" /\ sl = NameOf(s) THEN None ELSE live[sl]
    BY <1>1 DEF TypesInv, TmuxTypes
  <2> QED
    BY <1>1, <1>2, <1>3, <2>1, <2>2, RcAssumption DEF Lives
<1>5. Shapes'
  BY <1>2 DEF TmuxInv, Shapes, Shape, Lives, KindOf, Safe
<1>6. \A t \in Sessions \ {s} : Evolves(t)
  BY <1>2 DEF Evolves
<1> QED
  BY <1>4, <1>5, <1>6 DEF TmuxInv

\* What a command finds lives.
LEMMA AtLives ==
    ASSUME TypesInv, TmuxInv, NEW c \in Cmds, pc[c] # "idle", At(c) # None
    PROVE  At(c) \in Sessions /\ Lives(At(c))
<1>1. PICK sl \in Slugs : live[sl] # None /\ At(c) = live[sl]
  BY AskTypes, AtFinds
<1> QED
  BY <1>1 DEF TypesInv, TmuxTypes, TmuxInv, Slugged

\* It finds the session of the name it was given, if there is one.
LEMMA AtOrGone ==
    ASSUME TypesInv, TmuxInv, NEW c \in Cmds, pc[c] # "idle", NEW s \in Sessions,
           pane[s] # "none", NameOf(s) = ask[c].slug
    PROVE  At(c) = s \/ pane[s] = "gone"
<1>1. live[ask[c].slug] = s \/ pane[s] = "gone"
  BY AskTypes DEF TmuxInv, Slugged, Lives
<1>2. s # None
  BY RcAssumption
<1> QED
  BY <1>1, <1>2 DEF At

\* The end of a session.
LEMMA EndsStep ==
    ASSUME TypesInv, TmuxInv, UNCHANGED ask, NEW c, NEW how, NEW s \in Sessions, Lives(s),
           Ends(c, s, how)
    PROVE  TmuxInv' /\ \A t \in Sessions : Evolves(t)
<1>1. /\ pane' = [pane EXCEPT ![s] = "gone"] /\ live' = [live EXCEPT ![NameOf(s)] = None]
      /\ passed' = [passed EXCEPT ![s] = passed[s]]
  BY DEF Ends, TypesInv, TmuxTypes
<1>2. pane'[s] = "gone" /\ passed'[s] = passed[s] /\ "gone" \in Panes \ {"none"}
  BY <1>1 DEF TypesInv, TmuxTypes, Panes
<1>3. Shape(s)' /\ Evolves(s)
  BY <1>2 DEF TmuxInv, Shapes, Shape, Lives, KindOf, Safe, Evolves, Up, BypassScreens
<1> QED
  BY <1>1, <1>2, <1>3, PaneStep

\* An Enter that answers a dialog takes the session on in its start, or back to its prompt.
LEMMA AnswersStep ==
    ASSUME TypesInv, TmuxInv, UNCHANGED ask, NEW c, NEW s \in Sessions, Answers(c, s)
    PROVE  TmuxInv' /\ \A t \in Sessions : Evolves(t)
<1>1. Lives(s) /\ UNCHANGED live /\ Shape(s)
  BY DEF Answers, Lives, TmuxInv, Shapes
<1>2. PICK p \in Panes \ {"none"} : p = IF pane[s] = "dialog" THEN "ready" ELSE "starting"
  BY DEF Panes
<1>3. PICK d : d = passed[s] \cup (IF pane[s] = "bypass2" THEN {"bypass"} ELSE {})
                             \cup (IF pane[s] = "trust" THEN {"trust"} ELSE {})
  OBVIOUS
<1>4. pane' = [pane EXCEPT ![s] = p] /\ passed' = [passed EXCEPT ![s] = d] /\ p # "gone"
  BY <1>2, <1>3 DEF Answers, TypesInv, TmuxTypes
<1>5. pane'[s] = p /\ passed'[s] = d
  BY <1>4 DEF TypesInv, TmuxTypes
<1>6. Evolves(s)
  BY <1>2, <1>3, <1>5 DEF Answers, Evolves, Up, BypassScreens
<1>7. Shape(s)'
  <2>1. KindOf(s)' = KindOf(s) /\ (Safe(s) => Safe(s)') /\ (pane[s] = "bypass2" => Safe(s)')
    BY <1>3, <1>5 DEF KindOf, Safe
  <2>2. (pane[s] \in {"dialog", "trust"} => Safe(s)) /\ ("trust" \in d => Safe(s) \/ "trust" \in passed[s])
    BY <1>1, <1>3 DEF Shape, Up
  <2> QED
    BY <1>1, <1>2, <1>5, <2>1, <2>2 DEF Answers, Shape, Lives, Up, BypassScreens
<1> QED
  BY <1>1, <1>4, <1>6, <1>7, PaneStep

\* An Enter answers a dialog, ends a session, or leaves its pane alone.
LEMMA PressStep ==
    ASSUME TypesInv, TmuxInv, AsksKept, NEW c \in Cmds, pc[c] # "idle", At(c) # None, Press(c),
           UNCHANGED ask
    PROVE  TmuxInv' /\ \A s \in Sessions : Evolves(s)
<1>1. At(c) \in Sessions /\ Lives(At(c))
  BY AtLives
<1>2. CASE Submits(c, At(c)) \/ Ignored(c, At(c))
  BY <1>2, SessionsKept DEF Submits, Ignored, paneVars
<1>3. CASE Answers(c, At(c))
  BY <1>1, <1>3, AnswersStep
<1>4. ASSUME NEW how, Ends(c, At(c), how) PROVE TmuxInv' /\ \A s \in Sessions : Evolves(s)
  BY <1>1, <1>4, EndsStep
<1> QED
  BY <1>2, <1>3, <1>4 DEF Press

\* Down moves a selection and nothing else.
LEMMA DownStep ==
    ASSUME TypesInv, TmuxInv, NEW c \in Cmds, Down(c)
    PROVE  TmuxInv' /\ \A s \in Sessions : Evolves(s)
<1>1. pc[c] = "down" /\ UNCHANGED <<ask, live, passed>>
  BY DEF Down, commandVars
<1>2. CASE UNCHANGED pane
  BY <1>1, <1>2, Alone, SessionsKept DEF Command
<1>3. CASE ~UNCHANGED pane
  <2>1. PICK s \in Sessions : s = At(c) /\ Lives(s)
    BY <1>1, <1>3, AtLives DEF Down
  <2>2. PICK p \in {"bypass2", "bypass1"} :
           pane[s] \in BypassScreens /\ pane' = [pane EXCEPT ![s] = p]
    BY <1>3, <2>1 DEF Down, BypassScreens
  <2>3. /\ pane'[s] = p /\ p \in Panes \ {"none"} /\ p # "gone"
        /\ passed' = [passed EXCEPT ![s] = passed[s]]
    BY <1>1, <2>2 DEF TypesInv, TmuxTypes, Panes
  <2>4. Shape(s)'
    BY <1>1, <2>1, <2>2, <2>3 DEF TmuxInv, Shapes, Shape, Lives, KindOf, Safe, Up, BypassScreens
  <2>5. Evolves(s)
    BY <1>1, <2>2, <2>3 DEF Evolves, Up, BypassScreens
  <2> QED
    BY <1>1, <2>1, <2>2, <2>3, <2>4, <2>5, PaneStep
<1> QED
  BY <1>2, <1>3

\* Kill ends the session it finds, if there is one.
LEMMA KillStep ==
    ASSUME TypesInv, TmuxInv, NEW c \in Cmds, Kill(c)
    PROVE  TmuxInv' /\ \A s \in Sessions : Evolves(s)
<1>1. pc[c] = "kill" /\ UNCHANGED ask
  BY DEF Kill
<1>2. CASE UNCHANGED tmuxVars
  BY <1>2, Alone, SessionsKept DEF Command, tmuxVars, paneVars
<1>3. CASE ~UNCHANGED tmuxVars
  BY <1>1, <1>3, AtLives, EndsStep DEF Kill
<1> QED
  BY <1>2, <1>3

\* Claude shows the dialogs of its start in their order; later it is interrupted.
LEMMA ShowsStep ==
    ASSUME TypesInv, TmuxInv, NEW s \in Sessions, Show(s) \/ Interrupted(s)
    PROVE  TmuxInv' /\ \A t \in Sessions : Evolves(t)
<1>1. UNCHANGED <<ask, live, passed>> /\ passed' = [passed EXCEPT ![s] = passed[s]]
  BY DEF Show, Interrupted, commandVars, TypesInv, TmuxTypes
<1>2. Shape(s) /\ (s \in Cmds => Place(s))
  BY DEF TmuxInv, Shapes, TypesInv, Placed
<1>3. CASE Show(s)
  <2>1. PICK p \in {"bypass", "trust", "ready", "auth"} :
           /\ pane' = [pane EXCEPT ![s] = p]
           /\ p = "bypass" <=> ask[s].bypass /\ "bypass" \notin passed[s]
           /\ p # "ready" => p = "bypass" \/ KindOf(s) \in Claudes
    BY <1>3 DEF Show
  <2>2. /\ s \in Cmds /\ s \notin Old /\ pane[s] = "starting" /\ Lives(s)
        /\ ask[s] \in Asks /\ ~Invalid(ask[s]) /\ Makes(s)
    BY <1>2, <1>3, RcAssumption DEF Show, Lives, Place, Makes
  <2>3. KindOf(s) = ask[s].kind /\ (ask[s].bypass => KindOf(s) \in Claudes)
    BY <2>2, AskAssumption DEF KindOf, Invalid, Makes, Claudes
  <2>4. pane'[s] = p /\ p \in Panes \ {"none"} /\ p # "gone"
    BY <2>1 DEF TypesInv, TmuxTypes, Panes
  <2>5. Safe(s)' <=> p # "bypass"
    BY <1>1, <2>1, <2>2, AskAssumption DEF Safe
  <2>6. Shape(s)'
    <3>1. Safe(s)' <=> Safe(s)
      BY <1>1 DEF Safe
    <3> QED
      BY <1>1, <1>2, <2>1, <2>2, <2>3, <2>4, <2>5, <3>1
        DEF Shape, Lives, KindOf, Claudes, Up, BypassScreens
  <2>7. Evolves(s)
    BY <1>1, <2>2, <2>4 DEF Evolves, Up, BypassScreens
  <2> QED
    BY <1>1, <2>1, <2>2, <2>4, <2>6, <2>7, PaneStep
<1>4. CASE Interrupted(s)
  <2>1. PICK p \in Up :
           /\ pane[s] \in Up /\ pane' = [pane EXCEPT ![s] = p]
           /\ p = "reconnecting" => KindOf(s) = "claude-broker"
    BY <1>4 DEF Interrupted, Up
  <2>2. pane'[s] = p /\ p \in Panes \ {"none"} /\ p # "gone"
    BY <2>1 DEF TypesInv, TmuxTypes, Panes, Up
  <2>3. Shape(s)'
    BY <1>1, <1>2, <2>1, <2>2 DEF Shape, Lives, KindOf, Safe, Up, BypassScreens
  <2>4. Evolves(s) /\ Lives(s)
    BY <1>1, <2>1, <2>2 DEF Evolves, Lives, Up, BypassScreens
  <2> QED
    BY <1>1, <2>1, <2>2, <2>3, <2>4, PaneStep
<1> QED
  BY <1>3, <1>4

\* Every step keeps the invariant of tmux and lets sessions evolve only so.
LEMMA TmuxStep ==
    ASSUME TypesInv, TmuxInv, [Next]_vars
    PROVE  TmuxInv' /\ AsksKept /\ \A s \in Sessions : Evolves(s)
<1>1. ASSUME NEW c \in Cmds, Command(c) \/ Cut(c)
      PROVE  TmuxInv' /\ AsksKept /\ \A s \in Sessions : Evolves(s)
  <2>1. AsksKept
    BY <1>1, Alone
  <2>2. CASE NewSession(c) \/ Down(c) \/ Kill(c)
    BY <2>1, <2>2, NewSessionStep, DownStep, KillStep
  <2>3. CASE DownEnter(c) \/ AcceptTrust(c) \/ Enter(c)
    <3>1. pc[c] # "idle" /\ UNCHANGED ask
      BY <2>3 DEF DownEnter, AcceptTrust, Enter
    <3>2. UNCHANGED tmuxVars \/ (At(c) # None /\ Press(c))
      BY <2>3, EnterPresses
    <3> QED
      BY <2>1, <3>1, <3>2, PressStep, SessionsKept DEF tmuxVars, paneVars
  <2>4. CASE ~(NewSession(c) \/ Down(c) \/ Kill(c) \/ DownEnter(c) \/ AcceptTrust(c) \/ Enter(c))
    <3>1. UNCHANGED <<live, pane, passed>>
      <4>1. CASE Start(c) \/ Poll(c) \/ PollDead(c) \/ PollTimesOut(c) \/ Capture(c) \/ Check(c)
        BY <4>1 DEF Start, Poll, PollDead, PollTimesOut, Capture, Check, tmuxVars, paneVars
      <4>2. CASE PreseedRead(c) \/ PreseedWrite(c) \/ PreseedFails(c) \/ Cut(c)
        BY <4>2 DEF PreseedRead, PreseedWrite, PreseedFails, Cut, tmuxVars, paneVars
      <4>3. CASE SendKeys(c) \/ SetBuffer(c) \/ PasteBuffer(c)
        BY <4>3 DEF SendKeys, SetBuffer, PasteBuffer, paneVars
      <4> QED
        BY <1>1, <2>4, <4>1, <4>2, <4>3 DEF Command
    <3> QED
      BY <2>1, <3>1, SessionsKept
  <2> QED
    BY <2>2, <2>3, <2>4
<1>2. CASE \E s \in Sessions : Show(s) \/ Interrupted(s)
  <2>1. AsksKept
    BY <1>2 DEF Show, Interrupted, commandVars, AsksKept
  <2> QED
    BY <1>2, <2>1, ShowsStep
<1>3. CASE ClaudeReads \/ ClaudeWrites \/ UNCHANGED vars
  <2>1. AsksKept /\ UNCHANGED <<live, pane, passed>>
    BY <1>3 DEF ClaudeReads, ClaudeWrites, vars, commandVars, tmuxVars, paneVars, AsksKept
  <2> QED
    BY <2>1, SessionsKept
<1> QED
  BY <1>1, <1>2, <1>3 DEF Next

\* In every reachable state a slug belongs to exactly one session that lives, whatever
\* commands take it for, and a session past its bypass dialog is the only one that is up or
\* has shown its other dialogs (NewSession and KillSession of tmux.go, waitUntilReady of
\* ops.go).
THEOREM TmuxInvariance == Spec => []TmuxInv
<1>1. Init => TmuxInv
  <2> SUFFICES ASSUME Init PROVE TmuxInv
    OBVIOUS
  <2>1. ASSUME NEW s \in Sessions, NEW sl \in Slugs
        PROVE live[sl] = s <=> Lives(s) /\ NameOf(s) = sl
    <3>1. live[sl] = (IF \E o \in Old : SlugOf[o] = sl
                      THEN CHOOSE o \in Old : SlugOf[o] = sl ELSE None)
      BY DEF Init
    <3>2. CASE s \in Old
      BY <3>1, <3>2, RcAssumption DEF Init, Lives, NameOf, Sessions
    <3>3. CASE s \notin Old
      BY <3>1, <3>3, RcAssumption DEF Init, Lives, NameOf, Sessions
    <3> QED
      BY <3>2, <3>3
  <2>2. Shapes
    BY RcAssumption DEF Init, Shapes, Shape, Lives, KindOf, Safe, Sessions, Up, BypassScreens
  <2> QED
    BY <2>1, <2>2 DEF TmuxInv, Slugged
<1>2. TypesInv /\ TmuxInv /\ [Next]_vars => TmuxInv'
  BY TmuxStep
<1> QED
  BY <1>1, <1>2, TypesInvariance, PTL DEF Spec

-----------------------------------------------------------------------------
(* What a command knows of its session when it sends keys *)

\* The session is over, or it is one that takes prompts and is up: it stays so.
Rests(s) == pane[s] = "gone" \/ (pane[s] \in Up /\ KindOf(s) \in Typable)

\* A capture shows that a session has come up: Claude's URL, or any text in a shell.
SeenUp(s, m) == "url" \in m \/ (KindOf(s) = "shell" /\ "text" \in m)

\* A command that has a session has one that was created; a session id it was given is
\* that of one, which was over then when the command is late.
Found(c) ==
    /\ pc[c] \in Later \cup {"check"} => About(c) \in Sessions /\ pane[About(c)] # "none"
    /\ pc[c] # "idle" /\ ask[c].guard # None => pane[ask[c].guard] # "none"
    /\ c \in late =>
          pc[c] # "idle" /\ ask[c].guard # None /\ pane[ask[c].guard] = "gone"

\* A command about to answer a dialog: the dialog of its session is still where the
\* command put it, or behind it.
Dialog(c) ==
    /\ pc[c] = "down" => pane[c] \in BypassScreens \cup {"gone"} \/ Safe(c)
    /\ pc[c] = "downEnter" => pane[c] \in {"bypass2", "bypass1", "gone"} \/ Safe(c)
    /\ pc[c] = "trust" => Safe(About(c)) \/ pane[About(c)] = "gone"

\* Between the capture of a pane and the checks: what was seen up still is, or is over.
Read(c) == pc[c] = "check" /\ SeenUp(looked[c], screen[c]) => pane[looked[c]] \in Up \cup {"gone"}

\* Where a command sends its text.
Writes == {"type", "paste", "enter"}

\* A command that sends its text is about a session that rests, or that has another name.
Ready(c) == pc[c] \in Writes => Rests(About(c)) \/ NameOf(About(c)) # ask[c].slug

\* And it is not late.
Timely(c) == pc[c] \in Writes => c \notin late

\* What a command knows from the steps it has behind it.
Course(c) == Found(c) /\ Dialog(c) /\ Read(c) /\ Ready(c) /\ Timely(c)

\* For every command.
Courses == \A c \in Cmds : Course(c)

\* What stays of a session that exists.
LEMMA SessionKept ==
    ASSUME TypesInv, AsksKept, NEW s \in Sessions, pane[s] # "none", Evolves(s)
    PROVE  /\ pane'[s] # "none" /\ (s \in Cmds => ask'[s] = ask[s])
           /\ NameOf(s)' = NameOf(s) /\ KindOf(s)' = KindOf(s)
           /\ Safe(s) => Safe(s)'
           /\ Rests(s) => Rests(s)'
           /\ pane[s] = "gone" => pane'[s] = "gone"
           /\ pane[s] \in Up \cup {"gone"} => pane'[s] \in Up \cup {"gone"}
<1>1. /\ s \in Cmds => ask'[s] = ask[s]
      /\ NameOf(s)' = NameOf(s) /\ KindOf(s)' = KindOf(s)
  BY KindKept
<1> QED
  BY <1>1 DEF Evolves, Safe, Rests, Sessions

\* A session that was over, or had another name than a command was given, stays so.
LEMMA ElsewhereStays ==
    ASSUME TypesInv, TmuxInv, [Next]_vars, NEW c \in Cmds, pc[c] # "idle",
           NEW s \in Sessions, pane[s] # "none"
    PROVE  /\ NameOf(s)' = NameOf(s) /\ ask'[c] = ask[c] /\ pane'[s] # "none"
           /\ pane[s] = "gone" => pane'[s] = "gone"
           /\ Elsewhere(s, c) => Elsewhere(s, c)'
  BY TmuxStep, SessionKept DEF Elsewhere, AsksKept

\* The guard of a command that was started.
LEMMA GuardKept ==
    ASSUME TypesInv, AsksKept, \A s \in Sessions : Evolves(s), NEW c \in Cmds, Found(c),
           pc[c] # "idle", c \in late' => c \in late
    PROVE  /\ pc'[c] # "idle" /\ ask'[c] = ask[c]
           /\ ask'[c].guard # None => pane'[ask'[c].guard] # "none"
           /\ c \in late' => ask'[c].guard # None /\ pane'[ask'[c].guard] = "gone"
<1>1. pc'[c] # "idle" /\ ask'[c] = ask[c] /\ ask[c].guard \in Sessions \cup {None}
  BY AskTypes DEF AsksKept
<1>2. CASE ask[c].guard = None
  BY <1>1, <1>2 DEF Found
<1>3. CASE ask[c].guard # None
  BY <1>1, <1>3, SessionKept DEF Found
<1> QED
  BY <1>1, <1>2, <1>3

\* A step of another command, or of Claude, takes nothing from what a command knows.
LEMMA CourseKept ==
    ASSUME TypesInv, TmuxInv, AsksKept, \A s \in Sessions : Evolves(s), NEW c \in Cmds, Course(c),
           Untouched(c)
    PROVE  Course(c)'
<1>1. pc[c] = "idle" => c \notin late
  BY DEF Course, Found
<1>2. CASE pc[c] \notin Later \cup {"check"}
  <2>1. pc'[c] = pc[c] /\ (c \in late' <=> c \in late)
    BY DEF Untouched
  <2>2. Found(c)'
    BY <1>1, <1>2, <2>1, GuardKept DEF Course, Found
  <2> QED
    BY <1>2, <2>1, <2>2 DEF Course, Dialog, Read, Ready, Timely, Later, Writes
<1>3. CASE pc[c] \in Later \cup {"check"}
  <2>1. /\ pc[c] # "idle" /\ pc'[c] = pc[c] /\ ask'[c] = ask[c] /\ looked'[c] = looked[c]
        /\ screen'[c] = screen[c] /\ (c \in late' <=> c \in late)
    BY <1>3 DEF Untouched, Later
  <2>2. About(c)' = About(c)
    BY <2>1 DEF About
  <2>3. PICK s \in Sessions : s = About(c) /\ pane[s] # "none"
    BY <1>3 DEF Course, Found
  <2>4. /\ pane'[s] # "none" /\ NameOf(s)' = NameOf(s) /\ KindOf(s)' = KindOf(s)
        /\ (Safe(s) => Safe(s)') /\ (Rests(s) => Rests(s)')
        /\ (pane[s] = "gone" => pane'[s] = "gone")
        /\ (pane[s] \in Up \cup {"gone"} => pane'[s] \in Up \cup {"gone"})
    BY <2>3, SessionKept
  <2>5. Found(c)'
    BY <2>1, <2>2, <2>3, <2>4, GuardKept DEF Course, Found
  <2>6. Dialog(c)'
    <3>1. CASE pc[c] \in {"down", "downEnter"}
      <4>1. Makes(c) /\ c \in Sessions /\ c \notin Old
        BY <3>1, RcAssumption DEF TypesInv, Placed, Place, Sessions
      <4>2. s = c
        BY <2>3, <4>1 DEF About, Makes
      <4>3. Dialog(c)
        BY DEF Course
      <4> QED
        BY <2>1, <2>4, <3>1, <4>1, <4>2, <4>3 DEF Dialog, Evolves, Safe, BypassScreens
    <3>2. CASE pc[c] = "trust"
      BY <2>1, <2>2, <2>3, <2>4, <3>2 DEF Course, Dialog, Safe
    <3> QED
      BY <2>1, <3>1, <3>2 DEF Dialog
  <2>7. Read(c)'
    <3> SUFFICES ASSUME pc[c] = "check" PROVE Read(c)'
      BY <2>1 DEF Read
    <3>1. s = looked[c]
      BY <2>3 DEF TypesInv, Placed, Place, About
    <3> QED
      BY <2>1, <2>4, <3>1 DEF Course, Read, SeenUp, KindOf
  <2>8. Ready(c)'
    BY <2>1, <2>2, <2>3, <2>4 DEF Course, Ready, Rests, KindOf, NameOf
  <2>9. Timely(c)'
    BY <2>1 DEF Course, Timely
  <2> QED
    BY <2>5, <2>6, <2>7, <2>8, <2>9 DEF Course
<1> QED
  BY <1>2, <1>3

\* A command reaches a place where nothing is said of it but of its guard.
LEMMA CourseEnds ==
    ASSUME TypesInv, AsksKept, \A s \in Sessions : Evolves(s), NEW c \in Cmds, Found(c),
           pc[c] # "idle", UNCHANGED late, pc'[c] \notin Later \cup {"check"}
    PROVE  Course(c)'
<1>1. Found(c)'
  BY GuardKept DEF Found
<1> QED
  BY <1>1 DEF Course, Dialog, Read, Ready, Timely, Later, Writes

\* A command is given a session id: it is late when that session is over.
LEMMA StartCourse ==
    ASSUME TypesInv, TmuxInv, NEW c \in Cmds, Course(c), Start(c) PROVE Course(c)'
<1>1. PICK a \in Asks :
         /\ a.guard # None => pane[a.guard] # "none"
         /\ ask' = [ask EXCEPT ![c] = a]
         /\ late' = IF a.guard # None /\ pane[a.guard] = "gone" THEN late \cup {c} ELSE late
  BY DEF Start
<1>2. pc[c] = "idle" /\ UNCHANGED pane /\ pc'[c] \in {"exit", "kill", "capture", "preseed", "new"}
  BY FirstPlace DEF Start, Exit, Goto, TypesInv, CommandTypes, tmuxVars, paneVars
<1>3. ask'[c] = a /\ c \notin late
  BY <1>1, <1>2 DEF TypesInv, CommandTypes, Course, Found
<1>4. Found(c)'
  BY <1>1, <1>2, <1>3 DEF Found, Later
<1> QED
  BY <1>2, <1>4 DEF Course, Dialog, Read, Ready, Timely, Later, Writes

\* The session a command makes is its own.
LEMMA OwnSession ==
    ASSUME TypesInv, NEW c \in Cmds, Makes(c)
    PROVE  About(c) = c /\ c \in Sessions /\ c \notin Old /\ NameOf(c) = ask[c].slug
           /\ KindOf(c) = ask[c].kind
  BY RcAssumption DEF About, Makes, Sessions, NameOf, KindOf

\* A command that makes a session was given no session id.
LEMMA MakesFree ==
    ASSUME TypesInv, NEW c \in Cmds, Makes(c), Found(c) PROVE ask[c].guard = None /\ c \notin late
  BY AskTypes DEF Makes, Found

\* The session just created has the slug.
LEMMA NewSessionCourse ==
    ASSUME TypesInv, TmuxInv, NEW c \in Cmds, Course(c), NewSession(c) PROVE Course(c)'
<1>1. /\ pc[c] = "new" /\ UNCHANGED <<ask, late>> /\ Makes(c)
  BY DEF NewSession, TypesInv, Placed, Place
<1>2. ask[c].guard = None /\ c \notin late
  BY <1>1, MakesFree DEF Course
<1>3. pc'[c] \in {"exit", "poll"} /\ (pc'[c] = "poll" => pane'[c] # "none")
  BY DEF NewSession, Exit, Goto, TypesInv, CommandTypes, TmuxTypes, Sessions
<1>4. About(c)' = c /\ c \in Sessions
  BY <1>1, OwnSession DEF About, Makes
<1>5. Found(c)'
  BY <1>1, <1>2, <1>3, <1>4 DEF Found, Later
<1> QED
  BY <1>3, <1>5 DEF Course, Dialog, Read, Ready, Timely, Writes

\* What a capture says of its session.
LEMMA CaptureShows ==
    ASSUME TypesInv, TmuxInv, NEW s \in Sessions, NEW m \in Captures(s), Lives(s)
    PROVE  /\ SeenUp(s, m) => pane[s] \in Up
           /\ "trust" \in m => Safe(s)
           /\ "bypass" \in m => pane[s] \in BypassScreens \/ Safe(s)
<1>1. Shape(s)
  BY DEF TmuxInv, Shapes
<1>2. PICK h \in SUBSET (passed[s] \cup (IF pane[s] \in Up THEN {"url"} ELSE {})) :
         m = h \cup (IF pane[s] = "starting" THEN {} ELSE {"text"})
               \cup (IF pane[s] \in {"bypass", "bypass2", "bypass1"} THEN {"bypass"}
                     ELSE {pane[s]} \cap {"trust", "auth", "reconnecting"})
  BY DEF Captures
<1>3. passed[s] \subseteq {"bypass", "trust"}
  BY DEF TypesInv, TmuxTypes
<1>4. "url" \in m => pane[s] \in Up
  BY <1>2, <1>3
<1>5. "text" \in m => pane[s] # "starting"
  BY <1>2, <1>3
<1>6. "trust" \in m => "trust" \in passed[s] \/ pane[s] = "trust"
  BY <1>2
<1>7. "bypass" \in m => "bypass" \in passed[s] \/ pane[s] \in BypassScreens
  BY <1>2 DEF BypassScreens
<1> QED
  BY <1>1, <1>4, <1>5, <1>6, <1>7 DEF SeenUp, Shape, Safe

\* A state that is ready was seen in a session that is up.
LEMMA ReadySeen ==
    ASSUME NEW k \in Typable, NEW s, NEW m, KindOf(s) = k, ClassifyPane(k, KindOf(s), m) = "ready"
    PROVE  SeenUp(s, m)
  BY DEF ClassifyPane, SeenUp, Typable

\* Poll goes on to a dialog or to the text only from a pane that showed it: its own
\* session, or one found instead, and then its own is over.
LEMMA PollCourse ==
    ASSUME TypesInv, TmuxInv, NEW c \in Cmds, Course(c), Poll(c) PROVE Course(c)'
<1>1. pc[c] = "poll" /\ UNCHANGED <<ask, late, pane, passed>> /\ Makes(c) /\ ~Invalid(ask[c])
  BY DEF Poll, tmuxVars, paneVars, TypesInv, Placed, Place
<1>2. PICK s \in Sessions : s = At(c) /\ Lives(s)
  BY <1>1, AtLives DEF Poll
<1>3. /\ About(c) = c /\ c \in Sessions /\ c \notin Old /\ KindOf(c) = ask[c].kind
      /\ NameOf(c) = ask[c].slug /\ ask[c].guard = None /\ c \notin late
  BY <1>1, OwnSession, MakesFree DEF Course
<1>4. pane[c] # "none" /\ (s = c \/ pane[c] = "gone")
  BY <1>1, <1>2, <1>3, AtOrGone DEF Course, Found, Later
<1>5. About(c)' = c /\ Found(c)'
  BY <1>1, <1>3, <1>4 DEF Found, About, Makes
<1>6. PICK m \in Captures(s) :
         /\ pc'[c] \in {"poll", "exit", "down", "trust", "type"}
         /\ pc'[c] = "down" => "bypass" \in m
         /\ pc'[c] = "trust" => "trust" \in m
         /\ pc'[c] = "type" =>
              ClassifyPane(ask[c].kind, KindOf(s), m) = "ready" /\ ask[c].text # None
  BY <1>1, <1>2 DEF Poll, Finish, Exit, Goto, TypesInv, CommandTypes
<1>7. Dialog(c)'
  <2>1. /\ "trust" \in m => Safe(s)
        /\ "bypass" \in m => pane[s] \in BypassScreens \/ Safe(s)
    BY <1>2, CaptureShows
  <2> QED
    BY <1>1, <1>3, <1>4, <1>5, <1>6, <2>1 DEF Dialog, Safe
<1>8. Ready(c)'
  <2> SUFFICES ASSUME pc'[c] = "type", s = c PROVE Rests(c)
    BY <1>1, <1>4, <1>5, <1>6 DEF Ready, Rests, KindOf, Writes
  <2>1. KindOf(c) \in Typable
    BY <1>1, <1>3, <1>6, AskTypes DEF Invalid, Makes, Typable
  <2>2. SeenUp(c, m)
    BY <1>3, <1>6, <2>1, ReadySeen
  <2> QED
    BY <1>2, <2>1, <2>2, CaptureShows DEF Rests
<1> QED
  BY <1>1, <1>3, <1>5, <1>6, <1>7, <1>8 DEF Course, Read, Timely

\* Down, DownEnter and AcceptTrust by the command that made the session.
LEMMA DialogCourse ==
    ASSUME TypesInv, TmuxInv, AsksKept, NEW c \in Cmds, Course(c), \A s \in Sessions : Evolves(s),
           Down(c) \/ DownEnter(c) \/ AcceptTrust(c)
    PROVE  Course(c)'
<1>1. /\ pc[c] \in {"down", "downEnter", "trust"} /\ UNCHANGED <<ask, late>>
      /\ pc'[c] \in {"poll", "downEnter", "exit"}
      /\ pc'[c] = "downEnter" => Down(c) /\ At(c) # None
      /\ pc[c] = "trust" /\ pc'[c] # "exit" => ask[c].verb # "accept-trust"
  BY DEF Down, DownEnter, AcceptTrust, Exit, Goto, commandVars, TypesInv, CommandTypes
<1>2. CASE pc'[c] = "exit"
  BY <1>1, <1>2, CourseEnds DEF Course, Later
<1>3. CASE pc'[c] # "exit"
  <2>1. Makes(c)
    BY <1>1, <1>3, AskTypes DEF TypesInv, Placed, Place, Makes
  <2>2. /\ About(c) = c /\ c \in Sessions /\ c \notin Old /\ NameOf(c) = ask[c].slug
        /\ ask[c].guard = None /\ c \notin late
    BY <2>1, OwnSession, MakesFree DEF Course
  <2>3. pane[c] # "none" /\ pane'[c] # "none"
    BY <1>1, <2>2 DEF Course, Found, Later, Evolves
  <2>4. Found(c)'
    BY <1>1, <2>1, <2>2, <2>3 DEF Found, About, Makes
  <2>5. pc'[c] = "downEnter" => pane'[c] \in {"bypass2", "bypass1", "gone"} \/ Safe(c)'
    <3> SUFFICES ASSUME Down(c), pc'[c] = "downEnter"
                 PROVE  pane'[c] \in {"bypass2", "bypass1", "gone"} \/ Safe(c)'
      BY <1>1
    <3>1. Safe(c) => Safe(c)'
      BY <1>1, <2>2 DEF Safe, Evolves
    <3>2. pane[c] \in {"bypass2", "bypass1", "gone"} =>
             pane'[c] \in {"bypass2", "bypass1", "gone"} \/ Safe(c)'
      BY <2>2 DEF Safe, Evolves, BypassScreens
    <3>3. CASE pane[c] = "bypass"
      <4>1. At(c) = c
        BY <2>2, <2>3, <3>3, AtOrGone DEF Down
      <4>2. pane' = [pane EXCEPT ![c] = "bypass2"]
        BY <3>3, <4>1 DEF Down, Goto, TypesInv, CommandTypes
      <4> QED
        BY <2>2, <4>2 DEF TypesInv, TmuxTypes
    <3>4. Dialog(c) /\ pc[c] = "down"
      BY DEF Course, Down
    <3> QED
      BY <3>1, <3>2, <3>3, <3>4 DEF Dialog, BypassScreens
  <2> QED
    BY <1>1, <1>3, <2>4, <2>5 DEF Course, Dialog, Read, Ready, Timely, Writes
<1> QED
  BY <1>2, <1>3

\* Sending the text leaves the session as it is.
LEMMA WritesCourse ==
    ASSUME TypesInv, AsksKept, NEW c \in Cmds, Course(c), \A s \in Sessions : Evolves(s),
           SendKeys(c) \/ SetBuffer(c) \/ PasteBuffer(c) \/ Enter(c)
    PROVE  Course(c)'
<1>1. pc[c] \in Writes /\ UNCHANGED <<ask, late, looked>> /\ pc'[c] \in {"paste", "enter", "exit"}
  BY DEF SendKeys, SetBuffer, PasteBuffer, Enter, Failed, Fail, Finish, Exit, Goto,
         Writes, TypesInv, CommandTypes
<1>2. CASE pc'[c] = "exit"
  BY <1>1, <1>2, CourseEnds DEF Course, Later, Writes
<1>3. CASE pc'[c] # "exit"
  <2>1. UNCHANGED <<pane, passed>>
    BY <1>3 DEF SendKeys, SetBuffer, PasteBuffer, Enter, Failed, Fail, Finish, Exit, Goto,
                TypesInv, CommandTypes, paneVars
  <2>2. About(c)' = About(c)
    BY <1>1 DEF About
  <2> QED
    BY <1>1, <1>3, <2>1, <2>2 DEF Course, Found, Dialog, Read, Ready, Timely, Writes, Later, Rests,
                                  KindOf, NameOf
<1> QED
  BY <1>2, <1>3

\* The capture is of the session that the slug finds.
LEMMA CaptureCourse ==
    ASSUME TypesInv, TmuxInv, AsksKept, \A s \in Sessions : Evolves(s), NEW c \in Cmds, Course(c),
           Capture(c)
    PROVE  Course(c)'
<1>1. /\ pc[c] = "capture" /\ UNCHANGED <<ask, late, pane, passed>>
      /\ ask[c].verb \in {"prompt", "accept-trust"}
  BY DEF Capture, tmuxVars, paneVars, TypesInv, Placed, Place
<1>2. CASE pc'[c] = "exit"
  BY <1>1, <1>2, CourseEnds DEF Course, Later
<1>3. CASE pc'[c] # "exit"
  <2>1. At(c) # None /\ looked' = [looked EXCEPT ![c] = At(c)] /\ pc'[c] \in {"check", "trust"}
    BY <1>1, <1>3 DEF Capture, Exit, Goto, TypesInv, CommandTypes
  <2>2. PICK s \in Sessions : s = At(c) /\ Lives(s)
    BY <1>1, <2>1, AtLives
  <2>3. PICK m \in Captures(s) :
           /\ pc'[c] = "check" => screen' = [screen EXCEPT ![c] = m]
           /\ pc'[c] = "trust" => "trust" \in m
    BY <1>1, <1>3, <2>2 DEF Capture, Exit, Goto, TypesInv, CommandTypes
  <2>4. looked'[c] = s /\ (pc'[c] = "check" => screen'[c] = m)
    BY <2>1, <2>2, <2>3 DEF TypesInv, CommandTypes
  <2>5. About(c)' = s
    BY <1>1, <2>4 DEF About
  <2>6. Found(c)'
    BY <1>1, <2>2, <2>5, GuardKept DEF Course, Found, Lives
  <2>7. Dialog(c)'
    BY <1>1, <2>1, <2>2, <2>3, <2>5, CaptureShows DEF Dialog, Safe
  <2>8. Read(c)'
    BY <1>1, <2>2, <2>4, CaptureShows DEF Read, SeenUp, KindOf
  <2> QED
    BY <2>1, <2>6, <2>7, <2>8 DEF Course, Ready, Timely, Writes
<1> QED
  BY <1>2, <1>3

\* The checks pass only for a session that is ready and takes prompts and has the id that
\* was given, or when the captured one is over or has another name.
LEMMA CheckCourse ==
    ASSUME TypesInv, TmuxInv, AsksKept, \A s \in Sessions : Evolves(s), NEW c \in Cmds, Course(c),
           Check(c)
    PROVE  Course(c)'
<1>1. pc[c] = "check" /\ UNCHANGED <<ask, late, pane, passed, looked>> /\ ask[c].verb = "prompt"
  BY DEF Check, tmuxVars, paneVars, TypesInv, Placed, Place
<1>2. CASE pc'[c] = "exit"
  BY <1>1, <1>2, CourseEnds DEF Course, Later
<1>3. CASE pc'[c] # "exit"
  <2>1. PICK e \in {At(c), None} :
           ask[c].guard \in {None, e} /\ Accepts(c, e) /\ pc'[c] = "type"
    BY <1>1, <1>3 DEF Check, Exit, Goto, TypesInv, CommandTypes
  <2>2. e # None /\ e = At(c) /\ KindOf(e) \in Typable
    BY <2>1 DEF Accepts, KindRead, Typable
  <2>3. e \in Sessions /\ Lives(e)
    BY <1>1, <2>2, AtLives
  <2>4. PICK b \in Sessions : b = looked[c] /\ pane[b] # "none"
    BY <1>1 DEF Course, Found, About
  <2>5. About(c)' = b /\ About(c) = b
    BY <1>1, <2>4 DEF About
  <2>6. Rests(b) \/ NameOf(b) # ask[c].slug
    <3> SUFFICES ASSUME NameOf(b) = ask[c].slug, pane[b] # "gone" PROVE Rests(b)
      BY DEF Rests
    <3>1. e = b
      BY <1>1, <2>2, <2>4, AtOrGone
    <3>2. SeenUp(b, screen[c])
      BY <2>1, <2>2, <2>4, <3>1, ReadySeen DEF Accepts, KindRead
    <3> QED
      BY <1>1, <2>2, <2>4, <3>1, <3>2 DEF Course, Read, Rests
  <2>7. Found(c)'
    BY <1>1, <2>4, <2>5, GuardKept DEF Course, Found
  <2>8. Timely(c)'
    BY <1>1, <2>1, <2>3 DEF Course, Found, Timely, Lives
  <2>9. Ready(c)'
    BY <1>1, <2>5, <2>6 DEF Ready, Rests, KindOf, NameOf
  <2> QED
    BY <2>1, <2>7, <2>8, <2>9 DEF Course, Dialog, Read
<1> QED
  BY <1>2, <1>3

\* Every step keeps what commands know.
LEMMA CoursesStep ==
    ASSUME TypesInv, TmuxInv, Courses, [Next]_vars PROVE Courses'
<1>1. AsksKept /\ \A s \in Sessions : Evolves(s)
  BY TmuxStep
<1>2. ASSUME NEW c \in Cmds, Command(c) \/ Cut(c) PROVE Courses'
  <2>1. ASSUME NEW q \in Cmds \ {c} PROVE Course(q)'
    BY <1>1, <1>2, <2>1, Alone, CourseKept DEF Courses
  <2>2. Course(c)'
    <3>1. CASE NewSession(c) \/ Poll(c) \/ Start(c)
      BY <3>1, NewSessionCourse, PollCourse, StartCourse DEF Courses
    <3>2. CASE Capture(c) \/ Check(c)
      BY <1>1, <3>2, CaptureCourse, CheckCourse DEF Courses
    <3>3. CASE Down(c) \/ DownEnter(c) \/ AcceptTrust(c)
      BY <1>1, <3>3, DialogCourse DEF Courses
    <3>4. CASE SendKeys(c) \/ SetBuffer(c) \/ PasteBuffer(c) \/ Enter(c)
      BY <1>1, <3>4, WritesCourse DEF Courses
    <3>5. CASE PreseedRead(c) \/ PreseedWrite(c) \/ PreseedFails(c) \/ Cut(c) \/ Kill(c)
                 \/ PollDead(c) \/ PollTimesOut(c)
      <4>1. pc[c] # "idle" /\ UNCHANGED late /\ pc'[c] \notin Later \cup {"check"}
        BY <3>5 DEF PreseedRead, PreseedWrite, PreseedFails, Cut, Kill, PollDead, PollTimesOut,
           Finish, Exit, Goto, commandVars, TypesInv, CommandTypes, Later
      <4> QED
        BY <1>1, <4>1, CourseEnds DEF Courses, Course
    <3> QED
      BY <1>2, <3>1, <3>2, <3>3, <3>4, <3>5 DEF Command
  <2> QED
    BY <2>1, <2>2 DEF Courses
<1>3. CASE UNCHANGED <<pc, commandVars>>
  <2>1. \A c \in Cmds : Untouched(c)
    BY <1>3 DEF Untouched, commandVars
  <2> QED
    BY <1>1, <2>1, CourseKept DEF Courses
<1> QED
  BY <1>2, <1>3 DEF Next, Show, Interrupted, ClaudeReads, ClaudeWrites, vars

\* A command that sends keys found its session in the state the keys are for, and that
\* session still is in it or is over, or was never of the name the command was given
\* (waitUntilReady and Prompt of ops.go).
THEOREM CoursesInvariance == Spec => []Courses
<1>1. Init => Courses
  <2> SUFFICES ASSUME Init, NEW c \in Cmds PROVE Course(c)
    BY DEF Courses
  <2>1. pc[c] = "idle" /\ c \notin late
    BY DEF Init
  <2> QED
    BY <2>1 DEF Course, Found, Dialog, Read, Ready, Timely, Later, Writes
<1>2. TypesInv /\ TmuxInv /\ Courses /\ [Next]_vars => Courses'
  BY CoursesStep
<1> QED
  BY <1>1, <1>2, TypesInvariance, TmuxInvariance, PTL DEF Spec

-----------------------------------------------------------------------------
(* Where texts were typed, which dialogs were declined, what prompt reports *)

\* What the command is about no longer changes.
Settled(c) == pc[c] # "idle" /\ (Makes(c) \/ pc[c] \in {"enter", "exit"})

\* The session a command is about: the command is elsewhere, and s is not that session
\* under the name the command was given.
Astray(c, s) == Elsewhere(About(c), c) /\ (s = About(c) => NameOf(s) # ask[c].slug)

\* A command that pastes its text.
Pastes(c) == pc[c] # "idle" /\ ask[c].text = "block"

\* What is in the buffer is the text of such a command.
Buffered == buffer # None => Pastes(buffer)

\* A text that was typed: into the session that was to be guarded, unless that one lost the
\* slug to another later on, and into one that was up, unless the command was elsewhere.
TypedOK(t) ==
    /\ t.text = t.by \/ (Pastes(t.text) /\ Pastes(t.by))
    /\ pc[t.by] \in {"enter", "exit"} /\ About(t.by) \in Sessions /\ pane[About(t.by)] # "none"
    /\ ask[t.by].guard # None =>
          /\ pane[ask[t.by].guard] # "none" /\ t.by \notin late
          /\ t.into = ask[t.by].guard \/ Elsewhere(ask[t.by].guard, t.by)
    /\ t.pane \in StartScreens => Astray(t.by, t.into)

\* A dialog declined: not that of the session the command is about.
EndedOK(x) == x.how = "declined" =>
    /\ Settled(x.by) /\ About(x.by) \in Sessions /\ pane[About(x.by)] # "none"
    /\ Astray(x.by, x.session)

\* A text that a prompt has typed waits on the line of its session or was submitted, unless
\* it was swallowed or typed elsewhere.
Pending(c) == pc[c] = "enter" /\ ask[c].verb = "prompt" =>
    \E t \in typed : t.by = c /\ (Delivered(t) \/ t.text \in line[looked[c]])

\* What exit code 0 of prompt means.
Told(c) == pc[c] = "exit" /\ ask[c].verb = "prompt" /\ code[c] = 0 =>
    /\ looked[c] \in Sessions /\ pane[looked[c]] # "none"
    /\ \E t \in typed : t.by = c /\ Delivered(t)

\* A prompt that has submitted anything exits with 0.
Sends(c) == (\E x \in sent : x.by = c) =>
    pc[c] # "idle" /\ (ask[c].verb = "prompt" => pc[c] = "exit" /\ code[c] = 0)

\* The invariant of the histories, and of the texts.
History == (\A t \in typed : TypedOK(t)) /\ (\A x \in ended : EndedOK(x))
Texts == \A c \in Cmds : Pending(c) /\ Told(c) /\ Sends(c)
TextInv == Buffered /\ History /\ Texts

\* What a settled command is about, and later its exit code, stays.
LEMMA SettledStays ==
    ASSUME TypesInv, [Next]_vars, NEW c \in Cmds, Settled(c)
    PROVE  /\ Settled(c)' /\ About(c)' = About(c) /\ ask'[c] = ask[c]
           /\ (c \in late' <=> c \in late)
           /\ pc[c] \in {"enter", "exit"} => pc'[c] \in {"enter", "exit"} /\ looked'[c] = looked[c]
           /\ pc[c] = "exit" => pc'[c] = "exit" /\ code'[c] = code[c]
<1>1. CASE Command(c) \/ Cut(c)
  <2>1. ask'[c] = ask[c] /\ pc'[c] # "idle"
    BY <1>1, Alone DEF AsksKept, Settled
  <2>2. c \in late' <=> c \in late
    <3>1. ~Start(c)
      BY DEF Start, Settled
    <3>2. CASE PreseedRead(c) \/ PreseedWrite(c) \/ PreseedFails(c) \/ Cut(c) \/ Down(c)
      BY <3>2 DEF PreseedRead, PreseedWrite, PreseedFails, Cut, Down, commandVars
    <3>3. CASE NewSession(c) \/ Poll(c) \/ PollDead(c) \/ PollTimesOut(c) \/ DownEnter(c)
               \/ AcceptTrust(c)
      BY <3>3 DEF NewSession, Poll, PollDead, PollTimesOut, DownEnter, AcceptTrust
    <3>4. CASE SendKeys(c) \/ SetBuffer(c) \/ PasteBuffer(c) \/ Enter(c) \/ Capture(c)
               \/ Check(c) \/ Kill(c)
      BY <3>4 DEF SendKeys, SetBuffer, PasteBuffer, Enter, Capture, Check, Kill
    <3> QED
      BY <1>1, <3>1, <3>2, <3>3, <3>4 DEF Command
  <2>3. CASE pc[c] \in {"enter", "exit"}
    <3>1. Enter(c)
      BY <1>1, <2>3 DEF Command, Cut, Start, PreseedRead, PreseedWrite, PreseedFails, NewSession,
         Poll, PollDead, PollTimesOut, Down, DownEnter, AcceptTrust, SendKeys, SetBuffer,
         PasteBuffer, Capture, Check, Kill
    <3>2. pc[c] = "enter" /\ pc'[c] = "exit" /\ looked'[c] = looked[c]
      BY <3>1 DEF Enter, Failed, Fail, Finish, Exit, Goto, TypesInv, CommandTypes
    <3> QED
      BY <2>1, <2>2, <3>2 DEF Settled, About
  <2>4. CASE pc[c] \notin {"enter", "exit"}
    BY <2>1, <2>2, <2>4 DEF Settled, Makes, About
  <2> QED
    BY <2>3, <2>4
<1>2. CASE UNCHANGED <<pc, commandVars>>
  BY <1>2 DEF commandVars, Settled, Makes, About
<1>3. CASE \E q \in Cmds \ {c} : Command(q) \/ Cut(q)
  <2>1. Untouched(c)
    BY <1>3, Alone
  <2> QED
    BY <2>1 DEF Untouched, Settled, Makes, About
<1> QED
  BY <1>1, <1>2, <1>3 DEF Next, Show, Interrupted, ClaudeReads, ClaudeWrites, vars

\* The steps that type a text, its own or what is in the buffer.
Writing(c) ==
    /\ pc[c] \in {"type", "paste"} /\ pc'[c] = "enter" /\ At(c) # None
    /\ \E b \in Cmds : Typed(c, b) /\ (b = c \/ (b = buffer /\ ask[c].text = "block"))
    /\ UNCHANGED <<sent, missed, ended, pane, passed, ask, looked, late>>

\* The steps that send an Enter.
Pressing(c) ==
    /\ pc[c] \in {"downEnter", "trust", "enter"} /\ At(c) # None /\ Press(c)
    /\ pc[c] = "enter" \/ ~Makes(c) => pc'[c] = "exit"
    /\ ask[c].verb = "prompt" => pc'[c] = "exit" /\ code'[c] = 0
    /\ UNCHANGED <<ask, looked, late>>

\* The step that kills a session.
Killing(c) ==
    /\ UNCHANGED <<inputVars, typed>>
    /\ \E s \in Sessions : ended' = ended \cup {[session |-> s, by |-> c, how |-> "killed"]}

\* Only these touch texts and dialogs.
LEMMA TextSteps ==
    ASSUME TypesInv, [Next]_vars
    PROVE  \/ UNCHANGED <<inputVars, typed, ended>>
           \/ \E c \in Cmds : (Command(c) \/ Cut(c)) /\ (Writing(c) \/ Pressing(c) \/ Killing(c))
<1>1. ASSUME NEW c \in Cmds, Command(c) \/ Cut(c)
      PROVE  UNCHANGED <<inputVars, typed, ended>> \/ Writing(c) \/ Pressing(c) \/ Killing(c)
  <2>1. CASE Start(c) \/ Poll(c) \/ PollDead(c) \/ PollTimesOut(c) \/ Capture(c) \/ Check(c)
    BY <2>1 DEF Start, Poll, PollDead, PollTimesOut, Capture, Check, tmuxVars, paneVars
  <2>2. CASE PreseedRead(c) \/ PreseedWrite(c) \/ PreseedFails(c) \/ Cut(c)
    BY <2>2 DEF PreseedRead, PreseedWrite, PreseedFails, Cut, tmuxVars, paneVars
  <2>3. CASE NewSession(c) \/ Down(c) \/ SetBuffer(c)
    BY <2>3 DEF NewSession, Down, SetBuffer, paneVars
  <2>4. CASE SendKeys(c) \/ PasteBuffer(c)
    <3>1. CASE UNCHANGED <<line, typed>>
      BY <2>4, <3>1 DEF SendKeys, PasteBuffer, Failed, Fail, Exit, Goto, paneVars, inputVars
    <3>2. CASE SendKeys(c) /\ ~UNCHANGED <<line, typed>>
      <4>1. At(c) # None /\ Typed(c, c) /\ Goto(c, "enter") /\ pc[c] = "type"
            /\ UNCHANGED <<sent, missed, ended, pane, passed, ask, looked, late>>
        BY <3>2 DEF SendKeys, paneVars
      <4> QED
        BY <4>1 DEF Writing, Goto, TypesInv, CommandTypes
    <3>3. CASE PasteBuffer(c) /\ ~UNCHANGED <<line, typed>>
      <4>1. At(c) # None /\ buffer # None /\ Typed(c, buffer) /\ Goto(c, "enter")
            /\ pc[c] = "paste" /\ UNCHANGED <<sent, missed, ended, pane, passed, ask, looked, late>>
        BY <3>3 DEF PasteBuffer, paneVars
      <4>2. buffer \in Cmds /\ ask[c].text = "block"
        BY <4>1 DEF TypesInv, TmuxTypes, Placed, Place
      <4> QED
        BY <4>1, <4>2 DEF Writing, Goto, TypesInv, CommandTypes
    <3> QED
      BY <2>4, <3>1, <3>2, <3>3
  <2>5. CASE DownEnter(c) \/ AcceptTrust(c) \/ Enter(c)
    <3>1. CASE UNCHANGED tmuxVars
      BY <3>1 DEF tmuxVars, paneVars
    <3>2. CASE ~UNCHANGED tmuxVars
      <4>1. At(c) # None /\ Press(c)
        BY <2>5, <3>2, EnterPresses
      <4>2. /\ pc[c] \in {"downEnter", "trust", "enter"} /\ UNCHANGED <<ask, looked, late>>
            /\ pc[c] = "enter" \/ ~Makes(c) => pc'[c] = "exit"
        BY <2>5 DEF DownEnter, AcceptTrust, Enter, Failed, Fail, Finish, Exit, Goto, TypesInv,
                    CommandTypes, Placed, Place
      <4>3. ask[c].verb = "prompt" => Enter(c) /\ Finish(c)
        BY <2>5, <3>2 DEF DownEnter, AcceptTrust, Enter, TypesInv, Placed, Place, Makes
      <4>4. ask[c].verb = "prompt" => pc'[c] = "exit" /\ code'[c] = 0
        BY <4>3 DEF Finish, Exit, Goto, TypesInv, CommandTypes
      <4> QED
        BY <4>1, <4>2, <4>4 DEF Pressing
    <3> QED
      BY <3>1, <3>2
  <2>6. CASE Kill(c)
    <3>1. CASE UNCHANGED tmuxVars
      BY <3>1 DEF tmuxVars, paneVars
    <3>2. CASE ~UNCHANGED tmuxVars
      BY <2>6, <3>2, AskTypes DEF Kill, Ends, Killing
    <3> QED
      BY <3>1, <3>2
  <2> QED
    BY <1>1, <2>1, <2>2, <2>3, <2>4, <2>5, <2>6 DEF Command
<1>2. CASE UNCHANGED <<inputVars, typed, ended>>
  BY <1>2
<1> QED
  BY <1>1, <1>2 DEF Next, Show, Interrupted, ClaudeReads, ClaudeWrites, vars, tmuxVars, paneVars

\* No step takes back what a command was asked.
LEMMA AsksStay == ASSUME TypesInv, [Next]_vars PROVE AsksKept
<1>1. CASE \E c \in Cmds : Command(c) \/ Cut(c)
  BY <1>1, Alone
<1>2. CASE UNCHANGED <<pc, ask>>
  BY <1>2 DEF AsksKept
<1> QED
  BY <1>1, <1>2 DEF Next, Show, Interrupted, ClaudeReads, ClaudeWrites, vars, commandVars

\* Only a command that pastes its text sets the buffer.
LEMMA BufferedStep == ASSUME TypesInv, Buffered, [Next]_vars PROVE Buffered'
<1>1. AsksKept
  BY AsksStay
<1>2. CASE buffer' \in {buffer, None}
  BY <1>1, <1>2 DEF Buffered, Pastes, AsksKept, TypesInv, TmuxTypes
<1>3. ASSUME NEW c \in Cmds, SetBuffer(c), buffer' # buffer PROVE Buffered'
  <2>1. pc[c] # "idle" /\ ask[c].text = "block" /\ buffer' = c
    BY <1>3 DEF SetBuffer
  <2> QED
    BY <1>1, <2>1 DEF Buffered, Pastes, AsksKept
<1>4. ASSUME NEW c \in Cmds, Command(c) \/ Cut(c), ~SetBuffer(c) PROVE buffer' \in {buffer, None}
  <2>1. CASE PasteBuffer(c)
    BY <2>1 DEF PasteBuffer
  <2>2. CASE DownEnter(c) \/ AcceptTrust(c) \/ Enter(c)
    BY <2>2, EnterPresses DEF Press, tmuxVars
  <2>3. CASE ~(PasteBuffer(c) \/ DownEnter(c) \/ AcceptTrust(c) \/ Enter(c))
    BY <1>4, <2>3 DEF Command, Cut, Start, PreseedRead, PreseedWrite, PreseedFails, NewSession,
       Poll, PollDead, PollTimesOut, Down, SendKeys, Capture, Check, Kill, tmuxVars
  <2> QED
    BY <2>1, <2>2, <2>3
<1> QED
  BY <1>2, <1>3, <1>4 DEF Next, Show, Interrupted, ClaudeReads, ClaudeWrites, vars, tmuxVars

\* Who was elsewhere stays so.
LEMMA AstrayStays ==
    ASSUME TypesInv, TmuxInv, [Next]_vars, NEW c \in Cmds, Settled(c), NEW s \in Sessions,
           About(c) \in Sessions, pane[About(c)] # "none", Astray(c, s)
    PROVE  Astray(c, s)'
<1>1. About(c)' = About(c) /\ pc[c] # "idle"
  BY SettledStays DEF Settled
<1>2. PICK a \in Sessions : a = About(c) /\ pane[a] # "none"
  OBVIOUS
<1>3. NameOf(a)' = NameOf(a) /\ ask'[c] = ask[c] /\ Elsewhere(a, c)'
  BY <1>1, <1>2, ElsewhereStays DEF Astray
<1> QED
  BY <1>1, <1>2, <1>3 DEF Astray, Elsewhere

\* An entry of the texts typed stays right.
LEMMA TypedStays ==
    ASSUME TypesInv, TmuxInv, [Next]_vars, NEW t \in typed, TypedOK(t) PROVE TypedOK(t)'
<1>1. PICK c \in Cmds : c = t.by /\ Settled(c) /\ pc[c] # "idle" /\ t.into \in Sessions
  BY DEF TypesInv, RecordTypes, TypedOK, Settled
<1>2. /\ About(c)' = About(c) /\ ask'[c] = ask[c] /\ (c \in late' <=> c \in late)
      /\ pc'[c] \in {"enter", "exit"}
  BY <1>1, SettledStays DEF TypedOK
<1>3. PICK a \in Sessions : a = About(c) /\ pane[a] # "none"
  BY <1>1 DEF TypedOK
<1>4. pane'[a] # "none"
  BY <1>1, <1>3, ElsewhereStays
<1>5. t.pane \in StartScreens => Astray(c, t.into)'
  BY <1>1, <1>3, AstrayStays DEF TypedOK
<1>6. ask[c].guard # None =>
         /\ pane'[ask[c].guard] # "none" /\ c \notin late'
         /\ t.into = ask[c].guard \/ Elsewhere(ask[c].guard, c)'
  <2> SUFFICES ASSUME NEW g \in Sessions, g = ask[c].guard, ask[c].guard # None
               PROVE  /\ pane'[g] # "none" /\ c \notin late'
                      /\ t.into = g \/ Elsewhere(g, c)'
    BY <1>1, <1>2, AskTypes DEF Elsewhere, NameOf
  <2> QED
    BY <1>1, <1>2, ElsewhereStays DEF TypedOK
<1>7. t.text = t.by \/ (Pastes(t.text)' /\ Pastes(t.by)')
  BY AsksStay DEF TypedOK, Pastes, AsksKept, TypesInv, RecordTypes
<1> QED
  BY <1>1, <1>2, <1>3, <1>4, <1>5, <1>6, <1>7 DEF TypedOK, Elsewhere, NameOf, Pastes

\* And one of the dialogs declined.
LEMMA EndedStays ==
    ASSUME TypesInv, TmuxInv, [Next]_vars, NEW x \in ended, EndedOK(x) PROVE EndedOK(x)'
<1> SUFFICES ASSUME x.how = "declined" PROVE EndedOK(x)'
  BY DEF EndedOK
<1>1. PICK c \in Cmds : c = x.by /\ Settled(c) /\ pc[c] # "idle" /\ x.session \in Sessions
  BY DEF TypesInv, RecordTypes, EndedOK, Settled
<1>2. Settled(c)' /\ About(c)' = About(c)
  BY <1>1, SettledStays
<1>3. PICK a \in Sessions : a = About(c) /\ pane[a] # "none"
  BY <1>1 DEF EndedOK
<1>4. pane'[a] # "none"
  BY <1>1, <1>3, ElsewhereStays
<1>5. Astray(c, x.session)'
  BY <1>1, <1>3, AstrayStays DEF EndedOK
<1> QED
  BY <1>1, <1>2, <1>3, <1>4, <1>5 DEF EndedOK

\* A command that sends keys has its session before it, or is elsewhere.
LEMMA WritesAt ==
    ASSUME TypesInv, TmuxInv, Courses, NEW c \in Cmds, pc[c] \in Later
    PROVE  /\ About(c) \in Sessions /\ pane[About(c)] # "none"
           /\ At(c) = About(c) \/ Elsewhere(About(c), c)
<1>1. pc[c] # "idle" /\ Found(c)
  BY DEF Courses, Course, Later
<1> QED
  BY <1>1, AtOrGone DEF Found, Elsewhere

\* A text is typed only where the invariant says.
LEMMA WritingHistory ==
    ASSUME TypesInv, TmuxInv, Courses, Buffered, [Next]_vars, NEW c \in Cmds, Writing(c),
           NEW b \in Cmds, b = c \/ (b = buffer /\ ask[c].text = "block"), NEW t,
           t = [text |-> b, by |-> c, into |-> At(c), pane |-> pane[At(c)]]
    PROVE  TypedOK(t)'
<1>1. PICK s \in Sessions : s = At(c) /\ Lives(s) /\ t.by = c /\ t.into = s /\ t.pane = pane[s]
  BY AtLives DEF Writing
<1>2. /\ pc'[c] \in {"enter", "exit"} /\ UNCHANGED <<pane, ask, looked, late>>
      /\ pc[c] \in {"type", "paste"} /\ pc[c] # "idle"
  BY DEF Writing
<1>3. PICK a \in Sessions : a = About(c) /\ pane[a] # "none" /\ (s = a \/ Elsewhere(a, c))
  BY <1>1, <1>2, WritesAt DEF Later
<1>4. Ready(c) /\ Timely(c) /\ Found(c)
  BY DEF Courses, Course
<1>5. About(c)' = a
  BY <1>2, <1>3 DEF About
<1>6. pane[s] \in StartScreens => Elsewhere(a, c) /\ (s = a => NameOf(a) # ask[c].slug)
  <2> SUFFICES ASSUME pane[s] \in StartScreens
               PROVE  Elsewhere(a, c) /\ (s = a => NameOf(a) # ask[c].slug)
    OBVIOUS
  <2>1. Rests(a) \/ NameOf(a) # ask[c].slug
    BY <1>2, <1>3, <1>4 DEF Ready, Writes
  <2>2. pane[s] \notin Up \cup {"gone"}
    BY <1>1 DEF Lives, StartScreens, Up
  <2> QED
    BY <1>3, <2>1, <2>2 DEF Rests, Elsewhere
<1>7. ask[c].guard # None =>
         /\ pane[ask[c].guard] # "none" /\ c \notin late
         /\ s = ask[c].guard \/ Elsewhere(ask[c].guard, c)
  <2> SUFFICES ASSUME NEW g \in Sessions, g = ask[c].guard, g # None
               PROVE  pane[g] # "none" /\ c \notin late /\ (s = g \/ Elsewhere(g, c))
    BY <1>2, AskTypes
  <2>1. pane[g] # "none" /\ c \notin late
    BY <1>2, <1>4 DEF Found, Timely, Writes
  <2> QED
    BY <1>1, <1>2, <2>1, AtOrGone DEF Elsewhere
<1>8. t.text = c \/ (Pastes(t.text) /\ Pastes(c))'
  <2>1. t.text = b /\ (b # c => Pastes(b) /\ Pastes(c))
    BY <1>2, RcAssumption DEF Buffered, Pastes, Sessions
  <2> QED
    BY <2>1, AsksStay DEF Pastes, AsksKept
<1> QED
  BY <1>1, <1>2, <1>3, <1>5, <1>6, <1>7, <1>8 DEF TypedOK, Astray, Elsewhere, NameOf

\* An Enter declines no dialog of the session the command is about.
LEMMA PressingHistory ==
    ASSUME TypesInv, TmuxInv, Courses, [Next]_vars, NEW c \in Cmds, Pressing(c),
           Command(c) \/ Cut(c), NEW s \in Sessions, s = At(c), pane[s] = "bypass"
    PROVE  /\ Settled(c)' /\ About(c)' \in Sessions /\ pane'[About(c)'] # "none"
           /\ Astray(c, s)'
<1>1. Lives(s)
  BY DEF Lives
<1>2. /\ pc[c] \in {"downEnter", "trust", "enter"} /\ pc[c] # "idle"
      /\ UNCHANGED <<ask, looked>>
  BY DEF Pressing
<1>3. PICK a \in Sessions : a = About(c) /\ pane[a] # "none" /\ (s = a \/ Elsewhere(a, c))
  BY <1>1, <1>2, WritesAt DEF Later
<1>4. ~Safe(s)
  BY <1>1 DEF TmuxInv, Shapes, Shape, BypassScreens
<1>5. pc[c] = "downEnter" => a = c
  BY <1>3, OwnSession DEF TypesInv, Placed, Place
<1>6. s = a => NameOf(a) # ask[c].slug
  <2> SUFFICES ASSUME s = a PROVE NameOf(a) # ask[c].slug
    OBVIOUS
  <2>1. Dialog(c) /\ Ready(c)
    BY DEF Courses, Course
  <2>2. pc[c] \notin {"downEnter", "trust"}
    BY <1>1, <1>3, <1>4, <1>5, <2>1 DEF Dialog
  <2>3. ~Rests(a)
    BY <1>1 DEF Rests, Up
  <2> QED
    BY <1>2, <1>3, <2>1, <2>2, <2>3 DEF Ready, Writes
<1>7. Elsewhere(a, c)
  BY <1>3, <1>6 DEF Elsewhere
<1>8. /\ About(c)' = a /\ pane'[a] # "none" /\ Elsewhere(a, c)' /\ NameOf(a)' = NameOf(a)
  BY <1>2, <1>3, <1>7, ElsewhereStays DEF About
<1>9. Settled(c)'
  <2>1. AsksKept
    BY Alone
  <2>2. Makes(c) => Makes(c)'
    BY <1>2, <2>1 DEF Makes, AsksKept
  <2> QED
    BY <1>2, <2>1, <2>2 DEF AsksKept, Settled, Makes, Pressing
<1> QED
  BY <1>1, <1>2, <1>3, <1>6, <1>8, <1>9 DEF Astray

\* What an Enter adds to the sessions that ended.
LEMMA PressEnds ==
    ASSUME NEW c \in Cmds, At(c) # None, Press(c)
    PROVE  /\ UNCHANGED typed
           /\ \A x \in ended' : x \in ended \/
                 /\ x.by = c /\ x.session = At(c)
                 /\ x.how = "declined" => pane[At(c)] = "bypass"
<1>1. CASE Submits(c, At(c)) \/ Answers(c, At(c)) \/ Ignored(c, At(c))
  BY <1>1 DEF Press, Submits, Answers, Ignored, paneVars
<1>2. ASSUME NEW how, Ends(c, At(c), how), how = "declined" => pane[At(c)] = "bypass"
      PROVE  \A x \in ended' : x \in ended \/
                 /\ x.by = c /\ x.session = At(c)
                 /\ x.how = "declined" => pane[At(c)] = "bypass"
  BY <1>2 DEF Ends
<1> QED
  BY <1>1, <1>2 DEF Press

\* A text is typed, and a dialog declined, only where the invariant says.
LEMMA HistoryStep ==
    ASSUME TypesInv, TmuxInv, Courses, Buffered, History, [Next]_vars PROVE History'
<1>1. ASSUME NEW t \in typed PROVE TypedOK(t)'
  BY <1>1, TypedStays DEF History
<1>2. ASSUME NEW x \in ended PROVE EndedOK(x)'
  BY <1>2, EndedStays DEF History
<1>3. CASE UNCHANGED <<inputVars, typed, ended>>
  BY <1>1, <1>2, <1>3 DEF History
<1>4. ASSUME NEW c \in Cmds, Writing(c) PROVE History'
  <2>0. PICK b \in Cmds : Typed(c, b) /\ (b = c \/ (b = buffer /\ ask[c].text = "block"))
    BY <1>4 DEF Writing
  <2>1. PICK t : /\ t = [text |-> b, by |-> c, into |-> At(c), pane |-> pane[At(c)]]
                 /\ typed' = typed \cup {t}
    BY <2>0 DEF Typed
  <2>2. TypedOK(t)'
    BY <1>4, <2>0, <2>1, WritingHistory
  <2>3. UNCHANGED ended
    BY <1>4 DEF Writing
  <2> QED
    BY <1>1, <1>2, <2>1, <2>2, <2>3 DEF History
<1>5. ASSUME NEW c \in Cmds, Command(c) \/ Cut(c), Pressing(c) PROVE History'
  <2>1. /\ UNCHANGED typed
        /\ \A x \in ended' : x \in ended \/
              /\ x.by = c /\ x.session = At(c)
              /\ x.how = "declined" => pane[At(c)] = "bypass"
    BY <1>5, PressEnds DEF Pressing
  <2>2. ASSUME NEW x \in ended', x \notin ended PROVE EndedOK(x)'
    <3> SUFFICES ASSUME x.how = "declined" PROVE EndedOK(x)'
      BY DEF EndedOK
    <3>1. PICK s \in Sessions : s = At(c)
      BY <1>5, AtLives DEF Pressing
    <3>2. x.by = c /\ x.session = s /\ pane[s] = "bypass"
      BY <2>1, <2>2, <3>1
    <3> QED
      BY <1>5, <3>1, <3>2, PressingHistory DEF EndedOK
  <2> QED
    BY <1>1, <1>2, <2>1, <2>2 DEF History
<1>6. ASSUME NEW c \in Cmds, Killing(c) PROVE History'
  BY <1>1, <1>2, <1>6 DEF History, Killing, EndedOK
<1> QED
  BY <1>3, <1>4, <1>5, <1>6, TextSteps

\* What was typed, submitted or swallowed stays so.
LEMMA TextsGrow ==
    ASSUME TypesInv, TmuxInv, [Next]_vars
    PROVE  /\ typed \subseteq typed' /\ sent \subseteq sent' /\ missed \subseteq missed'
           /\ \A c \in Cmds : Submitted(c) => Submitted(c)'
           /\ \A s \in Sessions, c \in Cmds : c \in line[s] => c \in line'[s] \/ Submitted(c)'
<1>1. ASSUME NEW c \in Cmds, Pressing(c)
      PROVE  /\ typed \subseteq typed' /\ sent \subseteq sent' /\ missed \subseteq missed'
             /\ \A s \in Sessions, q \in Cmds : q \in line[s] => q \in line'[s] \/ Submitted(q)'
  <2>1. PICK s \in Sessions : s = At(c)
    BY <1>1, AskTypes DEF Pressing
  <2>2. CASE Submits(c, s)
    <3>1. /\ line' = [line EXCEPT ![s] = {}] /\ missed' = missed
          /\ sent' = sent \cup {[text |-> t, by |-> c] : t \in line[s]}
      BY <2>2 DEF Submits
    <3>2. ASSUME NEW q \in line[s] PROVE Submitted(q)'
      <4>1. [text |-> q, by |-> c] \in sent' /\ [text |-> q, by |-> c].text = q
        BY <3>1
      <4> QED
        BY <4>1 DEF Submitted
    <3>3. \A x \in Sessions : x # s => line'[x] = line[x]
      BY <3>1 DEF TypesInv, TmuxTypes
    <3> QED
      BY <1>1, <3>1, <3>2, <3>3 DEF Pressing, Press
  <2>3. CASE ~Submits(c, s)
    BY <1>1, <2>1, <2>3 DEF Pressing, Press, Answers, Ends, Ignored, inputVars
  <2> QED
    BY <2>2, <2>3
<1>2. ASSUME NEW c \in Cmds, Writing(c)
      PROVE  /\ typed \subseteq typed' /\ sent \subseteq sent' /\ missed \subseteq missed'
             /\ \A s \in Sessions : line[s] \subseteq line'[s]
  BY <1>2 DEF Writing, Typed, TypesInv, TmuxTypes
<1>3. /\ typed \subseteq typed' /\ sent \subseteq sent' /\ missed \subseteq missed'
      /\ \A s \in Sessions, c \in Cmds : c \in line[s] => c \in line'[s] \/ Submitted(c)'
  BY <1>1, <1>2, TextSteps DEF Killing, inputVars
<1>4. \A c \in Cmds : Submitted(c) => Submitted(c)'
  BY <1>3 DEF Submitted
<1> QED
  BY <1>3, <1>4

\* Another command leaves this one where it is.
LEMMA MovesItself ==
    ASSUME TypesInv, [Next]_vars, NEW c \in Cmds, pc'[c] # pc[c]
    PROVE  Command(c) \/ Cut(c)
<1>1. CASE \E q \in Cmds : Command(q) \/ Cut(q)
  BY <1>1, Alone DEF Untouched
<1>2. CASE UNCHANGED pc
  BY <1>2
<1> QED
  BY <1>1, <1>2 DEF Next, Show, Interrupted, ClaudeReads, ClaudeWrites, vars

\* A text that was delivered stays so.
LEMMA DeliveredStays ==
    ASSUME TypesInv, TmuxInv, [Next]_vars, NEW t \in typed, Delivered(t),
           pc[t.by] \in {"enter", "exit"}, looked[t.by] \in Sessions, pane[looked[t.by]] # "none"
    PROVE  Delivered(t)'
<1>1. PICK c \in Cmds : c = t.by /\ t.text \in Cmds
  BY DEF TypesInv, RecordTypes
<1>2. PICK b \in Sessions : b = looked[c] /\ pane[b] # "none"
  BY <1>1
<1>3. looked'[c] = b /\ pc[c] # "idle" /\ ask'[c] = ask[c]
  BY <1>1, <1>2, SettledStays DEF Settled
<1>4. Elsewhere(b, c) => Elsewhere(b, c)'
  BY <1>2, <1>3, ElsewhereStays
<1> QED
  BY <1>1, <1>2, <1>3, <1>4, TextsGrow DEF Delivered, Elsewhere, NameOf

\* A text that was typed by its prompt is on its line until it is submitted.
LEMMA PendingStep ==
    ASSUME TypesInv, TmuxInv, Courses, NEW c \in Cmds, Pending(c), [Next]_vars
    PROVE  Pending(c)'
<1> SUFFICES ASSUME pc'[c] = "enter", ask'[c].verb = "prompt"
             PROVE  \E t \in typed' : t.by = c /\ (Delivered(t)' \/ t.text \in line'[looked'[c]])
  BY DEF Pending
<1>1. CASE pc[c] = "enter"
  <2>1. looked'[c] = looked[c] /\ ask'[c] = ask[c]
    BY <1>1, SettledStays DEF Settled
  <2>2. PICK b \in Sessions : b = looked[c] /\ pane[b] # "none"
    BY <1>1, <2>1, WritesAt DEF Later, About
  <2>3. PICK t \in typed : t.by = c /\ (Delivered(t) \/ t.text \in line[b])
    BY <1>1, <2>1, <2>2 DEF Pending
  <2>4. t \in typed' /\ t.text \in Cmds
    BY <2>3, TextsGrow DEF TypesInv, RecordTypes
  <2>5. CASE Delivered(t)
    BY <1>1, <2>2, <2>3, <2>4, <2>5, DeliveredStays
  <2>6. CASE t.text \in line[b]
    <3>1. t.text \in line'[b] \/ Submitted(t.text)'
      BY <2>2, <2>4, <2>6, TextsGrow
    <3> QED
      BY <2>1, <2>2, <2>3, <2>4, <3>1 DEF Delivered, Submitted
  <2> QED
    BY <2>3, <2>5, <2>6
<1>2. CASE pc[c] # "enter"
  <2>1. Command(c) \/ Cut(c)
    BY <1>2, MovesItself
  <2>2. SendKeys(c) \/ PasteBuffer(c)
    BY <2>1, <1>2, FirstPlace DEF Command, Cut, Start, PreseedRead, PreseedWrite, PreseedFails,
         NewSession, Poll, PollDead, PollTimesOut, Down, DownEnter, AcceptTrust, SetBuffer, Enter,
         Failed, Fail, Capture, Check, Kill, Finish, Exit, Goto, TypesInv, CommandTypes
  <2>3. /\ pc[c] \in {"type", "paste"} /\ pc[c] # "idle" /\ UNCHANGED <<ask, looked, pane>>
        /\ At(c) # None /\ \E q \in Cmds : Typed(c, q)
    BY <2>2 DEF SendKeys, PasteBuffer, Failed, Fail, Finish, Exit, Goto, TypesInv, CommandTypes,
                TmuxTypes, paneVars
  <2>4. PICK s \in Sessions : s = At(c) /\ Lives(s)
    BY <2>3, AtLives
  <2>5. PICK q \in Cmds : Typed(c, q)
    BY <2>3
  <2>6. PICK t \in typed' : t.by = c /\ t.text = q /\ t.pane = pane[s]
    <3> DEFINE t == [text |-> q, by |-> c, into |-> s, pane |-> pane[s]]
    <3>1. t \in typed'
      BY <2>4, <2>5 DEF Typed
    <3> QED
      BY <3>1
  <2>7. PICK a \in Sessions : a = looked[c] /\ pane[a] # "none" /\ (s = a \/ Elsewhere(a, c))
    BY <2>3, <2>4, WritesAt DEF About, Later
  <2>8. Elsewhere(a, c) \/ pane[s] \in Up
    BY <2>3, <2>4, <2>7
       DEF Courses, Course, Ready, Rests, Writes, About, Elsewhere, Lives
  <2>9. pane[s] \in {"ready", "reconnecting"} => q \in line'[s]
    BY <2>4, <2>5 DEF Typed, TypesInv, TmuxTypes
  <2>10. Elsewhere(a, c) \/ pane[s] = "dialog" => Delivered(t)'
    BY <2>3, <2>6, <2>7 DEF Delivered, Elsewhere, NameOf
  <2>11. Delivered(t)' \/ t.text \in line'[looked'[c]]
    BY <2>3, <2>6, <2>7, <2>8, <2>9, <2>10 DEF Up
  <2> QED
    BY <2>6, <2>11
<1> QED
  BY <1>1, <1>2

\* An Enter in a session that is up submits what is in its line, or is missed.
LEMMA PressTells ==
    ASSUME NEW c \in Cmds, NEW s \in Sessions, s = At(c), Press(c), TypesInv, TmuxInv,
           pane[s] \in Up, KindOf(s) \in Typable, NEW q \in line[s]
    PROVE  Submitted(q)' \/ c \in missed'
<1>1. pane[s] \in {"ready", "dialog"}
  BY DEF TmuxInv, Shapes, Shape, Up, Typable
<1>2. CASE Submits(c, s)
  <2>1. [text |-> q, by |-> c] \in sent' /\ [text |-> q, by |-> c].text = q
    BY <1>2 DEF Submits
  <2> QED
    BY <2>1 DEF Submitted
<1>3. CASE Answers(c, s)
  BY <1>1, <1>3 DEF Answers
<1>4. CASE Ignored(c, s)
  BY <1>1, <1>4 DEF Ignored
<1> QED
  BY <1>1, <1>2, <1>3, <1>4 DEF Press

\* The ends of a prompt: with 0 only after its Enter.
LEMMA PromptEnds ==
    ASSUME TypesInv, NEW c \in Cmds, Command(c) \/ Cut(c), pc[c] # "exit",
           pc'[c] = "exit", ask'[c].verb = "prompt", code'[c] = 0
    PROVE  pc[c] = "enter" /\ At(c) # None /\ Press(c) /\ UNCHANGED <<ask, looked>>
<1>1. pc[c] # "idle" => ask'[c] = ask[c]
  BY Alone DEF AsksKept
<1>2. CASE Start(c)
  BY <1>2, FirstPlace DEF Start, Exit, Goto, TypesInv, CommandTypes
<1>3. CASE SendKeys(c) \/ SetBuffer(c) \/ PasteBuffer(c)
  BY <1>1, <1>3 DEF SendKeys, SetBuffer, PasteBuffer, Failed, Fail, Exit, Goto, TypesInv, CommandTypes
<1>4. CASE Capture(c) \/ Check(c)
  BY <1>1, <1>4 DEF Capture, Check, Exit, Goto, TypesInv, CommandTypes
<1>5. CASE Enter(c)
  <2>1. pc[c] = "enter" /\ UNCHANGED <<ask, looked>> /\ ask[c].verb = "prompt"
    BY <1>1, <1>5 DEF Enter
  <2>2. ~Failed(c)
    BY <2>1 DEF Failed, Fail, Exit, TypesInv, CommandTypes
  <2>3. Press(c)
    BY <1>5, <2>2 DEF Enter
  <2>4. At(c) # None
    BY <2>3 DEF Press
  <2> QED
    BY <2>1, <2>3, <2>4
<1>6. CASE ~(Start(c) \/ SendKeys(c) \/ SetBuffer(c) \/ PasteBuffer(c) \/ Capture(c) \/ Check(c)
             \/ Enter(c))
  BY <1>1, <1>6 DEF Command, Cut, PreseedRead, PreseedWrite, PreseedFails, NewSession, Poll,
     PollDead, PollTimesOut, Down, DownEnter, AcceptTrust, Kill, Goto, TypesInv, CommandTypes,
     Placed, Place, Makes
<1> QED
  BY <1>2, <1>3, <1>4, <1>5, <1>6

\* What prompt's exit code 0 says.
LEMMA ToldStep ==
    ASSUME TypesInv, TmuxInv, Courses, NEW c \in Cmds, Pending(c), Told(c), [Next]_vars
    PROVE  Told(c)'
<1> SUFFICES ASSUME pc'[c] = "exit", ask'[c].verb = "prompt", code'[c] = 0
             PROVE  /\ looked'[c] \in Sessions /\ pane'[looked'[c]] # "none"
                    /\ \E t \in typed' : t.by = c /\ Delivered(t)'
  BY DEF Told
<1>1. CASE pc[c] = "exit"
  <2>1. ask'[c] = ask[c] /\ code'[c] = code[c] /\ looked'[c] = looked[c]
    BY <1>1, SettledStays DEF Settled
  <2>2. PICK b \in Sessions : b = looked[c] /\ pane[b] # "none"
    BY <1>1, <2>1 DEF Told
  <2>3. PICK t \in typed : t.by = c /\ Delivered(t)
    BY <1>1, <2>1 DEF Told
  <2>4. pane'[b] # "none"
    BY <1>1, <2>2, ElsewhereStays
  <2>5. t \in typed' /\ Delivered(t)'
    BY <1>1, <2>2, <2>3, DeliveredStays, TextsGrow
  <2> QED
    BY <2>1, <2>2, <2>3, <2>4, <2>5
<1>2. CASE pc[c] # "exit"
  <2>1. Command(c) \/ Cut(c)
    BY <1>2, MovesItself
  <2>2. /\ pc[c] = "enter" /\ pc[c] # "idle" /\ At(c) # None /\ Press(c)
        /\ UNCHANGED <<ask, looked>>
    BY <1>2, <2>1, PromptEnds
  <2>3. PICK b \in Sessions : b = looked[c] /\ pane[b] # "none" /\ (At(c) = b \/ Elsewhere(b, c))
    BY <2>2, WritesAt DEF About, Later
  <2>4. PICK t \in typed : t.by = c /\ (Delivered(t) \/ t.text \in line[b])
    BY <2>2, <2>3 DEF Pending
  <2>5. pane'[b] # "none"
    BY <2>2, <2>3, ElsewhereStays
  <2>6. t \in typed' /\ Delivered(t)'
    <3>1. CASE Delivered(t)
      BY <2>2, <2>3, <2>4, <3>1, DeliveredStays, TextsGrow
    <3>2. CASE ~Delivered(t)
      <4>1. ~Elsewhere(b, c) /\ t.text \in line[b] /\ At(c) = b
        BY <2>3, <2>4, <3>2 DEF Delivered
      <4>2. Rests(b) /\ pane[b] # "gone"
        BY <2>2, <2>3, <4>1 DEF Courses, Course, Ready, Writes, About, Elsewhere
      <4>3. Submitted(t.text)' \/ c \in missed'
        BY <2>2, <2>3, <4>1, <4>2, PressTells DEF Rests
      <4> QED
        BY <2>4, <4>3, TextsGrow DEF Delivered
    <3> QED
      BY <3>1, <3>2
  <2> QED
    BY <2>2, <2>3, <2>4, <2>5, <2>6
<1> QED
  BY <1>1, <1>2

\* A prompt submits nothing but by its own Enter, and then exits with 0.
LEMMA SendsStep ==
    ASSUME TypesInv, NEW c \in Cmds, Sends(c), [Next]_vars PROVE Sends(c)'
<1>1. CASE \E x \in sent : x.by = c
  <2>1. pc[c] # "idle" /\ (ask[c].verb = "prompt" => pc[c] = "exit" /\ code[c] = 0)
    BY <1>1 DEF Sends
  <2>2. pc'[c] # "idle" /\ ask'[c] = ask[c]
    BY <2>1, AsksStay DEF AsksKept
  <2>3. pc[c] = "exit" => pc'[c] = "exit" /\ code'[c] = code[c]
    BY SettledStays DEF Settled
  <2> QED
    BY <2>1, <2>2, <2>3 DEF Sends
<1>2. CASE ~\E x \in sent : x.by = c
  <2> SUFFICES ASSUME NEW x \in sent', x.by = c
               PROVE  /\ pc'[c] # "idle"
                      /\ ask'[c].verb = "prompt" => pc'[c] = "exit" /\ code'[c] = 0
    BY DEF Sends
  <2>1. PICK q \in Cmds : (Command(q) \/ Cut(q)) /\ Pressing(q)
    BY <1>2, TextSteps DEF Writing, Killing, inputVars
  <2>2. At(q) # None /\ Press(q) /\ pc[q] # "idle"
    BY <2>1 DEF Pressing
  <2>3. q = c
    <3>1. CASE Submits(q, At(q))
      BY <1>2, <3>1 DEF Submits
    <3>2. CASE ~Submits(q, At(q))
      BY <1>2, <2>2, <3>2 DEF Press, Answers, Ends, Ignored, inputVars
    <3> QED
      BY <3>1, <3>2
  <2>4. pc'[c] # "idle" /\ ask'[c] = ask[c]
    BY <2>1, <2>2, <2>3, Alone DEF AsksKept
  <2> QED
    BY <2>1, <2>3, <2>4 DEF Pressing
<1> QED
  BY <1>1, <1>2

\* All layers together: types and places, tmux, the courses of commands, and the texts.
THEOREM TextInvariance == Spec => [](TypesInv /\ TmuxInv /\ Courses /\ TextInv)
<1>1. Init => TextInv
  <2> SUFFICES ASSUME Init PROVE TextInv
    OBVIOUS
  <2>1. History
    BY DEF Init, History
  <2>2. \A c \in Cmds : pc[c] = "idle"
    BY DEF Init
  <2>3. sent = {} /\ buffer = None
    BY DEF Init
  <2> QED
    BY <2>1, <2>2, <2>3 DEF TextInv, Buffered, Texts, Pending, Told, Sends
<1>2. TypesInv /\ TmuxInv /\ Courses /\ TextInv /\ [Next]_vars => TextInv'
  BY BufferedStep, HistoryStep, PendingStep, ToldStep, SendsStep DEF TextInv, Texts
<1> QED
  BY <1>1, <1>2, TypesInvariance, TmuxInvariance, CoursesInvariance, PTL DEF Spec

\* A prompt that was given a session id types into no other session, but when the slug came
\* to stand for that one after the id was compared, and never when the session was over
\* before; and no text goes to a screen of a session's start, unless its command is
\* elsewhere (Prompt and sendText of ops.go, the -t of tmux.go).
THEOREM TextTypedWhereChecked == Spec => []TypedWhereChecked
<1>1. TextInv => TypedWhereChecked
  BY DEF TextInv, History, TypedOK, Astray, TypedWhereChecked
<1> QED
  BY <1>1, TextInvariance, PTL

\* No Enter answers "No, exit" to the bypass dialog of the session a command is about while
\* that has the name the command was given, unless a second Down has wrapped round to it
\* (acceptBypassPrompt of ops.go); and states have their types.
THEOREM BypassIsNotRefused == Spec => []BypassNotRefused
<1>1. TypesInv /\ TmuxInv /\ Courses /\ TextInv => BypassNotRefused
  <2> SUFFICES ASSUME TypesInv, TmuxInv, TextInv PROVE BypassNotRefused
    OBVIOUS
  <2>1. \A sl \in Slugs : live[sl] # None => pane[live[sl]] \notin {"none", "gone"}
    BY DEF TypesInv, TmuxTypes, TmuxInv, Slugged, Lives
  <2>2. TypeOK
    BY <2>1 DEF TypesInv, CommandTypes, TmuxTypes, RecordTypes, FileTypes, TypeOK
  <2> QED
    BY <2>2 DEF TextInv, History, EndedOK, Astray, BypassNotRefused
<1> QED
  BY <1>1, TextInvariance, PTL

\* The exit code of prompt is true as far as tmux can tell: with 0 the text it typed was
\* submitted, but when Claude swallowed that or its Enter, or the slug came to stand for
\* another session; with any other code its Enter submitted nothing (Prompt of ops.go, run
\* of clirc.go).
THEOREM PromptsAreTold == Spec => []PromptTold
<1>1. TextInv => PromptTold
  <2> SUFFICES ASSUME TextInv, NEW c \in Cmds, ask[c].verb = "prompt", pc[c] = "exit"
               PROVE  IF code[c] = 0
                      THEN \E t \in typed : t.by = c /\ OwnOrPasted(t) /\ Delivered(t)
                      ELSE \A x \in sent : x.by # c
    BY DEF PromptTold
  <2>1. \A t \in typed : OwnOrPasted(t)
    BY DEF TextInv, History, TypedOK, Pastes, OwnOrPasted
  <2> QED
    BY <2>1 DEF TextInv, Texts, Told, Sends
<1> QED
  BY <1>1, TextInvariance, PTL

=============================================================================
