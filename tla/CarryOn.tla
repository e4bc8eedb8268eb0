------------------------------ MODULE CarryOn ------------------------------
(***************************************************************************)
(* Carrying on after a move in place (launcher/carry-on.ts and what        *)
(* launcher/pty-session.ts does with it): the prompt typed into the live   *)
(* Claude, once it is safe, typed once more when it was refused, or handed *)
(* over by relaunch; and what may end Claude for a newer ccx or a switch.  *)
(* Beside it a person types, Claude runs turns, opens dialogs and wakes by *)
(* itself, and its record is read later than it is written.  Times are     *)
(* how long ago something was, as far as any wait tells them apart.        *)
(***************************************************************************)
EXTENDS Naturals, FiniteSets

CONSTANTS Pickup, Settle, Submit, Answer, Blocked, Retry,  \* CarryOnTiming
          IdleFor,        \* RESTART_IDLE_MS
          MaxAttempts, MaxDismissals,
          MaxMoves,       \* bounds the moves
          MaxEvents,      \* bounds what the person and Claude do unasked
          None

VARIABLES child,     \* up, ending for a relaunch, a newer ccx or a switch, or over
          claude,    \* what it is at, for how long, whether its record says so and it marks pastes
          box,       \* what its input box holds: the person's draft, times the prompt
          keys,      \* the last key pressed, and whether since the move
          record,    \* what was read of Claude's record, and what it holds unread
          quiet,     \* how long no subagent has been seen to write
          watched,   \* how long the conversation's subagents have been watched
          carry,     \* the prompt waiting to be typed
          checking,  \* a limit is being decided
          moves, events,
          ends,      \* history: how carry-ons ended
          wrong      \* history: what went wrong, and what was taken for what it was not

world == <<claude, box, keys, quiet, watched>>
vars == <<child, world, record, carry, checking, moves, events, ends, wrong>>

Largest(S) == CHOOSE x \in S : \A y \in S : y <= x
Cap == Largest({Pickup, Settle, Submit, Answer, Blocked, Retry, IdleFor})
Upto(n, top) == IF n < top THEN n + 1 ELSE top
Older(n) == Upto(n, Cap)

\* The prompt: waits, and whether it was given up on (tooOften), are of this try.
CarryRecord ==
    [stalled : BOOLEAN, canRelaunch : BOOLEAN, taken : BOOLEAN, tooOften : BOOLEAN,
     typed : 0 .. Cap \cup {None}, blocked : 0 .. Cap \cup {None}, dismissed : 0 .. Cap,
     wait : 0 .. Pickup, attempts : 0 .. MaxAttempts, dismissals : 0 .. MaxDismissals]
Wrongs == {"woke", "moved", "misread", "undelivered", "draft", "doubled"}

TypeOK ==
    /\ child \in {"up", "relaunch", "switch", "over"}
    /\ claude \in [at : {"idle", "shell", "busy", "dialog", "menu"}, since : 0 .. Cap,
                  says : BOOLEAN, marks : BOOLEAN]
    /\ box \in [draft : BOOLEAN, ours : Nat]
    /\ keys \in [last : {"never", "enter", "other"}, moved : BOOLEAN]
    /\ record \in [sinceKey : BOOLEAN, sinceTyped : BOOLEAN,
                   unread : SUBSET {"sinceKey", "sinceTyped", "refused", "subagent"}]
    /\ quiet \in 0 .. Cap /\ watched \in 0 .. Cap
    /\ carry \in CarryRecord \cup {None} /\ checking \in BOOLEAN /\ wrong \subseteq Wrongs
    /\ ends \subseteq {"delivered", "attended", "left", "relaunch"}

-----------------------------------------------------------------------------
(* Claude and the person *)

Happens == child # "over" /\ events < MaxEvents /\ events' = events + 1
Goes(at) == claude' = [claude EXCEPT !.at = at, !.since = 0]

\* What the record gains is read later.
Writes(what) == record' = [record EXCEPT !.unread = @ \cup what]

Time ==
    /\ child = "up"
    /\ claude' = [claude EXCEPT !.since = Older(@)]
    /\ quiet' = Older(quiet) /\ watched' = Upto(watched, IdleFor)
    /\ carry' = IF carry = None THEN None ELSE
          [carry EXCEPT !.typed = IF @ = None THEN None ELSE Upto(@, Answer),
                        !.blocked = IF @ = None THEN None ELSE Upto(@, Blocked),
                        !.dismissed = Upto(@, Retry), !.wait = IF @ > 0 THEN @ - 1 ELSE 0]
    /\ UNCHANGED <<child, box, keys, record, checking, moves, events, ends, wrong>>

\* A key goes into the box, or to the dialog, which may close.
Key ==
    /\ Happens
    /\ keys' = [last |-> "other", moved |-> TRUE]
    /\ record' = [record EXCEPT !.sinceKey = FALSE, !.unread = @ \ {"sinceKey"}]
    /\ IF claude.at \in {"dialog", "menu"}
       THEN (Goes("idle") \/ UNCHANGED claude) /\ UNCHANGED box
       ELSE box' = [box EXCEPT !.draft = TRUE] /\ UNCHANGED claude
    /\ UNCHANGED <<child, quiet, watched, carry, checking, moves, ends, wrong>>

\* Enter sends what is in the box, or answers the dialog.
Enter ==
    /\ Happens
    /\ keys' = [last |-> "enter", moved |-> TRUE]
    /\ IF claude.at \in {"dialog", "menu"} \/ box = [draft |-> FALSE, ours |-> 0]
       THEN /\ record' = [record EXCEPT !.sinceKey = FALSE, !.unread = @ \ {"sinceKey"}]
            /\ IF claude.at \in {"dialog", "menu"} THEN Goes("idle") ELSE UNCHANGED claude
            /\ UNCHANGED box
       ELSE /\ record' = [record EXCEPT !.sinceKey = FALSE,
                                        !.unread = @ \cup {"sinceKey", "sinceTyped"}]
            /\ box' = [draft |-> FALSE, ours |-> 0]
            /\ IF claude.at = "busy" THEN UNCHANGED claude ELSE Goes("busy")
    /\ UNCHANGED <<child, quiet, watched, carry, checking, moves, ends, wrong>>

\* A command or a subagent that ended in the background starts a turn.
Wakes ==
    /\ Happens /\ claude.at \in {"idle", "shell"}
    /\ Goes("busy")
    /\ wrong' = wrong \cup (IF carry # None /\ carry.typed # None THEN {"woke"} ELSE {})
    /\ UNCHANGED <<child, box, keys, record, quiet, watched, carry, checking, moves, ends>>

SubagentWrites ==
    /\ Happens /\ claude.at \in {"busy", "dialog"}
    /\ quiet' = 0
    /\ UNCHANGED <<child, claude, box, keys, watched, record, carry, checking, moves, ends, wrong>>

\* /clear and /resume: another conversation's subagents, watched from now.
Elsewhere ==
    /\ Happens /\ claude.at = "idle" /\ keys.moved /\ watched' = 0
    /\ UNCHANGED <<child, claude, box, keys, quiet, record, carry, checking, moves, ends, wrong>>

DialogOpens ==
    /\ Happens /\ claude.at = "busy" /\ Goes("dialog")
    /\ UNCHANGED <<child, box, keys, quiet, watched, record, carry, checking, moves, ends, wrong>>

SaysOrNot ==
    /\ Happens /\ (claude' = [claude EXCEPT !.says = ~@] \/ claude' = [claude EXCEPT !.marks = ~@])
    /\ UNCHANGED <<child, box, keys, quiet, watched, record, carry, checking, moves, ends, wrong>>

\* A turn ends, or is refused, with Claude's menu or without.
TurnEnds ==
    /\ child # "over" /\ claude.at = "busy"
    /\ \/ (Goes("idle") \/ Goes("shell")) /\ UNCHANGED <<record, events>>
       \/ events < MaxEvents /\ events' = events + 1
          /\ (Goes("idle") \/ Goes("menu")) /\ Writes({"refused"})
    /\ UNCHANGED <<child, box, keys, quiet, watched, carry, checking, moves, ends, wrong>>

SubagentRefused ==
    /\ Happens /\ claude.at = "busy" /\ Writes({"subagent"})
    /\ UNCHANGED <<child, world, carry, checking, moves, ends, wrong>>

-----------------------------------------------------------------------------
(* The carry-on *)

New(stalled, canRelaunch) ==
    [stalled |-> stalled, canRelaunch |-> canRelaunch, typed |-> None, taken |-> FALSE,
     attempts |-> 0, wait |-> Pickup, tooOften |-> FALSE, blocked |-> None,
     dismissals |-> 0, dismissed |-> Retry]

\* Mutant: typed again although it may be in the box still.
RefusedAgain(c, sinceTyped) ==
    IF c.typed = None THEN [c EXCEPT !.stalled = TRUE]
    ELSE [c EXCEPT !.stalled = TRUE, !.typed = None, !.wait = Pickup,
                   !.tooOften = @ \/ c.attempts >= MaxAttempts]

\* Typed but never taken, it is in the box still.
Refused(c, sinceTyped) ==
    IF c.typed = None \/ ~(c.taken \/ sinceTyped) THEN [c EXCEPT !.stalled = TRUE]
    ELSE [c EXCEPT !.stalled = TRUE, !.typed = None, !.wait = Pickup,
                   !.tooOften = @ \/ c.attempts >= MaxAttempts]

\* The record read: when a prompt was last typed, then each refused turn.
ChecksRecord ==
    /\ child = "up" /\ ~checking /\ record.unread # {}
    /\ LET typed == record.sinceTyped \/ "sinceTyped" \in record.unread
           key == record.sinceKey \/ "sinceKey" \in record.unread
       IN  /\ record' = [sinceKey |-> key, sinceTyped |-> typed, unread |-> {}]
           /\ carry' = IF carry # None /\ "refused" \in record.unread THEN Refused(carry, typed)
                       ELSE carry
    /\ checking' \in IF record.unread \cap {"refused", "subagent"} = {} THEN {FALSE} ELSE BOOLEAN
    /\ UNCHANGED <<child, world, moves, events, ends, wrong>>

\* The limit decided: not one, the session moved, or Claude ended.
Refuted ==
    /\ child = "up" /\ checking /\ checking' = FALSE
    /\ UNCHANGED <<child, world, record, carry, moves, events, ends, wrong>>

Relieved(main, canRelaunch) ==
    /\ child = "up" /\ checking /\ moves < MaxMoves
    /\ checking' = FALSE /\ moves' = moves + 1
    /\ carry' = New(main \/ (carry # None /\ carry.stalled), canRelaunch)
    /\ keys' = [keys EXCEPT !.moved = FALSE]
    /\ wrong' = wrong \cup (IF box.ours > 0 THEN {"moved"} ELSE {})
    /\ UNCHANGED <<child, claude, box, quiet, watched, record, events, ends>>

Restarted ==
    /\ child = "up" /\ checking /\ child' = "over" /\ checking' = FALSE /\ carry' = None
    /\ UNCHANGED <<world, record, moves, events, ends, wrong>>

\* Nobody typed, or the last key sent a prompt Claude recorded since.
InputBoxEmpty == keys.last = "never" \/ (keys.last = "enter" /\ record.sinceKey)

\* One look of stepCarryOn; nothing while a limit is decided.
Looks == child = "up" /\ carry # None /\ ~checking
Waiting == claude.at \in {"dialog", "menu"}

\* Its record shows the prompt, or a turn began since it was typed.
TookIt == record.sinceTyped \/ (claude.says /\ claude.at = "busy" /\ claude.since <= carry.typed)

MayDismiss ==
    /\ carry.typed = None /\ ~keys.moved /\ ~carry.tooOften
    /\ claude.says /\ claude.at = "menu" /\ carry.dismissals < MaxDismissals

BehindDialog == ~claude.says \/ Waiting
AtPrompt == claude.says /\ claude.at \in {"idle", "shell"} /\ claude.since >= Settle

\* Past everything that is decided sooner.
Pending ==
    /\ carry.typed = None /\ ~keys.moved /\ ~carry.tooOften /\ ~MayDismiss /\ carry.wait = 0

\* Mutant: a dialog, or a record that says nothing, is waited out for ever.
GivesUpAtPrompt ==
    \/ /\ carry.typed # None /\ ~carry.taken /\ ~TookIt /\ carry.typed >= Submit
    \/ /\ carry.typed = None /\ ~keys.moved /\ carry.tooOften
    \/ Pending /\ AtPrompt /\ (~InputBoxEmpty \/ ~claude.marks)

GivesUp ==
    \/ /\ carry.typed # None /\ ~carry.taken /\ ~TookIt /\ carry.typed >= Submit
    \/ /\ carry.typed = None /\ ~keys.moved /\ carry.tooOften
    \/ Pending /\ BehindDialog /\ carry.blocked # None /\ carry.blocked >= Blocked
    \/ Pending /\ AtPrompt /\ (~InputBoxEmpty \/ ~claude.marks)

\* Never during a turn, nor while a subagent's record grows.
HoldsOff == (claude.says /\ claude.at = "busy") \/ quiet < Blocked

Over(how) == carry' = None /\ ends' = ends \cup {how}

Relaunches ==
    /\ Looks /\ GivesUp /\ carry.stalled /\ carry.canRelaunch /\ ~HoldsOff
    /\ Over("relaunch") /\ child' = "relaunch"
    /\ UNCHANGED <<world, record, checking, moves, events, wrong>>

Left ==
    /\ Looks /\ GivesUp /\ ~(carry.stalled /\ carry.canRelaunch)
    /\ Over("left")
    /\ UNCHANGED <<child, world, record, checking, moves, events, wrong>>

Attended ==
    /\ Looks /\ carry.typed = None /\ keys.moved
    /\ Over("attended")
    /\ UNCHANGED <<child, world, record, checking, moves, events, wrong>>

Takes ==
    /\ Looks /\ carry.typed # None /\ ~carry.taken /\ TookIt
    /\ carry' = [carry EXCEPT !.taken = TRUE]
    /\ wrong' = wrong \cup (IF box.ours > 0 THEN {"misread"} ELSE {})
    /\ UNCHANGED <<child, world, record, checking, moves, events, ends>>

Delivered ==
    /\ Looks /\ carry.typed # None /\ (carry.taken \/ TookIt) /\ carry.typed >= Answer
    /\ Over("delivered")
    /\ wrong' = wrong \cup (IF box.ours > 0 THEN {"undelivered"} ELSE {})
    /\ UNCHANGED <<child, world, record, checking, moves, events>>

\* Esc closes the menu, or is too early for it.
Dismisses ==
    /\ Looks /\ MayDismiss /\ carry.dismissed >= Retry
    /\ carry' = [carry EXCEPT !.dismissals = @ + 1, !.dismissed = 0, !.blocked = None]
    /\ Goes("idle") \/ UNCHANGED claude
    /\ UNCHANGED <<child, box, keys, quiet, watched, record, checking, moves, events, ends, wrong>>

\* The blocked time is counted from the first look at it.
Counts ==
    /\ Looks /\ Pending
    /\ carry' = [carry EXCEPT !.blocked = IF ~BehindDialog THEN None
                                          ELSE IF @ = None THEN 0 ELSE @]
    /\ carry' # carry
    /\ UNCHANGED <<child, world, record, checking, moves, events, ends, wrong>>

\* Claude takes what is typed as a prompt, or it stays in the box.
Types ==
    /\ Looks /\ Pending /\ AtPrompt /\ InputBoxEmpty /\ claude.marks
    /\ carry' = [carry EXCEPT !.typed = 0, !.taken = FALSE, !.attempts = @ + 1, !.blocked = None]
    /\ wrong' = wrong \cup (IF box.draft THEN {"draft"} ELSE {})
                      \cup (IF box.ours > 0 THEN {"doubled"} ELSE {})
    /\ \/ /\ Goes("busy")
          /\ record' = [record EXCEPT !.sinceTyped = FALSE, !.unread = @ \cup {"sinceTyped"}]
          /\ box' = [draft |-> FALSE, ours |-> 0]
       \/ /\ record' = [record EXCEPT !.sinceTyped = FALSE, !.unread = @ \ {"sinceTyped"}]
          /\ box' = [box EXCEPT !.ours = @ + 1]
          /\ (claude.at = "idle" /\ Goes("dialog")) \/ UNCHANGED claude
    /\ UNCHANGED <<child, keys, quiet, watched, checking, moves, events, ends>>

-----------------------------------------------------------------------------
(* Ending Claude for something else *)

\* restartBlocker: idle long enough, an empty box, no subagent at work.
NothingToCutOff ==
    /\ claude.says /\ claude.at = "idle" /\ claude.since >= IdleFor
    /\ InputBoxEmpty
    /\ quiet >= IdleFor /\ watched >= IdleFor

CutsOff == wrong' = wrong \cup (IF box.draft THEN {"draft"} ELSE {})

\* For a newer ccx: not before Claude was told to carry on.
HandsOver ==
    /\ child = "up" /\ ~checking /\ carry = None /\ NothingToCutOff
    /\ child' = "over" /\ CutsOff
    /\ UNCHANGED <<world, record, carry, checking, moves, events, ends>>

EndsForSwitch ==
    /\ child = "up" /\ ~checking /\ NothingToCutOff
    /\ child' = "switch" /\ CutsOff
    /\ UNCHANGED <<world, record, carry, checking, moves, events, ends>>

Killed ==
    /\ child \in {"relaunch", "switch"} /\ child' = "over" /\ carry' = None
    /\ UNCHANGED <<world, record, checking, moves, events, ends, wrong>>

-----------------------------------------------------------------------------
Init ==
    /\ child = "up"
    /\ claude \in {[at |-> x, since |-> 0, says |-> TRUE, marks |-> TRUE] :
                    x \in {"idle", "busy", "menu"}}
    /\ \E k \in {"never", "enter", "other"} :
       /\ keys = [last |-> k, moved |-> FALSE]
       /\ box = [draft |-> k = "other", ours |-> 0]
       /\ record = [sinceKey |-> k = "enter", sinceTyped |-> FALSE, unread |-> {}]
    /\ quiet = Cap /\ watched = 0
    /\ carry = None /\ checking = TRUE /\ moves = 0 /\ events = 0 /\ ends = {} /\ wrong = {}

Step ==
    \/ Relaunches \/ Left \/ Attended \/ Takes \/ Delivered \/ Dismisses \/ Counts \/ Types

Next ==
    \/ Time \/ Key \/ Enter \/ Wakes \/ SubagentWrites \/ Elsewhere \/ DialogOpens \/ SaysOrNot
    \/ TurnEnds \/ SubagentRefused \/ ChecksRecord \/ Refuted \/ Restarted
    \/ \E main, canRelaunch \in BOOLEAN : Relieved(main, canRelaunch)
    \/ Step \/ HandsOver \/ EndsForSwitch \/ Killed

\* What is read, decided and ended, of which one at most is due.
Settles == ChecksRecord \/ Refuted \/ Killed

Spec == Init /\ [][Next]_vars
        /\ WF_vars(Time) /\ WF_vars(Step) /\ WF_vars(TurnEnds) /\ WF_vars(Settles)

-----------------------------------------------------------------------------
(* What is typed lands in an empty box: not in a draft of the person's, nor *)
(* after the prompt typed before, unless a turn that began by itself passed *)
(* for its answer, or a second move forgot it.                              *)
TypesAlone ==
    /\ "draft" \notin wrong
    /\ "doubled" \in wrong => wrong \cap {"misread", "moved"} # {}

(* A prompt counted as delivered was taken, unless such a turn passed for *)
(* its answer; that happens only when Claude woke by itself.              *)
DeliveredIsTaken == wrong \cap {"misread", "undelivered"} # {} => "woke" \in wrong

Inv == TypeOK /\ TypesAlone /\ DeliveredIsTaken

(* A prompt to type is done with in the end.                                *)
CarryOnEnds == carry # None ~> carry = None
=============================================================================
