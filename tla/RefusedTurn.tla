---------------------------- MODULE RefusedTurn ----------------------------
(***************************************************************************)
(* Turns Claude records as refused, followed in the conversation's record  *)
(* and judged on their own when the usage check cannot answer              *)
(* (src/session/transcript.ts, record-watch.ts, refusal-gate.ts and        *)
(* refused-turn.ts).                                                       *)
(*                                                                         *)
(* Every Claude on a conversation writes to its one record, and one that   *)
(* runs keeps a login it read for a while after the folder's changed.  A   *)
(* refusal proves a limit only when it must be of the login in the folder  *)
(* now.  The record grows half a line at a time; it is read from where it  *)
(* ends when it is first seen, or whole where the launch starts it.        *)
(*                                                                         *)
(* The logins put in the folder are numbered; 0 is another Claude's.       *)
(* Times are in steps of the clock; every refusal here names its limit.    *)
(***************************************************************************)
EXTENDS Integers, Sequences, FiniteSets

CONSTANTS Conversations,
          Kept,      \* how long Claude keeps a login it read
          AnswersIn, \* how long a request may wait for its answer
          MaxAge,    \* REFUSAL_MAX_AGE_MS
          MaxTime, MaxLines, MaxLogins,  \* bounds
          None

VARIABLES now,
          put,               \* when each login was put in the folder; the last is there now
          visiting, windows, \* a visit for an Artifact call, and the times of those over
          headless,          \* a run with output of its own, and no one typing
          claude,            \* [on, turn, sub]: its conversation, and when its turn and the
                             \* turn its subagent is of began (0: none)
          other,             \* another Claude on a conversation
          record,            \* [conversation -> the lines of its record]
          half,              \* [conversation -> the line being written at its end]
          subRecord,         \* [conversation -> its subagent's record]
          startsNew, first, following, main, sub,  \* the follower's
          promptAt,          \* when a prompt was last typed, of those read
          handed,            \* [line -> how often it was handed on]
          past               \* the lines a conversation had when it was turned to

vars == <<now, put, visiting, windows, headless, claude, other, record, half, subRecord,
          startsNew, first, following, main, sub, promptAt, handed, past>>

claudes == <<put, visiting, windows, claude, other>>
files == <<record, half, subRecord>>
followers == <<startsNew, first, following, main, sub, promptAt, handed, past>>

login == Len(put)
loginChangedAt == put[login]

Elements(seq) == {seq[i] : i \in DOMAIN seq}
LinesOf(c) == Elements(record[c]) \union Elements(subRecord[c])
Written == Cardinality(UNION {LinesOf(c) \union ({half[c]} \ {None}) : c \in Conversations})

\* Bounds the lines written; a conversation resumed has one of its past.
Room == Written < MaxLines + (IF startsNew THEN 0 ELSE 1)

\* A line as it is recorded, with the login and the turn it is about.
Line(what, by, l, turn) ==
    [n |-> Written + 1, what |-> what, at |-> now, by |-> by, login |-> l, turn |-> turn]

(***************************************************************************)
(* Claude, and another one on the conversation.                            *)
(***************************************************************************)
\* A login a request answered now may have gone out on, for a turn begun at `turn`:
\* sent within AnswersIn, on the folder's or on one Claude read and still keeps.
SentOn(turn) ==
    {l \in DOMAIN put : \E sent \in turn..now :
        /\ sent + AnswersIn >= now /\ put[l] <= sent
        /\ l < login => sent < put[l + 1] + Kept}

\* A prompt typed begins a turn: not in the moment another line is written.
Prompted ==
    /\ ~headless /\ claude.turn = 0 /\ half[claude.on] = None /\ Room
    /\ \A c \in Conversations : \A e \in LinesOf(c) : e.by = "claude" => e.at < now
    /\ claude' = [claude EXCEPT !.turn = now]
    /\ record' = [record EXCEPT ![claude.on] = Append(@, Line("prompt", "claude", 0, now))]
    /\ UNCHANGED <<now, put, visiting, windows, headless, other, half, subRecord>>
    /\ UNCHANGED followers

\* A subagent starts, and outlives the turn.
SubagentStarts ==
    /\ claude.turn > 0 /\ claude.sub = 0
    /\ claude' = [claude EXCEPT !.sub = claude.turn]
    /\ UNCHANGED <<now, put, visiting, windows, headless, other>>
    /\ UNCHANGED files /\ UNCHANGED followers

TurnEnds ==
    /\ claude.turn > 0
    /\ claude' = [claude EXCEPT !.turn = 0]
    /\ UNCHANGED <<now, put, visiting, windows, headless, other>>
    /\ UNCHANGED files /\ UNCHANGED followers

\* The main thread's refusal is written half a line at a time, and ends its turn.
Refused(l) ==
    /\ claude.turn > 0 /\ l \in SentOn(claude.turn)
    /\ half[claude.on] = None /\ Room
    /\ half' = [half EXCEPT ![claude.on] = Line("refusal", "claude", l, claude.turn)]
    /\ claude' = [claude EXCEPT !.turn = 0]
    /\ UNCHANGED <<now, put, visiting, windows, headless, other, record, subRecord>>
    /\ UNCHANGED followers

\* A subagent's, in its own record.
SubagentRefused(l) ==
    /\ claude.sub > 0 /\ l \in SentOn(claude.sub) /\ Room
    /\ subRecord' = [subRecord EXCEPT ![claude.on] =
                         Append(@, Line("sidechain", "claude", l, claude.sub))]
    /\ claude' = [claude EXCEPT !.sub = 0]
    /\ UNCHANGED <<now, put, visiting, windows, headless, other, record, half>>
    /\ UNCHANGED followers

LineEnds(c) ==
    /\ half[c] # None
    /\ record' = [record EXCEPT ![c] = Append(@, half[c])]
    /\ half' = [half EXCEPT ![c] = None]
    /\ UNCHANGED <<now, headless, subRecord>> /\ UNCHANGED claudes /\ UNCHANGED followers

\* A /clear, or a conversation picked: between turns.
Elsewhere(c) ==
    /\ ~headless /\ c # claude.on /\ claude.turn = 0 /\ half[claude.on] = None
    /\ claude' = [claude EXCEPT !.on = c, !.sub = 0]
    /\ UNCHANGED <<now, put, visiting, windows, headless, other>>
    /\ UNCHANGED files /\ UNCHANGED followers

\* Another Claude on the conversation, on a login of its own, is typed at or refused
\* there, and leaves.
OtherWrites(what) ==
    /\ other # None /\ other.here /\ half[other.on] = None /\ Room
    /\ record' = [record EXCEPT ![other.on] = Append(@, Line(what, "other", 0, now))]
    /\ UNCHANGED <<now, headless, half, subRecord>> /\ UNCHANGED claudes
    /\ UNCHANGED followers

OtherLeaves ==
    /\ other # None /\ other.here /\ other' = [other EXCEPT !.here = FALSE]
    /\ UNCHANGED <<now, put, visiting, windows, headless, claude>>
    /\ UNCHANGED files /\ UNCHANGED followers

(***************************************************************************)
(* The login under Claude: moved to another account, or for a visit.       *)
(***************************************************************************)
Puts ==
    /\ login < MaxLogins
    /\ put' = Append(put, now)

Moves ==
    /\ visiting = None /\ Puts
    /\ UNCHANGED <<now, visiting, windows, headless, claude, other>>
    /\ UNCHANGED files /\ UNCHANGED followers

VisitBegins ==
    /\ visiting = None /\ login + 1 < MaxLogins /\ Puts
    /\ visiting' = now
    /\ UNCHANGED <<now, windows, headless, claude, other>>
    /\ UNCHANGED files /\ UNCHANGED followers

VisitEnds ==
    /\ visiting # None /\ Puts
    /\ visiting' = None /\ windows' = windows \union {[from |-> visiting, to |-> now]}
    /\ UNCHANGED <<now, headless, claude, other>>
    /\ UNCHANGED files /\ UNCHANGED followers

\* A line does not stay half written.
Tick ==
    /\ now < MaxTime /\ \A c \in Conversations : half[c] = None
    /\ now' = now + 1
    /\ UNCHANGED headless /\ UNCHANGED claudes /\ UNCHANGED files /\ UNCHANGED followers

(***************************************************************************)
(* The follower: the conversation Claude says it is in, and its record.    *)
(***************************************************************************)
\* A record's size, in half lines; it is there once anything was written to it.
Size(c) == 2 * Len(record[c]) + (IF half[c] = None THEN 0 ELSE 1)

\* limitGate.ignores: recorded during a visit.
Ignores(e) == \E w \in windows : e.at >= w.from /\ e.at <= w.to

\* The whole lines gained past a tail; a line begun before it is not read whole.
NewLines(c, tail) ==
    {i \in DOMAIN record[c] :
       /\ 2 * i > tail.offset
       /\ 2 * (i - 1) >= tail.offset \/ tail.rest}

ReadTo(c, tail) ==
    [offset |-> Size(c),
     rest |-> IF Size(c) = tail.offset THEN tail.rest ELSE half[c] # None]

Gains(c, tail, subTail) ==
    {record[c][i] : i \in NewLines(c, tail)} \union
    {subRecord[c][i] : i \in {j \in DOMAIN subRecord[c] : j > subTail}}

\* A refusal handed on, and a prompt kept.
HandsOn(lines) ==
    /\ handed' = [n \in DOMAIN handed |->
                    IF \E e \in lines : e.n = n /\ e.what # "prompt" /\ ~Ignores(e)
                    THEN handed[n] + 1 ELSE handed[n]]
    /\ promptAt' = LET at == {e.at : e \in {x \in lines : x.what = "prompt"}} IN
                   CHOOSE t \in at \union {promptAt} : \A u \in at \union {promptAt} : u <= t

Reads(c, tail, subTail) ==
    IF tail = None
    THEN main' = None /\ sub' = subTail /\ UNCHANGED <<handed, promptAt>>
    ELSE /\ main' = ReadTo(c, tail) /\ sub' = Len(subRecord[c])
         /\ HandsOn(Gains(c, tail, subTail))

\* A record that was not there when it was first looked for is read whole.
Top(c) == IF Size(c) = 0 THEN None ELSE [offset |-> 0, rest |-> FALSE]

ReadsOn ==
    /\ Reads(following, IF main = None THEN Top(following) ELSE main, sub)
    /\ UNCHANGED <<first, following, past>>

\* Turned to: from its end, or whole for the first of a launch that starts one.
TurnsTo(c) ==
    /\ following' = c /\ first' = FALSE
    /\ IF first /\ startsNew
       THEN Reads(c, Top(c), 0) /\ UNCHANGED past
       ELSE /\ main' = IF Size(c) = 0 THEN None ELSE [offset |-> Size(c), rest |-> FALSE]
            /\ sub' = IF Size(c) = 0 THEN 0 ELSE Len(subRecord[c])
            /\ past' = {e.n : e \in LinesOf(c) \union ({half[c]} \ {None})}
            /\ UNCHANGED <<handed, promptAt>>

Poll ==
    /\ visiting = None  \* the gate is not held
    /\ IF claude.on = following THEN ReadsOn ELSE TurnsTo(claude.on)
    /\ UNCHANGED <<now, headless, startsNew>> /\ UNCHANGED claudes /\ UNCHANGED files

(***************************************************************************)
(* A refusal judged on its own.                                            *)
(***************************************************************************)
\* When a prompt was last typed, as the check is told: nobody types at a headless run.
TypedAt == IF headless THEN 0 ELSE promptAt

\* The old login's, perhaps: unless the turn began after Claude can have kept it.
\* Mutant: a prompt typed since the login changed begins a turn on the new one.
OldLoginPromptly(e) ==
    /\ loginChangedAt > 0
    /\ \/ e.at < loginChangedAt
       \/ e.at < loginChangedAt + Kept + AnswersIn /\ TypedAt < loginChangedAt
OldLogin(e) ==
    /\ loginChangedAt > 0
    /\ \/ e.at < loginChangedAt
       \/ e.at < loginChangedAt + Kept + AnswersIn /\ TypedAt < loginChangedAt + Kept

OtherHere(c) == other # None /\ other.here /\ other.on = c

\* The session is not away: a refusal handed on may be asked about at any time.
Proves(e, c) ==
    /\ visiting = None /\ handed[e.n] > 0
    /\ e.at > 0  \* not before this Claude started
    /\ e.at >= now - MaxAge /\ e.at >= TypedAt
    /\ ~OldLogin(e)
    /\ ~OtherHere(c)
    /\ headless => e.by = "claude"  \* shown in its own output

Init ==
    /\ now = 1 /\ put = <<0>> /\ visiting = None /\ windows = {}
    /\ headless \in BOOLEAN /\ startsNew \in BOOLEAN /\ first = TRUE
    /\ LET c == CHOOSE d \in Conversations : TRUE IN
         /\ other \in {None, [on |-> c, here |-> TRUE]}
         /\ claude = [on |-> c, turn |-> IF headless THEN 1 ELSE 0, sub |-> 0]
         \* A conversation resumed has a refusal of its past in its record.
         /\ record = [d \in Conversations |->
                IF d = c /\ ~startsNew
                THEN <<[n |-> 1, what |-> "refusal", at |-> 0, by |-> "claude", login |-> 1, turn |-> 0]>>
                ELSE <<>>]
    /\ half = [c \in Conversations |-> None]
    /\ subRecord = [c \in Conversations |-> <<>>]
    /\ following = None /\ main = None /\ sub = 0 /\ promptAt = 0
    /\ handed = [n \in 1..(MaxLines + 1) |-> 0] /\ past = {}

Next ==
    \/ Prompted \/ SubagentStarts \/ TurnEnds
    \/ \E l \in 1..MaxLogins : Refused(l) \/ SubagentRefused(l)
    \/ \E c \in Conversations : LineEnds(c) \/ Elsewhere(c)
    \/ \E what \in {"prompt", "refusal"} : OtherWrites(what)
    \/ OtherLeaves \/ Moves \/ VisitBegins \/ VisitEnds \/ Tick \/ Poll

Spec == Init /\ [][Next]_vars

(***************************************************************************)
(* Properties.                                                             *)
(***************************************************************************)
\* A refusal taken for proof is of the login in the folder, by this Claude: unless
\* another was on a conversation followed and is not on this one, or it is a subagent's
\* of a turn before the last prompt.
ProvesOwnLogin ==
    \A c \in Conversations : \A e \in LinesOf(c) :
        Proves(e, c) =>
            \/ e.by = "claude" /\ e.login = login
            \/ ~headless /\ other # None /\ ~OtherHere(c)
            \/ e.what = "sidechain" /\ e.turn < TypedAt

\* Every refusal whose line began after the record was turned to, and that was read
\* to its end, is handed on once, but for a visit's; none of the record's past is,
\* and none twice.
HandedOnce ==
    /\ \A n \in DOMAIN handed : handed[n] <= 1
    /\ ~startsNew => handed[1] = 0
    /\ following # None /\ main # None =>
         \A i \in DOMAIN record[following] :
           LET e == record[following][i] IN
           2 * i <= main.offset /\ e.what = "refusal" /\ e.n \notin past /\ ~Ignores(e) =>
               handed[e.n] = 1

TypeOK ==
    /\ now \in 1..MaxTime /\ login \in 1..MaxLogins /\ \A l \in DOMAIN put : put[l] \in 0..now
    /\ other # None => other.on \in Conversations /\ other.here \in BOOLEAN
    /\ following \in Conversations \union {None}
    /\ main # None => main.offset \in 0..Size(following) /\ main.rest \in BOOLEAN
    /\ sub \in 0..MaxLines + 1 /\ promptAt \in 0..now

Inv == TypeOK /\ ProvesOwnLogin /\ HandedOnce
=============================================================================
