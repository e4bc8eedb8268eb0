--------------------------- MODULE DesktopHandoff ---------------------------
(***************************************************************************)
(* Carrying a Claude Desktop conversation on in a terminal window, where   *)
(* ccx can switch accounts: desktop/handoff.ts, the hooks, `ccx desktop    *)
(* move`, `desktop wait` and `desktop-run` of commands/desktop.ts, and     *)
(* `ccx swap` of a Desktop conversation (commands/swap.ts).                *)
(*                                                                         *)
(* One file says when each conversation was last handed over, so that no   *)
(* second window is opened on it; it is read and written by every process  *)
(* without a lock.  A hook only decides and leaves the rest to a detached  *)
(* ccx, through a job file; the window reads what to run from a launch     *)
(* file, once Desktop has let go of the conversation.  Both files are      *)
(* named for the conversation.                                             *)
(*                                                                         *)
(* `gaps` and `lost` are history: how what the code promises came to fail. *)
(***************************************************************************)
EXTENDS Naturals, FiniteSets

CONSTANTS
  Conversations,
  MaxProcs,  \* bound: ccx processes that run at once
  Quiet,     \* HANDOFF_QUIET_MS, in ticks
  GateWait,  \* how long a window waits for Desktop, in ticks
  MaxTime,   \* bound on the clock
  MaxTurns,  \* bound: how many turns each conversation has in Desktop
  MaxHands,  \* bound: handovers asked for by a person or from a turn
  None

VARIABLES
  now,
  claude,  \* each conversation in Desktop: "idle", "prompt" (a message in the
           \* hook), "busy", "failed" (its turn's end in the hook) or "gone"
  turns,
  hands,
  message, \* "none", "typed", "sent" (to Desktop), "held" or "carried", the
           \* last message of each
  record,  \* desktop-handoffs.json: each conversation's [time, nr] or None
  job,     \* <session>.job.json: [at, carries] or None
  launch,  \* <session>.launch.json: whether it carries the message, or None
  procs,   \* each slot's process
  windows, \* each conversation's windows: [at, state, carries]
  begun,   \* handovers begun of each conversation; numbers their records
  gaps,    \* why a second window, or a record without one, of each
  lost     \* why each conversation's held message did not arrive

vars == <<now, claude, turns, hands, message, record, job, launch, procs, windows,
          begun, gaps, lost>>
counts == <<turns, hands>>
files == <<record, job, launch>>
history == <<begun, gaps, lost>>

Slots == 1..MaxProcs

Free == [at |-> "free", kind |-> None, conv |-> None, seen |-> None, stamp |-> None,
         carries |-> FALSE, begun |-> 0]

Stamps == [time : 0..MaxTime, nr : Nat]
Records == [Conversations -> Stamps \cup {None}]
Steps == {"free", "looks", "writesJob", "records", "starts", "reads", "opens",
          "recordsOpened", "forgets", "forgetting"}
Kinds == {None, "prompt", "limit", "swap", "move", "again", "job"}
Windows == [at : 0..MaxTime, nr : Nat, state : {"waits", "runs", "over"}]

TypeOK ==
  /\ now \in 0..MaxTime
  /\ claude \in [Conversations -> {"idle", "prompt", "busy", "failed", "gone"}]
  /\ (\A c \in Conversations : turns[c] \in 0..MaxTurns[c]) /\ hands \in 0..MaxHands
  /\ message \in [Conversations -> {"none", "typed", "sent", "held", "carried"}]
  /\ record \in Records
  /\ job \in [Conversations -> [stamp : Stamps, carries : BOOLEAN] \cup {None}]
  /\ launch \in [Conversations -> BOOLEAN \cup {None}]
  /\ procs \in [Slots -> [at : Steps, kind : Kinds, conv : Conversations \cup {None},
                          seen : Records \cup {None}, stamp : Stamps \cup {None},
                          carries : BOOLEAN, begun : Nat \cup {None}]]
  /\ \A c \in Conversations : windows[c] \subseteq Windows
  /\ begun \in [Conversations -> Nat]

Init ==
  /\ now = 0
  /\ claude = [c \in Conversations |-> "idle"]
  /\ turns = [c \in Conversations |-> 0] /\ hands = 0
  /\ message = [c \in Conversations |-> "none"]
  /\ record = [c \in Conversations |-> None]
  /\ job = [c \in Conversations |-> None] /\ launch = [c \in Conversations |-> None]
  /\ procs = [p \in Slots |-> Free]
  /\ windows = [c \in Conversations |-> {}]
  /\ begun = [c \in Conversations |-> 0]
  /\ gaps = [c \in Conversations |-> {}] /\ lost = [c \in Conversations |-> {}]

-----------------------------------------------------------------------------
(* The file of handovers.                                                  *)

\* handedOffRecently, of what the file holds.
Recent(file, c) == file[c] # None /\ now - file[c].time < Quiet

\* recordHandoff keeps the recent ones, and this one.
Recorded(file, c, stamp) ==
  [d \in Conversations |->
     IF d = c THEN stamp ELSE IF Recent(file, d) THEN file[d] ELSE None]

\* What is written over another process's change since the file was read.
Crossed(file, c) ==
  [d \in Conversations |->
     IF d # c /\ file[d] # record[d] /\ (Recent(file, d) \/ Recent(record, d))
     THEN gaps[d] \cup {"writtenOver"} ELSE gaps[d]]

Stamp(c) == [time |-> now, nr |-> begun[c] + 1]
Begins(c) == begun' = [begun EXCEPT ![c] = @ + 1]

Conv(p) == procs[p].conv
At(p, step) == procs[p].at = step

\* A handover begun by a process that looked before another one began, or while
\* another had yet to record its own.
Begun(c) ==
  IF \E q \in Slots : /\ Conv(q) = c /\ procs[q].kind # "job"
                     /\ procs[q].at \in {"records", "recordsOpened"}
  THEN None ELSE begun[c]
GapsFor(p, c) ==
  IF procs[p].begun # begun[c] THEN [gaps EXCEPT ![c] = @ \cup {"overlap"}] ELSE gaps

\* A process that starts takes the first slot that is free.
Takes(p) == At(p, "free") /\ \A q \in 1..(p - 1) : ~At(q, "free")
Goes(p, step) == procs' = [procs EXCEPT ![p].at = step]
Ends(p) == procs' = [procs EXCEPT ![p] = Free]

Started(kind, c, step, stamp, carries) ==
  [Free EXCEPT !.at = step, !.kind = kind, !.conv = c, !.stamp = stamp, !.carries = carries]

-----------------------------------------------------------------------------
(* Desktop: a person's messages, its turns and the hooks they run.         *)

\* A message sent: Claude runs the hook before the turn.
SendsMessage(c, p) ==
  /\ claude[c] = "idle" /\ turns[c] < MaxTurns[c] /\ Takes(p)
  /\ message[c] \in {"none", "sent"}
  /\ claude' = [claude EXCEPT ![c] = "prompt"]
  /\ turns' = [turns EXCEPT ![c] = @ + 1]
  /\ message' = [message EXCEPT ![c] = "typed"]
  /\ procs' = [procs EXCEPT ![p] = Started("prompt", c, "looks", None, TRUE)]
  /\ UNCHANGED <<now, hands, files, windows, history>>

\* A turn that begins without a message of the person's: a task that ended.
TurnBegins(c) ==
  /\ claude[c] = "idle" /\ turns[c] < MaxTurns[c]
  /\ claude' = [claude EXCEPT ![c] = "busy"]
  /\ turns' = [turns EXCEPT ![c] = @ + 1]
  /\ UNCHANGED <<now, hands, message, files, procs, windows, history>>

\* A turn ends well, or at a limit, where Claude runs the hook.
TurnEnds(c) ==
  /\ claude[c] = "busy"
  /\ \/ /\ claude' = [claude EXCEPT ![c] = "idle"] /\ UNCHANGED procs
     \/ \E p \in Slots :
          /\ Takes(p)
          /\ claude' = [claude EXCEPT ![c] = "failed"]
          /\ procs' = [procs EXCEPT ![p] = Started("limit", c, "looks", None, FALSE)]
  /\ UNCHANGED <<now, counts, message, files, windows, history>>

\* Desktop closes it; a hook that runs is taken down with it, mid-way.
Closes(c) ==
  /\ claude[c] # "gone"
  /\ claude' = [claude EXCEPT ![c] = "gone"]
  /\ LET taken == {p \in Slots : Conv(p) = c /\ procs[p].kind \in {"prompt", "limit"}}
     IN /\ procs' = [p \in Slots |-> IF p \in taken THEN Free ELSE procs[p]]
        /\ gaps' = IF taken = {} THEN gaps ELSE [gaps EXCEPT ![c] = @ \cup {"killed"}]
  /\ UNCHANGED <<now, counts, message, files, windows, begun, lost>>

\* How a hook of each kind leaves Claude when it lets the turn or message be.
LetsBe(p) ==
  LET c == Conv(p)
  IN IF procs[p].kind = "prompt"
     THEN /\ claude' = [claude EXCEPT ![c] = "busy"]
          /\ message' = [message EXCEPT ![c] = "sent"]
     ELSE /\ claude' = [claude EXCEPT ![c] = "idle"] /\ UNCHANGED message

\* desktopHookCommand: not at a limit, not past the plan, nowhere with room, a
\* message that cannot be carried over, or no terminal: as if it were not there.
HookLetsBe(p) ==
  /\ At(p, "looks") /\ procs[p].kind \in {"prompt", "limit"}
  /\ LetsBe(p) /\ Ends(p)
  /\ UNCHANGED <<now, counts, files, windows, history>>

\* The conversation was handed over a moment ago: the turn's end is left, the
\* message is held for the person to send where it continues.
HookStops(p) ==
  LET c == Conv(p)
  IN /\ At(p, "looks") /\ procs[p].kind \in {"prompt", "limit"} /\ Recent(record, c)
     /\ claude' = [claude EXCEPT ![c] = "idle"]
     /\ message' = [message EXCEPT ![c] = IF procs[p].kind = "prompt" THEN "none" ELSE @]
     /\ Ends(p)
     /\ UNCHANGED <<now, counts, files, windows, history>>

HookDecides(p) ==
  LET c == Conv(p)
  IN /\ At(p, "looks") /\ procs[p].kind \in {"prompt", "limit"} /\ ~Recent(record, c)
     /\ procs' = [procs EXCEPT ![p].at = "writesJob", ![p].begun = Begun(c)]
     /\ UNCHANGED <<now, claude, counts, message, files, windows, history>>

\* scheduleHandoff: the job is written down; where it cannot be, nothing is held.
WritesJob(p) ==
  LET c == Conv(p)
      covers == job[c] # None /\ job[c].carries
  IN /\ At(p, "writesJob")
     /\ \/ /\ LetsBe(p) /\ Ends(p)
           /\ UNCHANGED <<job, history>>
        \/ /\ job' = [job EXCEPT ![c] = [stamp |-> Stamp(c), carries |-> procs[p].carries]]
           /\ Begins(c)
           /\ procs' = [procs EXCEPT ![p].at = "records", ![p].seen = record,
                                     ![p].stamp = Stamp(c)]
           /\ gaps' = GapsFor(p, c)
           /\ lost' = [lost EXCEPT ![c] = IF covers THEN @ \cup {"overwritten"} ELSE @]
           /\ UNCHANGED <<claude, message>>
     /\ UNCHANGED <<now, counts, record, launch, windows>>

\* recordHandoff's write; it may fail, and that is not told.  For a hook the
\* handover has yet to start, else the window is there.
RecordWrite(p) ==
  LET c == Conv(p)
  IN \/ /\ record' = Recorded(procs[p].seen, c, procs[p].stamp)
        /\ gaps' = Crossed(procs[p].seen, c)
     \/ /\ gaps' = [gaps EXCEPT ![c] = @ \cup {"unwritten"}]
        /\ UNCHANGED record

\* Mutant: marked when the window opens, not when it is scheduled.
MarksLater(p) ==
  /\ At(p, "records") /\ Goes(p, "starts")
  /\ UNCHANGED <<now, claude, counts, message, files, windows, history>>

\* Marked before the window opens: another failed turn must not open a second.
RecordsHandoff(p) ==
  /\ At(p, "records") /\ RecordWrite(p) /\ Goes(p, "starts")
  /\ UNCHANGED <<now, claude, counts, message, job, launch, windows, begun, lost>>

RecordsOpened(p) ==
  /\ At(p, "recordsOpened") /\ RecordWrite(p) /\ Ends(p)
  /\ UNCHANGED <<now, claude, counts, message, job, launch, windows, begun, lost>>

\* The detached ccx is started, and the message held.  It may not start: found
\* at once, nothing is held; found a moment later (the child's "error"), the
\* message is held already.  Either way the record is taken back.
StartsDetached(p) ==
  LET c == Conv(p)
      holds == /\ claude' = [claude EXCEPT ![c] = "idle"]
               /\ message' = [message EXCEPT ![c] = IF @ = "typed" THEN "held" ELSE @]
  IN /\ At(p, "starts")
     /\ \/ /\ holds
           /\ \E q \in Slots \ {p} :
                /\ Takes(q)
                /\ procs' = [procs EXCEPT ![p] = Free,
                                          ![q] = Started("job", c, "reads", None, FALSE)]
           /\ UNCHANGED lost
        \/ /\ Goes(p, "forgets") /\ UNCHANGED <<claude, message, lost>>
        \/ /\ holds /\ procs' = [procs EXCEPT ![p].at = "forgets", ![p].kind = "job"]
           /\ lost' = [lost EXCEPT ![c] =
                         IF procs[p].kind = "prompt" THEN @ \cup {"unopened"} ELSE @]
     /\ UNCHANGED <<now, counts, files, windows, begun, gaps>>

-----------------------------------------------------------------------------
(* Opening the window.                                                     *)

\* runHandoffJob reads the job and removes its file; another's may be gone.
ReadsJob(p) ==
  LET c == Conv(p)
  IN /\ At(p, "reads")
     /\ IF job[c] = None THEN Ends(p)
        ELSE procs' = [procs EXCEPT ![p].at = "opens", ![p].stamp = job[c].stamp,
                                    ![p].carries = job[c].carries]
     /\ job' = [job EXCEPT ![c] = None]
     /\ UNCHANGED <<now, claude, counts, message, record, launch, windows, history>>

\* A process handing a conversation over that found no recent handover of it, or
\* was told not to mind (--again).
Asked(c, p, kind) ==
  /\ Takes(p) /\ hands < MaxHands
  /\ kind # "again" => ~Recent(record, c)
  /\ procs' = [procs EXCEPT ![p] =
                 [Started(kind, c, "opens", None, FALSE) EXCEPT !.begun = Begun(c)]]
  /\ hands' = hands + 1
  /\ UNCHANGED <<now, claude, turns, message, files, windows, history>>

\* `ccx desktop move`: of a conversation open in Desktop, also of one at work
\* (--wait: the window waits for it).
AsksToMove(c, p) ==
  claude[c] # "gone" /\ \E kind \in {"move", "again"} : Asked(c, p, kind)

\* `ccx swap` run in a turn of the conversation.
Swaps(c, p) == claude[c] = "busy" /\ Asked(c, p, "swap")

\* handOff: the launch file is written and a terminal opened on it, which may
\* not be there; a handover that was scheduled takes its record back then.
OpensWindow(p) ==
  LET c == Conv(p)
      waiting == {w \in windows[c] : w.state = "waits"}
      dropped == IF launch[c] = TRUE /\ ~procs[p].carries /\ waiting # {}
                 THEN {"overwritten"} ELSE {}
  IN /\ At(p, "opens")
     /\ launch' = [launch EXCEPT ![c] = procs[p].carries]
     /\ \/ /\ windows' = [windows EXCEPT ![c] =
                            @ \cup {[at |-> now, nr |-> begun[c] + 1, state |-> "waits"]}]
           /\ Begins(c)
           /\ procs' = [procs EXCEPT ![p].at = "recordsOpened", ![p].seen = record,
                                     ![p].stamp = Stamp(c)]
           /\ gaps' = CASE procs[p].kind = "again" -> [gaps EXCEPT ![c] = @ \cup {"again"}]
                        [] procs[p].kind = "job"   -> gaps
                        [] OTHER                   -> GapsFor(p, c)
           /\ lost' = [lost EXCEPT ![c] = @ \cup dropped]
        \/ /\ IF procs[p].kind = "job" THEN Goes(p, "forgets") ELSE Ends(p)
           /\ lost' = [lost EXCEPT ![c] =
                         @ \cup dropped \cup (IF procs[p].carries THEN {"unopened"} ELSE {})]
           /\ UNCHANGED <<windows, begun, gaps>>
     /\ UNCHANGED <<now, claude, counts, message, record, job>>

\* forgetHandoff: a record made since then is left alone.
Forgets(p) ==
  /\ At(p, "forgets")
  /\ procs' = [procs EXCEPT ![p].at = "forgetting", ![p].seen = record]
  /\ UNCHANGED <<now, claude, counts, message, files, windows, history>>

Forgotten(p) ==
  LET c == Conv(p)
      file == procs[p].seen
  IN /\ At(p, "forgetting")
     /\ IF file[c] # procs[p].stamp THEN UNCHANGED <<record, gaps>>
        ELSE \/ /\ record' = [file EXCEPT ![c] = None]
                /\ gaps' = [Crossed(file, c) EXCEPT ![c] =
                              IF record[c] # file[c] THEN @ \cup {"writtenOver"} ELSE @]
             \/ /\ gaps' = [gaps EXCEPT ![c] = @ \cup {"unwritten"}] /\ UNCHANGED record
     /\ IF procs[p].kind \in {"prompt", "limit"} THEN LetsBe(p)
        ELSE UNCHANGED <<claude, message>>
     /\ Ends(p)
     /\ UNCHANGED <<now, counts, job, launch, windows, begun, lost>>

-----------------------------------------------------------------------------
(* The window: its gate, and what it runs.                                 *)

Moves(c, w, state) ==
  windows' = [windows EXCEPT ![c] = (@ \ {w}) \cup {[w EXCEPT !.state = state]}]

\* waitForDesktop: Desktop is gone or between turns.  desktop-run then reads
\* the launch file as it is now.
PicksUp(c, w) ==
  /\ w \in windows[c] /\ w.state = "waits" /\ claude[c] # "busy"
  /\ Moves(c, w, "runs")
  /\ message' = [message EXCEPT ![c] =
                   IF launch[c] /\ @ \in {"typed", "held"} THEN "carried" ELSE @]
  /\ UNCHANGED <<now, claude, counts, files, procs, history>>

\* Desktop has not let go of it in all that time.
GivesUp(c, w) ==
  /\ w \in windows[c] /\ w.state = "waits" /\ claude[c] = "busy" /\ now - w.at >= GateWait
  /\ Moves(c, w, "over")
  /\ lost' = [lost EXCEPT ![c] = IF launch[c] THEN @ \cup {"gaveUp"} ELSE @]
  /\ UNCHANGED <<now, claude, counts, message, files, procs, begun, gaps>>

\* What it runs is done, and the person closes the window.
WindowEnds(c, w) ==
  /\ w \in windows[c] /\ w.state = "runs"
  /\ Moves(c, w, "over")
  /\ UNCHANGED <<now, claude, counts, message, files, procs, history>>

\* Time passes while no ccx process is in the middle of anything.
Tick ==
  /\ now < MaxTime /\ \A p \in Slots : At(p, "free")
  /\ now' = now + 1
  /\ UNCHANGED <<claude, counts, message, files, procs, windows, history>>

ProcessActs(p) ==
  \/ HookLetsBe(p) \/ HookStops(p) \/ HookDecides(p) \/ WritesJob(p) \/ RecordsHandoff(p)
  \/ StartsDetached(p) \/ ReadsJob(p) \/ OpensWindow(p) \/ RecordsOpened(p)
  \/ Forgets(p) \/ Forgotten(p)

Next ==
  \/ \E c \in Conversations :
       \/ TurnBegins(c) \/ TurnEnds(c) \/ Closes(c)
       \/ \E p \in Slots :
            SendsMessage(c, p) \/ AsksToMove(c, p) \/ Swaps(c, p)
       \/ \E w \in windows[c] : PicksUp(c, w) \/ GivesUp(c, w) \/ WindowEnds(c, w)
  \/ \E p \in Slots : ProcessActs(p)
  \/ Tick

Spec == Init /\ [][Next]_vars

-----------------------------------------------------------------------------
(* What it promises.                                                       *)

\* Two windows are opened on one conversation within HANDOFF_QUIET_MS of each
\* other only where the person asks again, where two processes decided at the
\* same time, or where the file did not keep the first.
OneWindow ==
  \A c \in Conversations : \A v, w \in windows[c] :
    v # w /\ v.at - w.at \in 0..(Quiet - 1) =>
      gaps[c] \cap {"again", "overlap", "writtenOver", "unwritten"} # {}

\* A message held back is on its way to a window that will send it, or has
\* been sent there; else a window did not open, Desktop did not let go in time,
\* or a handover after it took the place of what that window was to run.
HeldMessageArrives ==
  \A c \in Conversations :
    message[c] = "held" =>
      \/ job[c] # None /\ job[c].carries /\ \E p \in Slots : Conv(p) = c /\ At(p, "reads")
      \/ \E p \in Slots : Conv(p) = c /\ At(p, "opens") /\ procs[p].carries
      \/ launch[c] = TRUE /\ \E w \in windows[c] : w.state = "waits"
      \/ lost[c] # {}

\* What holds a conversation back for a while is a window that opened, or a
\* process about to open it or to take the record back.
HeldBackForAWindow ==
  \A c \in Conversations :
    Recent(record, c) =>
      \/ \E w \in windows[c] : now - w.at < Quiet
      \/ \E p \in Slots : Conv(p) = c /\ procs[p].at # "free"
      \/ gaps[c] \cap {"killed", "writtenOver", "unwritten", "overlap"} # {}

Inv == TypeOK /\ OneWindow /\ HeldMessageArrives /\ HeldBackForAWindow
=============================================================================
