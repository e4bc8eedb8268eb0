------------------------------ MODULE EventLog ------------------------------
(***************************************************************************)
(* The log of events several ccx processes append to and compact           *)
(* (events/log.ts), under a lock of OwnedLock that nobody waits for with a *)
(* terminal to relay: a line that finds it taken is queued.  A line is     *)
(* written into the file its writer opened, wherever that has been moved   *)
(* since.  A line is <<p, n>>, the n-th of p; repeats are not folded and   *)
(* the archive is never full.  A read takes no lock and changes nothing,   *)
(* so that one stands for all; once it misses a piece it is not followed.  *)
(***************************************************************************)
EXTENDS Naturals, Sequences, FiniteSets, SequencesExt

CONSTANTS Procs,      \* the ccx processes
          MaxLines,   \* bounds the lines each logs
          TrimAt,     \* more lines than this are worth compacting
          MaxAstray,  \* bounds the holds that overrun and the writes past the lock
          Absent      \* no such file

VARIABLES live,       \* the file lines are appended to
          parked,     \* the one a compaction moved aside, if any
          archive,    \* what compactions have kept, and the parked file it last took in
          holding,    \* who holds the lock
          overran,    \* those of them who held it until another took it over
          pc,         \* what each process is doing
          made,       \* how many lines each has logged
          queued,     \* its lines that found the lock taken
          todo,       \* those it is writing
          fd,         \* the file it has opened for one
          readIn,     \* what its compaction read: the parked file and the archive
          reader,     \* a read of the log: the piece it comes to, the lines it has found
                      \* and those written as it began
          astray,     \* how many holds overran and writes went past the lock
          written,    \* history: the lines written
          spoiled     \* history: whether one of those met a compaction

vars == <<live, parked, archive, holding, overran, pc, made, queued, todo, fd, readIn,
          reader, astray, written, spoiled>>

Lines == Procs \X (1..MaxLines)

\* "over" has a line written and its lock to let go, "trimming" may find the file long,
\* "absorbing left" and "removing left" work on what a compaction cut short has left.
PC == {"idle", "writing", "over", "trimming", "sizing", "absorbing left", "removing left",
       "parking", "absorbing", "removing", "gone"}

TypeOK ==
    /\ live \in Seq(Lines) /\ parked \in Seq(Lines) \cup {Absent}
    /\ archive \in [lines : Seq(Lines), absorbed : Seq(Lines)]
    /\ holding \subseteq Procs /\ overran \subseteq holding
    /\ pc \in [Procs -> PC] /\ made \in [Procs -> 0..MaxLines]
    /\ queued \in [Procs -> Seq(Lines)] /\ todo \in [Procs -> Seq(Lines)]
    /\ fd \in [Procs -> {"none", "live", "parked", "removed"}]
    /\ readIn \in [Procs -> [parked : Seq(Lines), archive : Seq(Lines)]]
    /\ reader \in [at : {"archive", "parked", "live", "over", "short"},
                   found : SUBSET Lines, had : SUBSET Lines]
    /\ astray \in 0..MaxAstray /\ written \subseteq Lines /\ spoiled \in BOOLEAN

NothingRead == [parked |-> <<>>, archive |-> <<>>]

Init ==
    /\ live = <<>> /\ parked = Absent /\ archive = [lines |-> <<>>, absorbed |-> <<>>]
    /\ holding = {} /\ overran = {} /\ pc = [p \in Procs |-> "idle"]
    /\ made = [p \in Procs |-> 0]
    /\ queued = [p \in Procs |-> <<>>] /\ todo = [p \in Procs |-> <<>>]
    /\ fd = [p \in Procs |-> "none"] /\ readIn = [p \in Procs |-> NothingRead]
    /\ reader = [at |-> "archive", found |-> {}, had |-> {}]
    /\ astray = 0 /\ written = {} /\ spoiled = FALSE

files == <<live, parked, archive>>
lock == <<holding, overran>>
history == <<astray, written, spoiled>>

Free == holding = overran
Vouched(p) == p \in holding \ overran

-----------------------------------------------------------------------------
(* Lines *)

Takes(p) == Free /\ holding' = {p} /\ overran' = {} /\ UNCHANGED astray

\* The wait ran out, or the lock cannot be made.
GoesPast(p) == astray < MaxAstray /\ astray' = astray + 1 /\ UNCHANGED lock

StartsWriting(p, lines) ==
    /\ Takes(p) \/ GoesPast(p)
    /\ pc' = [pc EXCEPT ![p] = "writing"]
    /\ todo' = [todo EXCEPT ![p] = lines]

\* A line joins the queue behind others, or when the lock is taken.
Logs(p) ==
    /\ pc[p] = "idle" /\ made[p] < MaxLines
    /\ made' = [made EXCEPT ![p] = @ + 1]
    /\ \/ /\ queued[p] # <<>> \/ ~Free
          /\ queued' = [queued EXCEPT ![p] = Append(@, <<p, made'[p]>>)]
          /\ UNCHANGED <<lock, pc, todo, astray>>
       \/ /\ queued[p] = <<>>
          /\ StartsWriting(p, <<<<p, made'[p]>>>>)
          /\ UNCHANGED queued
    /\ UNCHANGED <<files, fd, readIn, written, spoiled>>

\* By the drain, or as the process or its session ends.
Drains(p) ==
    /\ pc[p] = "idle" /\ queued[p] # <<>>
    /\ StartsWriting(p, queued[p])
    /\ queued' = [queued EXCEPT ![p] = <<>>]
    /\ UNCHANGED <<files, made, fd, readIn, written, spoiled>>

Opens(p) ==
    /\ pc[p] = "writing" /\ fd[p] = "none"
    /\ fd' = [fd EXCEPT ![p] = "live"]
    /\ UNCHANGED <<files, lock, pc, made, queued, todo, readIn, history>>

NextLine(p) ==
    /\ todo' = [todo EXCEPT ![p] = Tail(@)]
    /\ fd' = [fd EXCEPT ![p] = "none"]
    /\ pc' = [pc EXCEPT ![p] = IF Len(todo[p]) = 1 THEN "over" ELSE @]

Writes(p) ==
    /\ pc[p] = "writing" /\ fd[p] # "none"
    /\ live' = IF fd[p] = "live" THEN Append(live, Head(todo[p])) ELSE live
    /\ parked' = IF fd[p] = "parked" THEN Append(parked, Head(todo[p])) ELSE parked
    /\ written' = written \cup {Head(todo[p])}
    /\ spoiled' = (spoiled \/ fd[p] # "live")
    /\ NextLine(p)
    /\ UNCHANGED <<archive, lock, made, queued, readIn, astray>>

\* A line that cannot be written is lost without a word.
WriteFails(p) ==
    /\ pc[p] = "writing"
    /\ NextLine(p)
    /\ UNCHANGED <<files, lock, made, queued, readIn, history>>

LetsGo(p) == holding' = holding \ {p} /\ overran' = overran \ {p}

Written(p) ==
    /\ pc[p] = "over"
    /\ LetsGo(p)
    /\ pc' = [pc EXCEPT ![p] = IF Len(live) > TrimAt THEN "trimming" ELSE "idle"]
    /\ UNCHANGED <<files, made, queued, todo, fd, readIn, history>>

-----------------------------------------------------------------------------
(* Compactions *)

\* Whoever holds the lock is appending or compacting: the next append tries again.
Trims(p) ==
    /\ pc[p] = "trimming"
    /\ \/ Free /\ Takes(p) /\ pc' = [pc EXCEPT ![p] = "sizing"]
       \/ ~Free /\ pc' = [pc EXCEPT ![p] = "idle"] /\ UNCHANGED <<lock, astray>>
    /\ UNCHANGED <<files, made, queued, todo, fd, readIn, written, spoiled>>

StopsTrimming(p) == LetsGo(p) /\ pc' = [pc EXCEPT ![p] = "idle"]

\* The parked file is archived, the one of a compaction cut short before any other.
Reads(p) ==
    /\ pc[p] = "sizing" /\ Len(live) > TrimAt
    /\ parked # Absent
    /\ readIn' = [readIn EXCEPT ![p] = [parked |-> parked, archive |-> archive.lines]]
    /\ pc' = [pc EXCEPT ![p] = "absorbing left"]
    /\ UNCHANGED <<files, lock, made, queued, todo, fd, history>>

\* A read is short of a piece: its lines were moved away just before, or it cannot be read.
Short == [at |-> "short", found |-> {}, had |-> {}]
Misses(piece) == reader' = IF reader.at = piece THEN Short ELSE reader

Moved(from, to) == [q \in Procs |-> IF fd[q] = from THEN to ELSE fd[q]]

Parks(p) ==
    /\ \/ pc[p] = "sizing" /\ Len(live) > TrimAt /\ parked = Absent
       \/ pc[p] = "parking"
    /\ parked' = live /\ live' = <<>> /\ fd' = Moved("live", "parked")
    /\ readIn' = [readIn EXCEPT ![p] = [parked |-> live, archive |-> archive.lines]]
    /\ pc' = [pc EXCEPT ![p] = "absorbing"]
    /\ spoiled' = (spoiled \/ ~Vouched(p))
    /\ Misses("live")
    /\ UNCHANGED <<archive, lock, made, queued, todo, astray, written>>

FindsItShort(p) ==
    /\ pc[p] = "sizing" /\ Len(live) <= TrimAt
    /\ StopsTrimming(p)
    /\ UNCHANGED <<files, made, queued, todo, fd, readIn, history>>

\* Mutant: a parked file the archive has already taken in is merged again.
AbsorbsAgain(p) ==
    /\ pc[p] \in {"absorbing", "absorbing left"}
    /\ archive' = [lines |-> readIn[p].archive \o readIn[p].parked,
                   absorbed |-> readIn[p].parked]
    /\ readIn' = [readIn EXCEPT ![p] = NothingRead]
    /\ pc' = [pc EXCEPT ![p] = IF @ = "absorbing" THEN "removing" ELSE "removing left"]
    /\ spoiled' = (spoiled \/ ~Vouched(p))
    /\ UNCHANGED <<live, parked, lock, made, queued, todo, fd, astray, written>>

Absorbs(p) ==
    /\ pc[p] \in {"absorbing", "absorbing left"}
    /\ archive' = IF archive.absorbed = readIn[p].parked THEN archive
                  ELSE [lines |-> readIn[p].archive \o readIn[p].parked,
                        absorbed |-> readIn[p].parked]
    /\ readIn' = [readIn EXCEPT ![p] = NothingRead]
    /\ pc' = [pc EXCEPT ![p] = IF @ = "absorbing" THEN "removing" ELSE "removing left"]
    /\ spoiled' = (spoiled \/ ~Vouched(p))
    /\ UNCHANGED <<live, parked, lock, made, queued, todo, fd, astray, written>>

Removes(p) ==
    /\ pc[p] \in {"removing", "removing left"}
    /\ parked' = Absent /\ fd' = Moved("parked", "removed")
    /\ IF pc[p] = "removing" THEN StopsTrimming(p)
       ELSE pc' = [pc EXCEPT ![p] = "parking"] /\ UNCHANGED lock
    /\ spoiled' = (spoiled \/ ~Vouched(p))
    /\ Misses("parked")
    /\ UNCHANGED <<live, archive, made, queued, todo, readIn, astray, written>>

\* A step of it fails: the file stays long, or parked.
TrimFails(p) ==
    /\ pc[p] \in PC \ {"idle", "writing", "over", "trimming", "gone"}
    /\ StopsTrimming(p)
    /\ readIn' = [readIn EXCEPT ![p] = NothingRead]
    /\ UNCHANGED <<files, made, queued, todo, fd, history>>

-----------------------------------------------------------------------------

Overruns(p) ==
    /\ p \in holding \ overran /\ astray < MaxAstray
    /\ overran' = overran \cup {p} /\ astray' = astray + 1
    /\ UNCHANGED <<files, holding, pc, made, queued, todo, fd, readIn, written, spoiled>>

\* A process that exits in order drains first; one that dies drops what it has queued.
Dies(p) ==
    /\ pc[p] # "gone"
    /\ pc' = [pc EXCEPT ![p] = "gone"]
    /\ LetsGo(p)
    /\ queued' = [queued EXCEPT ![p] = <<>>] /\ todo' = [todo EXCEPT ![p] = <<>>]
    /\ fd' = [fd EXCEPT ![p] = "none"] /\ readIn' = [readIn EXCEPT ![p] = NothingRead]
    /\ UNCHANGED <<files, made, history>>

-----------------------------------------------------------------------------
(* Reading: the archive, then the parked file, then the live one *)

Parked == IF parked = Absent THEN <<>> ELSE parked

ReadsArchive ==
    /\ reader.at = "archive"
    /\ reader' = [at |-> "parked", found |-> ToSet(archive.lines), had |-> written]

ReadsParked ==
    /\ reader.at = "parked"
    /\ reader' = [reader EXCEPT !.at = "live", !.found = @ \cup ToSet(Parked)]

ReadsLive ==
    /\ reader.at = "live"
    /\ reader' = [reader EXCEPT !.at = "over", !.found = @ \cup ToSet(live)]

CannotRead == reader.at \in {"archive", "parked", "live"} /\ reader' = Short

readEvents ==
    /\ ReadsArchive \/ ReadsParked \/ ReadsLive \/ CannotRead
    /\ UNCHANGED <<files, lock, pc, made, queued, todo, fd, readIn, history>>

-----------------------------------------------------------------------------

Next ==
    \/ \E p \in Procs :
          /\ \/ Logs(p) \/ Drains(p) \/ Opens(p) \/ Writes(p) \/ WriteFails(p) \/ Written(p)
             \/ Trims(p) \/ Reads(p) \/ FindsItShort(p) \/ Absorbs(p) \/ TrimFails(p)
             \/ Overruns(p) \/ Dies(p)
          /\ UNCHANGED reader
    \/ \E p \in Procs : Parks(p) \/ Removes(p)
    \/ readEvents

-----------------------------------------------------------------------------
(* Properties *)

\* A read of the log shows every line written before it began, whatever compactions are
\* under way or were cut short (log.ts, readEvents), unless a compaction takes away the
\* piece the read comes to next, which nothing locks, or a piece cannot be read, or a
\* compaction met a write or a hold the lock does not vouch for.
ReadsShowAll ==
    spoiled \/ (reader.at = "over" => reader.had \subseteq reader.found)

\* A line written is in one of the three files, so that a later read shows it, whatever
\* compactions were under way or cut short (log.ts, trimIfLong), unless one met a write
\* or a hold the lock does not vouch for.
WrittenIsKept == spoiled \/ written \subseteq ToSet(archive.lines \o Parked \o live)

\* What the files hold, without the parked one the archive has already taken in.
Kept == archive.lines \o (IF Parked = archive.absorbed THEN <<>> ELSE Parked) \o live

\* No compaction counts a line twice.
CountedOnce == spoiled \/ Len(Kept) = Cardinality(ToSet(Kept))

\* Each process's lines are read in the order it logged them, queued or not.
ReadInOrder ==
    spoiled \/
        \A i, j \in DOMAIN Kept :
            i < j /\ Kept[i][1] = Kept[j][1] => Kept[i][2] < Kept[j][2]

\* What always holds of the log.
Inv == TypeOK /\ ReadsShowAll /\ WrittenIsKept /\ CountedOnce /\ ReadInOrder
=============================================================================
