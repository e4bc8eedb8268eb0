-------------------------- MODULE CapReliefProofs --------------------------
(***************************************************************************)
(* Proofs about relief from a limit, for any accounts, and any number of   *)
(* refusals and tries: a limit being checked or acted on is never taken    *)
(* over by a switch, a subagent's ends nothing, and what the main thread's *)
(* account confirmed is recorded, once, of the account it was met on.  And *)
(* about carrying on afterwards, whatever the waits are: the prompt typed  *)
(* into a session is counted as taken only when it was.                    *)
(***************************************************************************)
EXTENDS MCCapRelief, TLAPS

\* Nothing is checked while a limit waits to be acted on, and a switch, which
\* waits for both, is the only thing that ends a launch it was asked for.
OneAtATime ==
    /\ check # None => pending = None
    /\ pending # None => deciding
    /\ switching => check = None /\ pending = None /\ cap = "none"
    /\ cap = "confirmed" => check = None /\ pending = None

\* How far the exit has come, by what it has waited for.
ExitInv ==
    /\ pending # None => Running \/ child = "exited"
    /\ child = "awaits" => ~switching
    /\ child = "lastAsk" => check # None /\ ~check.side /\ ~switching
    /\ child \in {"closing", "final", "done"} => check = None
    /\ child \in {"final", "done"} => (outcome = "capped" <=> cap = "confirmed")

\* What is asked, held or confirmed as the main thread's, it was refused.
MainInv ==
    /\ unprobed => mainRefused
    /\ check # None /\ ~check.side => mainRefused
    /\ pending # None /\ ~pending.side => mainRefused
    /\ cap # "none" => mainRefused

\* A check asks the account the session is on, and nothing moves it meanwhile.
CheckInv ==
    ~crossed /\ check # None => check.of = on /\ check.as = on /\ move = None

\* A limit found and not yet acted on: met on metOn, which has answered once
\* more than it was recorded.
ToAct == pending # None \/ (cap = "confirmed" /\ child # "done")
DebtInv ==
    /\ ToAct => metOn # None
    /\ ~crossed /\ ToAct => recorded[metOn] < answers[metOn]
    /\ RecordedIsAnswered

\* What is owed to the ledger is one account's limit, the main thread's, not yet
\* acted on; while a check is out, or being waited for, nothing is. All
\* this unless the wrong login may have been asked.
OwedInv ==
    ~crossed =>
        /\ check # None => owed = {}
        /\ pending # None /\ pending.side => owed = {}
        /\ child = "awaits" /\ cap # "confirmed" => owed = {}
        /\ owed # {} => ToAct \/ cap = "hold"
        /\ owed \subseteq {metOn}

IInv ==
    /\ TypeOK /\ OneAtATime /\ ExitInv /\ MainInv /\ CheckInv /\ DebtInv /\ OwedInv
    /\ MainIsTakenUp

\* The types in three parts: records and accounts, flags, counters.
Questions == [side : BOOLEAN, of : Accounts, as : Accounts]
RecordTypes ==
    /\ check \in {None} \cup Questions
    /\ pending \in {None} \cup [side : BOOLEAN]
    /\ on \in Accounts /\ metOn \in Accounts \cup {None} /\ spent \subseteq Accounts
    /\ move \in {None} \cup [to : Accounts, for : {"switch", "relief"}]
    /\ relief \in {None} \cup [to : Accounts, state : {"moving", "moved", "failed", "busy"}]
FlagTypes ==
    /\ child \in {"up", "gone", "exited", "awaits", "lastAsk", "closing", "final", "done"}
    /\ {killDue, unprobed, meanwhile, mainPaused, sidePaused, switching} \subseteq BOOLEAN
    /\ {loginCheck, signedOut, carryOn, deciding, mainRefused, crossed} \subseteq BOOLEAN
    /\ cap \in {"none", "hold", "confirmed"}
    /\ outcome \in {"none", "switch", "capped", "hold", "needs-login", "ok"}
    /\ owed \subseteq Accounts
CountTypes ==
    /\ walls \in 0 .. Walls - 1 /\ tries \in 0 .. MaxTries /\ refusals \in 0 .. MaxRefusals
    /\ recorded \in [Accounts -> Nat] /\ answers \in [Accounts -> Nat]

LEMMA TypesInParts == TypeOK <=> RecordTypes /\ FlagTypes /\ CountTypes
  BY DEF TypeOK, RecordTypes, Questions, FlagTypes, CountTypes

\* A check begun asks something, and of whom it asks.
LEMMA Question ==
    /\ \A of, as \in Accounts :
          /\ [side |-> TRUE, of |-> of, as |-> as] \in Questions \ {None}
          /\ [side |-> FALSE, of |-> of, as |-> as] \in Questions \ {None}
    /\ \A q \in Questions : q.side \in BOOLEAN /\ q.of \in Accounts /\ q.as \in Accounts
<1>1. ASSUME NEW side \in BOOLEAN, NEW of \in Accounts, NEW as \in Accounts
      PROVE  [side |-> side, of |-> of, as |-> as] \in Questions \ {None}
  <2>1. [side |-> side, of |-> of, as |-> as] \in Questions
    BY DEF Questions
  <2>2. None \notin Questions
    BY CapReliefAssumption DEF Questions
  <2>3. QED
    BY <2>1, <2>2
<1>2. \A q \in Questions : q.side \in BOOLEAN /\ q.of \in Accounts /\ q.as \in Accounts
  BY DEF Questions
<1>3. QED
  BY <1>1, <1>2

LEMMA NewCheck ==
    ASSUME RecordTypes,
           \/ check' = check \/ check' = None
           \/ \E of \in Accounts : \/ check' = [side |-> TRUE, of |-> of, as |-> on]
                                   \/ check' = [side |-> FALSE, of |-> of, as |-> on]
    PROVE  check' \in {None} \cup Questions
<1>1. CASE check' = check \/ check' = None
  BY <1>1 DEF RecordTypes
<1>2. CASE \E of \in Accounts : \/ check' = [side |-> TRUE, of |-> of, as |-> on]
                                \/ check' = [side |-> FALSE, of |-> of, as |-> on]
  <2>1. PICK of \in Accounts : \/ check' = [side |-> TRUE, of |-> of, as |-> on]
                               \/ check' = [side |-> FALSE, of |-> of, as |-> on]
    BY <1>2
  <2>2. on \in Accounts
    BY DEF RecordTypes
  <2>3. QED
    BY <2>1, <2>2, Question
<1>3. QED
  BY <1>1, <1>2

\* The records' types.
LEMMA RecordTypesKept ==
    ASSUME IInv, Next
    PROVE  RecordTypes'
<1> USE CapReliefAssumption, Question, TypesInParts DEF IInv, RecordTypes, FlagTypes,
        CountTypes, Running, Alive, launch, evidence, session, history, world
<1>1. CASE \/ PauseEnds \/ CarryOnDone \/ LoginRefused \/ SwitchByRestart
           \/ CarryOnGivesUp \/ ClaudeEnds \/ Killed \/ Exits \/ Finalizes
           \/ SwapLoop \/ Done
           \/ \E finished \in BOOLEAN : LoginAnswer(finished)
  BY <1>1 DEF PauseEnds, CarryOnDone, LoginRefused, LoginAnswer, SwitchByRestart,
     CarryOnGivesUp, ClaudeEnds, Exits, Finalizes, SwapLoop, Killed, EndsForSwitch,
     Done, vars
<1>2. CASE SubagentRefused
  <2>1. \/ check' = check \/ check' = None
        \/ \E of \in Accounts : \/ check' = [side |-> TRUE, of |-> of, as |-> on]
                                \/ check' = [side |-> FALSE, of |-> of, as |-> on]
    BY <1>2 DEF SubagentRefused, Reads, Checks
  <2>2. check' \in {None} \cup Questions
    BY <2>1, NewCheck
  <2>3. QED
    BY <1>2, <2>2 DEF SubagentRefused
<1>3. CASE \E apart, long \in BOOLEAN : MainRefused(apart, long)
  <2>1. \/ check' = check \/ check' = None
        \/ \E of \in Accounts : \/ check' = [side |-> TRUE, of |-> of, as |-> on]
                                \/ check' = [side |-> FALSE, of |-> of, as |-> on]
    BY <1>3 DEF MainRefused, Reads, Checks
  <2>2. check' \in {None} \cup Questions
    BY <2>1, NewCheck
  <2>3. QED
    BY <1>3, <2>2 DEF MainRefused
<1>4. CASE Refuted
  <2>1. \/ check' = check \/ check' = None
        \/ \E of \in Accounts : \/ check' = [side |-> TRUE, of |-> of, as |-> on]
                                \/ check' = [side |-> FALSE, of |-> of, as |-> on]
    BY <1>4 DEF Refuted, TakesUpMain, FolderLogin
  <2>2. check' \in {None} \cup Questions
    BY <2>1, NewCheck
  <2>3. QED
    BY <1>4, <2>2 DEF Refuted
<1>5. CASE ConfirmedRunning
  BY <1>5 DEF ConfirmedRunning, Answers, MetOn
<1>6. CASE ConfirmedExited
  BY <1>6 DEF ConfirmedExited, Answers, MetOn, TakesUpMain, FolderLogin, NotesCrossing
<1>7. CASE LetsGo
  BY <1>7 DEF LetsGo, Decides
<1>8. CASE \E acc \in Accounts : StartsMove(acc)
  BY <1>8 DEF StartsMove, Relieves, Decides
<1>9. CASE TriesAgain
  BY <1>9 DEF TriesAgain, Relieves, Decides
<1>10. CASE \E prompt \in BOOLEAN : Relieved(prompt)
  BY <1>10 DEF Relieved, Relieves, Decides, Records, Owner
<1>11. CASE NotMoved
  <2>1. \/ check' = check \/ check' = None
        \/ \E of \in Accounts : \/ check' = [side |-> TRUE, of |-> of, as |-> on]
                                \/ check' = [side |-> FALSE, of |-> of, as |-> on]
    BY <1>11 DEF NotMoved, Left, Restarts, TakesUpMain, FolderLogin
  <2>2. check' \in {None} \cup Questions
    BY <2>1, NewCheck
  <2>3. QED
    BY <1>11, <2>2 DEF NotMoved, Left, Restarts
<1>12. CASE \E how \in {"moved", "failed", "busy"} : MoveEnds(how)
  BY <1>12 DEF MoveEnds
<1>13. CASE \E acc \in Accounts : SwitchInPlace(acc)
  BY <1>13 DEF SwitchInPlace, MaySwitch
<1>14. CASE Settles
  <2>1. \/ check' = check \/ check' = None
        \/ \E of \in Accounts : \/ check' = [side |-> TRUE, of |-> of, as |-> on]
                                \/ check' = [side |-> FALSE, of |-> of, as |-> on]
    BY <1>14 DEF Settles, AsksLast, FolderLogin
  <2>2. check' \in {None} \cup Questions
    BY <2>1, NewCheck
  <2>3. QED
    BY <1>14, <2>2 DEF Settles
<1>15. CASE SettlesPending
  <2>1. \/ check' = check \/ check' = None
        \/ \E of \in Accounts : \/ check' = [side |-> TRUE, of |-> of, as |-> on]
                                \/ check' = [side |-> FALSE, of |-> of, as |-> on]
    BY <1>15 DEF SettlesPending, AsksLast, FolderLogin
  <2>2. check' \in {None} \cup Questions
    BY <2>1, NewCheck
  <2>3. QED
    BY <1>15, <2>2 DEF SettlesPending
<1>16. CASE Awaited
  <2>1. \/ check' = check \/ check' = None
        \/ \E of \in Accounts : \/ check' = [side |-> TRUE, of |-> of, as |-> on]
                                \/ check' = [side |-> FALSE, of |-> of, as |-> on]
    BY <1>16 DEF Awaited, AsksLast, FolderLogin
  <2>2. check' \in {None} \cup Questions
    BY <2>1, NewCheck
  <2>3. QED
    BY <1>16, <2>2 DEF Awaited
<1>17. CASE \E limited \in BOOLEAN : LastAnswer(limited)
  BY <1>17 DEF LastAnswer, MetOn
<1>18. QED
  BY <1>1, <1>2, <1>3, <1>4, <1>5, <1>6, <1>7, <1>8, <1>9, <1>10, <1>11, <1>12, <1>13,
     <1>14, <1>15, <1>16, <1>17 DEF Next, Acts, Answered, Ended

\* The types of the flags and of what is owed.
LEMMA FlagTypesKept ==
    ASSUME IInv, Next
    PROVE  FlagTypes'
<1> USE CapReliefAssumption, Question, TypesInParts DEF IInv, RecordTypes, FlagTypes,
        CountTypes, ExitInv, Running, Alive, launch, evidence, session, history, world
<1>1. CASE \/ LetsGo \/ TriesAgain \/ Done
           \/ \E acc \in Accounts : StartsMove(acc)
           \/ \E how \in {"moved", "failed", "busy"} : MoveEnds(how)
           \/ \E acc \in Accounts : SwitchInPlace(acc)
  BY <1>1 DEF LetsGo, StartsMove, TriesAgain, MoveEnds, SwitchInPlace, Done, vars
<1>2. CASE SubagentRefused
  BY <1>2 DEF SubagentRefused, Reads, Checks
<1>3. CASE \E apart, long \in BOOLEAN : MainRefused(apart, long)
  BY <1>3 DEF MainRefused, Reads, Checks
<1>4. CASE PauseEnds
  BY <1>4 DEF PauseEnds
<1>5. CASE CarryOnDone
  BY <1>5 DEF CarryOnDone
<1>6. CASE LoginRefused
  BY <1>6 DEF LoginRefused
<1>7. CASE \E finished \in BOOLEAN : LoginAnswer(finished)
  BY <1>7 DEF LoginAnswer
<1>8. CASE Refuted
  BY <1>8 DEF Refuted, TakesUpMain, FolderLogin, NotesCrossing
<1>9. CASE ConfirmedRunning
  BY <1>9 DEF ConfirmedRunning, Answers, MetOn
<1>10. CASE ConfirmedExited
  BY <1>10, ZenonT(40) DEF ConfirmedExited, Answers, MetOn, TakesUpMain, FolderLogin, NotesCrossing
<1>11. CASE \E prompt \in BOOLEAN : Relieved(prompt)
  BY <1>11 DEF Relieved, Relieves, Decides, Records, Owner
<1>12. CASE NotMoved
  BY <1>12 DEF NotMoved, Decides, Left, Restarts, TakesUpMain, FolderLogin,
     NotesCrossing
<1>13. CASE SwitchByRestart
  BY <1>13 DEF SwitchByRestart, MaySwitch, EndsForSwitch
<1>14. CASE CarryOnGivesUp
  BY <1>14 DEF CarryOnGivesUp, EndsForSwitch
<1>15. CASE ClaudeEnds \/ Killed
  BY <1>15 DEF ClaudeEnds, Killed
<1>16. CASE Exits
  BY <1>16 DEF Exits
<1>17. CASE Settles
  BY <1>17 DEF Settles, AsksLast, FolderLogin, NotesCrossing
<1>18. CASE SettlesPending
  BY <1>18 DEF SettlesPending, AsksLast, FolderLogin, NotesCrossing
<1>19. CASE Awaited
  BY <1>19 DEF Awaited, AsksLast, FolderLogin, NotesCrossing
<1>20. CASE \E limited \in BOOLEAN : LastAnswer(limited)
  <2>1. check.of \in Accounts
    BY <1>20 DEF LastAnswer
  <2>2. QED
    BY <1>20, <2>1, ZenonT(40) DEF LastAnswer
<1>21. CASE Finalizes
  BY <1>21 DEF Finalizes
<1>22. CASE SwapLoop
  BY <1>22 DEF SwapLoop, Records, Owner
<1>23. QED
  BY <1>1, <1>2, <1>3, <1>4, <1>5, <1>6, <1>7, <1>8, <1>9, <1>10, <1>11, <1>12, <1>13,
     <1>14, <1>15, <1>16, <1>17, <1>18, <1>19, <1>20, <1>21, <1>22 DEF Next, Acts,
     Answered, Ended

\* The counters stay in their bounds.
LEMMA CountTypesKept ==
    ASSUME IInv, Next
    PROVE  CountTypes'
<1> USE CapReliefAssumption, Question, TypesInParts DEF IInv, RecordTypes, FlagTypes,
        CountTypes, ExitInv, Running, Alive, launch, evidence, session, history, world
<1>1. CASE \/ PauseEnds \/ CarryOnDone \/ LoginRefused \/ Refuted \/ LetsGo
           \/ SwitchByRestart \/ CarryOnGivesUp \/ ClaudeEnds \/ Killed \/ Exits
           \/ Settles \/ SettlesPending \/ Awaited \/ Finalizes \/ Done
           \/ \E finished \in BOOLEAN : LoginAnswer(finished)
           \/ \E acc \in Accounts : StartsMove(acc)
           \/ \E how \in {"moved", "failed", "busy"} : MoveEnds(how)
           \/ \E acc \in Accounts : SwitchInPlace(acc)
  BY <1>1 DEF PauseEnds, CarryOnDone, LoginRefused, LoginAnswer, Refuted, LetsGo,
     StartsMove, MoveEnds, SwitchInPlace, SwitchByRestart, CarryOnGivesUp, ClaudeEnds,
     Exits, Settles, SettlesPending, Awaited, Finalizes, Killed, EndsForSwitch, Done,
     vars
<1>2. CASE SubagentRefused
  BY <1>2 DEF SubagentRefused, Reads, Checks
<1>3. CASE \E apart, long \in BOOLEAN : MainRefused(apart, long)
  BY <1>3 DEF MainRefused, Reads, Checks
<1>4. CASE ConfirmedRunning
  BY <1>4 DEF ConfirmedRunning, Answers, MetOn
<1>5. CASE ConfirmedExited
  BY <1>5 DEF ConfirmedExited, Answers, MetOn, TakesUpMain, FolderLogin, NotesCrossing
<1>6. CASE TriesAgain
  BY <1>6 DEF TriesAgain, Relieves, Decides
<1>7. CASE \E prompt \in BOOLEAN : Relieved(prompt)
  BY <1>7 DEF Relieved, Relieves, Decides, Records, Owner
<1>8. CASE NotMoved
  BY <1>8 DEF NotMoved, Decides, Left, Restarts, TakesUpMain, FolderLogin, NotesCrossing
<1>9. CASE \E limited \in BOOLEAN : LastAnswer(limited)
  BY <1>9 DEF LastAnswer, MetOn
<1>10. CASE SwapLoop
  BY <1>10 DEF SwapLoop, Records, Owner
<1>11. QED
  BY <1>1, <1>2, <1>3, <1>4, <1>5, <1>6, <1>7, <1>8, <1>9, <1>10 DEF Next, Acts,
     Answered, Ended

\* One thing at a time.
LEMMA OneAtATimeKept ==
    ASSUME IInv, Next
    PROVE  OneAtATime'
<1> USE CapReliefAssumption, Question, TypesInParts DEF IInv, RecordTypes, FlagTypes,
        CountTypes, OneAtATime, ExitInv, Running, Alive, launch, evidence, session,
        history, world
<1>1. CASE \/ PauseEnds \/ CarryOnDone \/ LoginRefused \/ TriesAgain \/ ClaudeEnds
           \/ Killed \/ Exits \/ Finalizes \/ Done
           \/ \E finished \in BOOLEAN : LoginAnswer(finished)
           \/ \E acc \in Accounts : StartsMove(acc)
           \/ \E how \in {"moved", "failed", "busy"} : MoveEnds(how)
           \/ \E acc \in Accounts : SwitchInPlace(acc)
  BY <1>1 DEF PauseEnds, CarryOnDone, LoginRefused, LoginAnswer, StartsMove, TriesAgain,
     MoveEnds, SwitchInPlace, ClaudeEnds, Exits, Finalizes, Killed, Done, vars
<1>2. CASE SubagentRefused
  BY <1>2 DEF SubagentRefused, Reads, Checks
<1>3. CASE \E apart, long \in BOOLEAN : MainRefused(apart, long)
  BY <1>3 DEF MainRefused, Reads, Checks
<1>4. CASE Refuted
  BY <1>4 DEF Refuted, TakesUpMain, FolderLogin, NotesCrossing
<1>5. CASE ConfirmedRunning
  BY <1>5 DEF ConfirmedRunning, Answers, MetOn
<1>6. CASE ConfirmedExited
  BY <1>6 DEF ConfirmedExited, Answers, MetOn, TakesUpMain, FolderLogin, NotesCrossing
<1>7. CASE LetsGo
  BY <1>7 DEF LetsGo, Decides
<1>8. CASE \E prompt \in BOOLEAN : Relieved(prompt)
  BY <1>8 DEF Relieved, Relieves, Decides, Records, Owner
<1>9. CASE NotMoved
  BY <1>9 DEF NotMoved, Decides, Left, Restarts, TakesUpMain, FolderLogin, NotesCrossing
<1>10. CASE SwitchByRestart
  BY <1>10 DEF SwitchByRestart, MaySwitch, EndsForSwitch
<1>11. CASE CarryOnGivesUp
  BY <1>11 DEF CarryOnGivesUp, EndsForSwitch
<1>12. CASE Settles
  BY <1>12 DEF Settles, AsksLast, FolderLogin, NotesCrossing
<1>13. CASE SettlesPending
  BY <1>13 DEF SettlesPending, AsksLast, FolderLogin, NotesCrossing
<1>14. CASE Awaited
  BY <1>14 DEF Awaited, AsksLast, FolderLogin, NotesCrossing
<1>15. CASE \E limited \in BOOLEAN : LastAnswer(limited)
  BY <1>15 DEF LastAnswer, MetOn
<1>16. CASE SwapLoop
  BY <1>16 DEF SwapLoop, Records, Owner
<1>17. QED
  BY <1>1, <1>2, <1>3, <1>4, <1>5, <1>6, <1>7, <1>8, <1>9, <1>10, <1>11, <1>12, <1>13,
     <1>14, <1>15, <1>16 DEF Next, Acts, Answered, Ended

\* The exit.
LEMMA ExitInvKept ==
    ASSUME IInv, Next
    PROVE  ExitInv'
<1> USE CapReliefAssumption, Question, TypesInParts DEF IInv, RecordTypes, FlagTypes,
        CountTypes, ExitInv, OneAtATime, Running, Alive, launch, evidence, session,
        history, world
<1>1. CASE \/ PauseEnds \/ CarryOnDone \/ LoginRefused \/ TriesAgain \/ Done
           \/ \E finished \in BOOLEAN : LoginAnswer(finished)
           \/ \E acc \in Accounts : StartsMove(acc)
           \/ \E how \in {"moved", "failed", "busy"} : MoveEnds(how)
           \/ \E acc \in Accounts : SwitchInPlace(acc)
  BY <1>1 DEF PauseEnds, CarryOnDone, LoginRefused, LoginAnswer, StartsMove, TriesAgain,
     MoveEnds, SwitchInPlace, Done, vars
<1>2. CASE SubagentRefused
  BY <1>2 DEF SubagentRefused, Reads, Checks
<1>3. CASE \E apart, long \in BOOLEAN : MainRefused(apart, long)
  BY <1>3 DEF MainRefused, Reads, Checks
<1>4. CASE Refuted
  BY <1>4 DEF Refuted, TakesUpMain, FolderLogin, NotesCrossing
<1>5. CASE ConfirmedRunning
  BY <1>5 DEF ConfirmedRunning, Answers, MetOn
<1>6. CASE ConfirmedExited
  BY <1>6 DEF ConfirmedExited, Answers, MetOn, TakesUpMain, FolderLogin, NotesCrossing
<1>7. CASE LetsGo
  BY <1>7 DEF LetsGo, Decides
<1>8. CASE \E prompt \in BOOLEAN : Relieved(prompt)
  BY <1>8 DEF Relieved, Relieves, Decides, Records, Owner
<1>9. CASE NotMoved
  BY <1>9 DEF NotMoved, Decides, Left, Restarts, TakesUpMain, FolderLogin, NotesCrossing
<1>10. CASE SwitchByRestart
  BY <1>10 DEF SwitchByRestart, MaySwitch, EndsForSwitch
<1>11. CASE CarryOnGivesUp
  BY <1>11 DEF CarryOnGivesUp, EndsForSwitch
<1>12. CASE ClaudeEnds \/ Killed
  BY <1>12 DEF ClaudeEnds, Killed
<1>13. CASE Exits
  BY <1>13 DEF Exits
<1>14. CASE Settles
  BY <1>14, ZenonT(40) DEF Settles, AsksLast, FolderLogin, NotesCrossing
<1>15. CASE SettlesPending
  <2>1. pending' = None /\ pending # None /\ child = "exited" /\ switching' = switching
    BY <1>15 DEF SettlesPending
  <2>2. CASE child' = "closing"
    BY <1>15, <2>1, <2>2 DEF SettlesPending, AsksLast
  <2>3. CASE child' # "closing"
    <3>1. /\ child' = "lastAsk"
          /\ \E of \in Accounts : check' = [side |-> FALSE, of |-> of, as |-> on]
      BY <1>15, <2>3 DEF SettlesPending, AsksLast, FolderLogin
    <3>2. QED
      BY <2>1, <3>1
  <2>4. QED
    BY <2>2, <2>3
<1>16. CASE Awaited
  BY <1>16, ZenonT(40) DEF Awaited, AsksLast, FolderLogin, NotesCrossing
<1>17. CASE \E limited \in BOOLEAN : LastAnswer(limited)
  BY <1>17 DEF LastAnswer, MetOn
<1>18. CASE Finalizes
  BY <1>18 DEF Finalizes
<1>19. CASE SwapLoop
  BY <1>19 DEF SwapLoop, Records, Owner
<1>20. QED
  BY <1>1, <1>2, <1>3, <1>4, <1>5, <1>6, <1>7, <1>8, <1>9, <1>10, <1>11, <1>12, <1>13,
     <1>14, <1>15, <1>16, <1>17, <1>18, <1>19 DEF Next, Acts, Answered, Ended

\* What is the main thread's.
LEMMA MainInvKept ==
    ASSUME IInv, Next
    PROVE  MainInv'
<1> USE CapReliefAssumption, Question, TypesInParts DEF IInv, RecordTypes, FlagTypes,
        CountTypes, MainInv, OneAtATime, ExitInv, Running, Alive, launch, evidence,
        session, history, world
<1>1. CASE \/ PauseEnds \/ CarryOnDone \/ LoginRefused \/ TriesAgain
           \/ SwitchByRestart \/ CarryOnGivesUp \/ ClaudeEnds \/ Killed \/ Exits
           \/ Finalizes \/ SwapLoop \/ Done
           \/ \E finished \in BOOLEAN : LoginAnswer(finished)
           \/ \E acc \in Accounts : StartsMove(acc)
           \/ \E how \in {"moved", "failed", "busy"} : MoveEnds(how)
           \/ \E acc \in Accounts : SwitchInPlace(acc)
  BY <1>1 DEF PauseEnds, CarryOnDone, LoginRefused, LoginAnswer, StartsMove, TriesAgain,
     MoveEnds, SwitchInPlace, SwitchByRestart, CarryOnGivesUp, ClaudeEnds, Exits,
     Finalizes, SwapLoop, Killed, EndsForSwitch, Done, vars
<1>2. CASE SubagentRefused
  BY <1>2 DEF SubagentRefused, Reads, Checks
<1>3. CASE \E apart, long \in BOOLEAN : MainRefused(apart, long)
  BY <1>3 DEF MainRefused, Reads, Checks
<1>4. CASE Refuted
  BY <1>4 DEF Refuted, TakesUpMain, FolderLogin, NotesCrossing
<1>5. CASE ConfirmedRunning
  BY <1>5 DEF ConfirmedRunning, Answers, MetOn
<1>6. CASE ConfirmedExited
  BY <1>6 DEF ConfirmedExited, Answers, MetOn, TakesUpMain, FolderLogin, NotesCrossing
<1>7. CASE LetsGo
  BY <1>7 DEF LetsGo, Decides
<1>8. CASE \E prompt \in BOOLEAN : Relieved(prompt)
  BY <1>8 DEF Relieved, Relieves, Decides, Records, Owner
<1>9. CASE NotMoved
  BY <1>9 DEF NotMoved, Decides, Left, Restarts, TakesUpMain, FolderLogin, NotesCrossing
<1>10. CASE Settles
  BY <1>10 DEF Settles, AsksLast, FolderLogin, NotesCrossing
<1>11. CASE SettlesPending
  BY <1>11 DEF SettlesPending, AsksLast, FolderLogin, NotesCrossing
<1>12. CASE Awaited
  BY <1>12 DEF Awaited, AsksLast, FolderLogin, NotesCrossing
<1>13. CASE \E limited \in BOOLEAN : LastAnswer(limited)
  BY <1>13 DEF LastAnswer, MetOn
<1>14. QED
  BY <1>1, <1>2, <1>3, <1>4, <1>5, <1>6, <1>7, <1>8, <1>9, <1>10, <1>11, <1>12, <1>13
     DEF Next, Acts, Answered, Ended

\* Whom a check asks.
LEMMA CheckInvKept ==
    ASSUME IInv, Next
    PROVE  CheckInv'
<1> USE CapReliefAssumption, Question, TypesInParts DEF IInv, RecordTypes, FlagTypes,
        CountTypes, CheckInv, OneAtATime, Running, Alive, launch, evidence, session,
        history, world
<1>1. CASE \/ PauseEnds \/ CarryOnDone \/ LoginRefused \/ LetsGo \/ TriesAgain
           \/ SwitchByRestart \/ CarryOnGivesUp \/ ClaudeEnds \/ Killed \/ Exits
           \/ Finalizes \/ SwapLoop \/ Done
           \/ \E finished \in BOOLEAN : LoginAnswer(finished)
           \/ \E prompt \in BOOLEAN : Relieved(prompt)
  BY <1>1 DEF PauseEnds, CarryOnDone, LoginRefused, LoginAnswer, LetsGo, TriesAgain,
     Relieved, SwitchByRestart, CarryOnGivesUp, ClaudeEnds, Exits, Finalizes, SwapLoop,
     Killed, EndsForSwitch, Done, vars
<1>2. CASE SubagentRefused
  BY <1>2 DEF SubagentRefused, Reads, Checks
<1>3. CASE \E apart, long \in BOOLEAN : MainRefused(apart, long)
  BY <1>3 DEF MainRefused, Reads, Checks
<1>4. CASE Refuted
  BY <1>4 DEF Refuted, TakesUpMain, FolderLogin, NotesCrossing
<1>5. CASE ConfirmedRunning
  BY <1>5 DEF ConfirmedRunning, Answers, MetOn
<1>6. CASE ConfirmedExited
  BY <1>6 DEF ConfirmedExited, Answers, MetOn, TakesUpMain, FolderLogin, NotesCrossing
<1>7. CASE \E acc \in Accounts : StartsMove(acc)
  BY <1>7 DEF StartsMove, Relieves, Decides
<1>8. CASE NotMoved
  BY <1>8 DEF NotMoved, Decides, Left, Restarts, TakesUpMain, FolderLogin, NotesCrossing
<1>9. CASE \E how \in {"moved", "failed", "busy"} : MoveEnds(how)
  BY <1>9 DEF MoveEnds
<1>10. CASE \E acc \in Accounts : SwitchInPlace(acc)
  BY <1>10 DEF SwitchInPlace, MaySwitch
<1>11. CASE Settles
  BY <1>11 DEF Settles, AsksLast, FolderLogin, NotesCrossing
<1>12. CASE SettlesPending
  BY <1>12 DEF SettlesPending, AsksLast, FolderLogin, NotesCrossing
<1>13. CASE Awaited
  BY <1>13 DEF Awaited, AsksLast, FolderLogin, NotesCrossing
<1>14. CASE \E limited \in BOOLEAN : LastAnswer(limited)
  BY <1>14 DEF LastAnswer, MetOn
<1>15. QED
  BY <1>1, <1>2, <1>3, <1>4, <1>5, <1>6, <1>7, <1>8, <1>9, <1>10, <1>11, <1>12, <1>13,
     <1>14 DEF Next, Acts, Answered, Ended

\* What is found and not yet recorded.
LEMMA DebtInvKept ==
    ASSUME IInv, Next
    PROVE  DebtInv'
<1> USE CapReliefAssumption, Question, TypesInParts DEF IInv, RecordTypes, FlagTypes,
        CountTypes, DebtInv, OneAtATime, ExitInv, CheckInv, ToAct, RecordedIsAnswered,
        Running, Alive, launch, evidence, session, history, world
<1>1. CASE \/ SubagentRefused \/ PauseEnds \/ CarryOnDone \/ LoginRefused
           \/ TriesAgain \/ SwitchByRestart \/ CarryOnGivesUp \/ Done
           \/ \E finished \in BOOLEAN : LoginAnswer(finished)
           \/ \E acc \in Accounts : StartsMove(acc)
           \/ \E how \in {"moved", "failed", "busy"} : MoveEnds(how)
           \/ \E acc \in Accounts : SwitchInPlace(acc)
  BY <1>1 DEF SubagentRefused, PauseEnds, CarryOnDone, LoginRefused, LoginAnswer,
     StartsMove, TriesAgain, MoveEnds, SwitchInPlace, SwitchByRestart, CarryOnGivesUp,
     EndsForSwitch, Done, vars
<1>2. CASE \E apart, long \in BOOLEAN : MainRefused(apart, long)
  BY <1>2 DEF MainRefused, Reads, Checks
<1>3. CASE Refuted
  BY <1>3 DEF Refuted, TakesUpMain, FolderLogin, NotesCrossing
<1>4. CASE ConfirmedRunning
  BY <1>4 DEF ConfirmedRunning, Answers, MetOn
<1>5. CASE ConfirmedExited
  BY <1>5 DEF ConfirmedExited, Answers, MetOn, TakesUpMain, FolderLogin, NotesCrossing
<1>6. CASE LetsGo
  BY <1>6 DEF LetsGo, Decides
<1>7. CASE \E prompt \in BOOLEAN : Relieved(prompt)
  BY <1>7 DEF Relieved, Relieves, Decides, Records, Owner
<1>8. CASE NotMoved
  BY <1>8 DEF NotMoved, Decides, Left, Restarts, TakesUpMain, FolderLogin, NotesCrossing
<1>9. CASE ClaudeEnds \/ Killed
  BY <1>9 DEF ClaudeEnds, Killed
<1>10. CASE Exits
  BY <1>10 DEF Exits
<1>11. CASE Settles
  BY <1>11 DEF Settles, AsksLast, FolderLogin, NotesCrossing
<1>12. CASE SettlesPending
  BY <1>12 DEF SettlesPending, AsksLast, FolderLogin, NotesCrossing
<1>13. CASE Awaited
  BY <1>13 DEF Awaited, AsksLast, FolderLogin, NotesCrossing
<1>14. CASE \E limited \in BOOLEAN : LastAnswer(limited)
  BY <1>14 DEF LastAnswer, MetOn
<1>15. CASE Finalizes
  BY <1>15 DEF Finalizes
<1>16. CASE SwapLoop
  BY <1>16 DEF SwapLoop, Records, Owner
<1>17. QED
  BY <1>1, <1>2, <1>3, <1>4, <1>5, <1>6, <1>7, <1>8, <1>9, <1>10, <1>11, <1>12, <1>13,
     <1>14, <1>15, <1>16 DEF Next, Acts, Answered, Ended

\* What is owed to the ledger.
LEMMA OwedInvKept ==
    ASSUME IInv, Next
    PROVE  OwedInv'
<1> USE CapReliefAssumption, Question, TypesInParts DEF IInv, RecordTypes, FlagTypes,
        CountTypes, OwedInv, OneAtATime, ExitInv, CheckInv, DebtInv, ToAct, Running,
        Alive, launch, evidence, session, history, world
<1>1. CASE \/ PauseEnds \/ CarryOnDone \/ LoginRefused \/ TriesAgain
           \/ SwitchByRestart \/ CarryOnGivesUp \/ Done
           \/ \E finished \in BOOLEAN : LoginAnswer(finished)
           \/ \E acc \in Accounts : StartsMove(acc)
           \/ \E how \in {"moved", "failed", "busy"} : MoveEnds(how)
           \/ \E acc \in Accounts : SwitchInPlace(acc)
  BY <1>1 DEF PauseEnds, CarryOnDone, LoginRefused, LoginAnswer, StartsMove, TriesAgain,
     MoveEnds, SwitchInPlace, SwitchByRestart, CarryOnGivesUp, EndsForSwitch, Done, vars
<1>2. CASE SubagentRefused
  BY <1>2 DEF SubagentRefused, Reads, Checks
<1>3. CASE \E apart, long \in BOOLEAN : MainRefused(apart, long)
  BY <1>3 DEF MainRefused, Reads, Checks
<1>4. CASE Refuted
  BY <1>4 DEF Refuted, TakesUpMain, FolderLogin, NotesCrossing
<1>5. CASE ConfirmedRunning
  BY <1>5 DEF ConfirmedRunning, Answers, MetOn
<1>6. CASE ConfirmedExited
  BY <1>6 DEF ConfirmedExited, Answers, MetOn, TakesUpMain, FolderLogin, NotesCrossing
<1>7. CASE LetsGo
  BY <1>7 DEF LetsGo, Decides
<1>8. CASE \E prompt \in BOOLEAN : Relieved(prompt)
  BY <1>8 DEF Relieved, Relieves, Decides, Records, Owner
<1>9. CASE NotMoved
  BY <1>9 DEF NotMoved, Decides, Left, Restarts, TakesUpMain, FolderLogin, NotesCrossing
<1>10. CASE ClaudeEnds \/ Killed
  BY <1>10 DEF ClaudeEnds, Killed
<1>11. CASE Exits
  BY <1>11 DEF Exits
<1>12. CASE Settles
  BY <1>12 DEF Settles, AsksLast, FolderLogin, NotesCrossing
<1>13. CASE SettlesPending
  BY <1>13 DEF SettlesPending, AsksLast, FolderLogin, NotesCrossing
<1>14. CASE Awaited
  BY <1>14 DEF Awaited, AsksLast, FolderLogin, NotesCrossing
<1>15. CASE \E limited \in BOOLEAN : LastAnswer(limited)
  BY <1>15 DEF LastAnswer, MetOn
<1>16. CASE Finalizes
  BY <1>16 DEF Finalizes
<1>17. CASE SwapLoop
  BY <1>17 DEF SwapLoop, Records, Owner
<1>18. QED
  BY <1>1, <1>2, <1>3, <1>4, <1>5, <1>6, <1>7, <1>8, <1>9, <1>10, <1>11, <1>12, <1>13,
     <1>14, <1>15, <1>16, <1>17 DEF Next, Acts, Answered, Ended

\* The main thread's held refusal.
LEMMA MainIsTakenUpKept ==
    ASSUME IInv, Next
    PROVE  MainIsTakenUp'
<1> USE CapReliefAssumption, Question, TypesInParts DEF IInv, RecordTypes, FlagTypes,
        CountTypes, MainIsTakenUp, OneAtATime, ExitInv, Running, Alive, launch,
        evidence, session, history, world
<1>1. CASE \/ PauseEnds \/ CarryOnDone \/ LoginRefused \/ TriesAgain
           \/ SwitchByRestart \/ CarryOnGivesUp \/ Done
           \/ \E finished \in BOOLEAN : LoginAnswer(finished)
           \/ \E acc \in Accounts : StartsMove(acc)
           \/ \E how \in {"moved", "failed", "busy"} : MoveEnds(how)
           \/ \E acc \in Accounts : SwitchInPlace(acc)
  BY <1>1 DEF PauseEnds, CarryOnDone, LoginRefused, LoginAnswer, StartsMove, TriesAgain,
     MoveEnds, SwitchInPlace, SwitchByRestart, CarryOnGivesUp, EndsForSwitch, Done, vars
<1>2. CASE SubagentRefused
  BY <1>2 DEF SubagentRefused, Reads, Checks
<1>3. CASE \E apart, long \in BOOLEAN : MainRefused(apart, long)
  BY <1>3 DEF MainRefused, Reads, Checks
<1>4. CASE Refuted
  BY <1>4 DEF Refuted, TakesUpMain, FolderLogin, NotesCrossing
<1>5. CASE ConfirmedRunning
  BY <1>5 DEF ConfirmedRunning, Answers, MetOn
<1>6. CASE ConfirmedExited
  BY <1>6 DEF ConfirmedExited, Answers, MetOn, TakesUpMain, FolderLogin, NotesCrossing
<1>7. CASE LetsGo
  BY <1>7 DEF LetsGo, Decides
<1>8. CASE \E prompt \in BOOLEAN : Relieved(prompt)
  BY <1>8 DEF Relieved, Relieves, Decides, Records, Owner
<1>9. CASE NotMoved
  BY <1>9 DEF NotMoved, Decides, Left, Restarts, TakesUpMain, FolderLogin, NotesCrossing
<1>10. CASE ClaudeEnds \/ Killed
  BY <1>10 DEF ClaudeEnds, Killed
<1>11. CASE Exits
  BY <1>11 DEF Exits
<1>12. CASE Settles
  BY <1>12 DEF Settles, AsksLast, FolderLogin, NotesCrossing
<1>13. CASE SettlesPending
  BY <1>13 DEF SettlesPending, AsksLast, FolderLogin, NotesCrossing
<1>14. CASE Awaited
  BY <1>14 DEF Awaited, AsksLast, FolderLogin, NotesCrossing
<1>15. CASE \E limited \in BOOLEAN : LastAnswer(limited)
  BY <1>15 DEF LastAnswer, MetOn
<1>16. CASE Finalizes
  BY <1>16 DEF Finalizes
<1>17. CASE SwapLoop
  BY <1>17 DEF SwapLoop, Records, Owner
<1>18. QED
  BY <1>1, <1>2, <1>3, <1>4, <1>5, <1>6, <1>7, <1>8, <1>9, <1>10, <1>11, <1>12, <1>13,
     <1>14, <1>15, <1>16, <1>17 DEF Next, Acts, Answered, Ended

-----------------------------------------------------------------------------

LEMMA StartsRight == Init => IInv
<1> SUFFICES ASSUME Init PROVE IInv
  OBVIOUS
<1>1. RecordTypes /\ FlagTypes
  BY DEF Init, RecordTypes, FlagTypes
<1>2. CountTypes /\ RecordedIsAnswered
  BY CapReliefAssumption DEF Init, CountTypes, RecordedIsAnswered
<1>3. OneAtATime /\ ExitInv /\ MainInv /\ CheckInv /\ DebtInv /\ OwedInv /\ MainIsTakenUp
  BY <1>2
  DEF Init, OneAtATime, ExitInv, MainInv, CheckInv, DebtInv, OwedInv, ToAct, MainIsTakenUp
<1>4. QED
  BY <1>1, <1>2, <1>3, TypesInParts DEF IInv

LEMMA Steps == IInv /\ [Next]_vars => IInv'
<1>1. ASSUME IInv, UNCHANGED vars PROVE IInv'
  BY <1>1
  DEF vars, launch, evidence, session, history, world, IInv, TypeOK, OneAtATime, ExitInv,
      MainInv, CheckInv, DebtInv, OwedInv, ToAct, MainIsTakenUp, RecordedIsAnswered, Running
<1>2. ASSUME IInv, Next PROVE IInv'
  <2>1. TypeOK'
    BY <1>2, RecordTypesKept, FlagTypesKept, CountTypesKept
    DEF TypeOK, RecordTypes, FlagTypes, CountTypes, Questions
  <2>2. QED
    BY <1>2, <2>1, OneAtATimeKept, ExitInvKept, MainInvKept, CheckInvKept, DebtInvKept,
       OwedInvKept, MainIsTakenUpKept
    DEF IInv
<1>3. QED
  BY <1>1, <1>2

\* The types hold, a confirmed limit is recorded once, of its account, and
\* neither a switch, an exit nor a subagent keeps it from being answered: once
\* the launch is over nothing is left to act on, so nothing is owed either.
THEOREM ReliefIsRecorded == Spec => []Inv
<1>1. IInv => Inv
  BY DEF IInv, Inv, OneAtATime, ExitInv, MainInv, DebtInv, OwedInv, ToAct, SwitchesWait,
     SubagentsEndNothing, ConfirmedIsRecorded, Running
<1>2. QED
  BY <1>1, StartsRight, Steps, PTL DEF Spec

-----------------------------------------------------------------------------
(* Carrying on *)

\* A box the last key says is empty holds no draft.
BoxInv ==
    /\ keys.last = "never" => ~box.draft
    /\ keys.last = "enter" /\ (record.sinceKey \/ "sinceKey" \in record.unread) => ~box.draft

\* What was typed and is in the box still, nothing says was taken but a turn that
\* began by itself.
UntakenInv ==
    carry # None /\ carry.typed # None /\ box.ours > 0 =>
        /\ ~record.sinceTyped /\ "sinceTyped" \notin record.unread
        /\ claude.at = "busy" => "woke" \in wrong
        /\ carry.taken => "misread" \in wrong

\* Nothing is in the box when the prompt is to be typed, but as TypesAlone says,
\* and there is a try left.
TriesInv ==
    carry # None /\ carry.typed = None =>
        /\ ~carry.tooOften => carry.attempts < MaxAttempts
        /\ box.ours > 0 => wrong \cap {"misread", "moved"} # {}

PromptInv ==
    Carry!TypeOK /\ BoxInv /\ UntakenInv /\ TriesInv /\ Carry!TypesAlone /\ Carry!DeliveredIsTaken

-----------------------------------------------------------------------------

LEMMA CapIs ==
    /\ Carry!Cap \in Nat
    /\ \A t \in {Pickup, Settle, Submit, Answer, Blocked, Retry, IdleFor} : t <= Carry!Cap
<1> DEFINE S == {Pickup, Settle, Submit, Answer, Blocked, Retry, IdleFor}
           Max2(x, y) == IF x >= y THEN x ELSE y
           M == Max2(Pickup, Max2(Settle, Max2(Submit, Max2(Answer, Max2(Blocked, Max2(Retry, IdleFor))))))
<1>1. S \subseteq Nat
  BY CarryOnAssumption
<1>2. \A x, y \in Nat : Max2(x, y) \in {x, y} /\ x <= Max2(x, y) /\ y <= Max2(x, y)
  OBVIOUS
<1>3. M \in S /\ \A y \in S : y <= M
  BY <1>1
<1>4. Carry!Cap \in S /\ \A y \in S : y <= Carry!Cap
  BY <1>3 DEF Carry!Cap, Carry!Largest
<1>5. QED
  BY <1>1, <1>4

LEMMA Counted ==
    /\ \A n \in 0..Carry!Cap : Carry!Older(n) \in 0..Carry!Cap
    /\ \A n \in 0..Carry!Cap : \A t \in {Answer, Blocked, Retry, IdleFor} :
          Carry!Upto(n, t) \in 0..Carry!Cap
BY CapIs, CarryOnAssumption DEF Carry!Older, Carry!Upto

LEMMA PromptTypes == PromptInv /\ [Carry!Next]_(Carry!vars) => Carry!TypeOK'
<1> SUFFICES ASSUME PromptInv, [Carry!Next]_(Carry!vars) PROVE Carry!TypeOK'
  OBVIOUS
<1> USE DEF Carry!Goes, Carry!Writes, Carry!Happens, Carry!world, Carry!Wrongs
<1> DEFINE Places == /\ promptChild \in {"up", "relaunch", "switch", "over"}
                     /\ claude \in [at : {"idle", "shell", "busy", "dialog", "menu"},
                                    since : 0 .. Carry!Cap, says : BOOLEAN, marks : BOOLEAN]
                     /\ box \in [draft : BOOLEAN, ours : Nat]
                     /\ keys \in [last : {"never", "enter", "other"}, moved : BOOLEAN]
           Seen == /\ record \in [sinceKey : BOOLEAN, sinceTyped : BOOLEAN,
                          unread : SUBSET {"sinceKey", "sinceTyped", "refused", "subagent"}]
                   /\ quiet \in 0 .. Carry!Cap /\ watched \in 0 .. Carry!Cap
           Prompt == carry \in Carry!CarryRecord \cup {None} /\ checking \in BOOLEAN
           Ends == ends \subseteq {"delivered", "attended", "left", "relaunch"}
                   /\ wrong \subseteq Carry!Wrongs
           Fine == Places /\ Seen /\ Prompt /\ Ends
<1>0. Fine /\ Carry!Cap \in Nat /\ 0 \in 0..Carry!Cap /\ TriesInv
  BY CapIs DEF PromptInv, Carry!TypeOK
<1>a. SUFFICES Fine'
  BY DEF Carry!TypeOK
<1>1. CASE Carry!Time
  <2>1. Places' /\ Seen' /\ Ends'
    BY <1>0, <1>1, Counted DEF Carry!Time, Carry!Upto
  <2>2. Prompt'
    <3>1. CASE carry = None
      BY <1>0, <1>1, <3>1 DEF Carry!Time
    <3>2. CASE carry # None
      <4> DEFINE typed == IF carry.typed = None THEN None ELSE Carry!Upto(carry.typed, Answer)
                 blocked == IF carry.blocked = None THEN None ELSE Carry!Upto(carry.blocked, Blocked)
                 dismissed == Carry!Upto(carry.dismissed, Retry)
                 wait == IF carry.wait > 0 THEN carry.wait - 1 ELSE 0
      <4>1. /\ typed \in 0..Carry!Cap \cup {None} /\ blocked \in 0..Carry!Cap \cup {None}
            /\ dismissed \in 0..Carry!Cap /\ wait \in 0..Pickup
        BY <1>0, <3>2, Counted, CarryOnAssumption DEF Carry!CarryRecord
      <4>2. carry' = [carry EXCEPT !.typed = typed, !.blocked = blocked,
                                   !.dismissed = dismissed, !.wait = wait]
        BY <1>1, <3>2 DEF Carry!Time
      <4> HIDE DEF typed, blocked, dismissed, wait
      <4>3. carry' \in Carry!CarryRecord
        BY <1>0, <3>2, <4>1, <4>2 DEF Carry!CarryRecord
      <4>4. QED
        BY <1>0, <1>1, <4>3 DEF Carry!Time
    <3>3. QED
      BY <3>1, <3>2
  <2>3. QED
    BY <2>1, <2>2
<1>2. CASE Carry!Key
  BY <1>0, <1>2, ZenonT(40) DEF Carry!Key
<1>3. CASE Carry!Enter
  <2>1. claude' \in [at : {"idle", "shell", "busy", "dialog", "menu"},
                     since : 0 .. Carry!Cap, says : BOOLEAN, marks : BOOLEAN]
        /\ UNCHANGED promptChild
    <3>1. /\ UNCHANGED promptChild
          /\ \/ UNCHANGED claude
             \/ claude' = [claude EXCEPT !.at = "idle", !.since = 0]
             \/ claude' = [claude EXCEPT !.at = "busy", !.since = 0]
      BY <1>3 DEF Carry!Enter
    <3>2. QED
      BY <1>0, <3>1
  <2>a. \/ /\ record' = [record EXCEPT !.sinceKey = FALSE, !.unread = @ \ {"sinceKey"}]
           /\ box' = box
        \/ /\ record' = [record EXCEPT !.sinceKey = FALSE,
                                        !.unread = @ \cup {"sinceKey", "sinceTyped"}]
           /\ box' = [draft |-> FALSE, ours |-> 0]
    BY <1>3 DEF Carry!Enter
  <2>2. box' \in [draft : BOOLEAN, ours : Nat]
    <3>1. [draft |-> FALSE, ours |-> 0] \in [draft : BOOLEAN, ours : Nat]
      OBVIOUS
    <3>2. QED
      BY <1>0, <2>a, <3>1
  <2>b. keys' \in [last : {"never", "enter", "other"}, moved : BOOLEAN]
        /\ UNCHANGED <<quiet, watched, carry, checking, ends, wrong>>
    BY <1>3 DEF Carry!Enter
  <2>c. record' \in [sinceKey : BOOLEAN, sinceTyped : BOOLEAN,
                     unread : SUBSET {"sinceKey", "sinceTyped", "refused", "subagent"}]
    <3>1. CASE record' = [record EXCEPT !.sinceKey = FALSE, !.unread = @ \ {"sinceKey"}]
      BY <1>0, <3>1
    <3>2. CASE record' = [record EXCEPT !.sinceKey = FALSE,
                                        !.unread = @ \cup {"sinceKey", "sinceTyped"}]
      BY <1>0, <3>2
    <3>3. QED
      BY <2>a, <3>1, <3>2
  <2>3. Seen' /\ Prompt' /\ Ends'
    BY <1>0, <2>b, <2>c
  <2>4. QED
    BY <1>0, <2>1, <2>2, <2>3, <2>b
<1>4. CASE Carry!Wakes
  BY <1>0, <1>4 DEF Carry!Wakes
<1>5. CASE Carry!SubagentWrites \/ Carry!Elsewhere \/ Carry!DialogOpens
  <2>1. Places'
    BY <1>0, <1>5 DEF Carry!SubagentWrites, Carry!Elsewhere, Carry!DialogOpens
  <2>2. Seen' /\ Prompt' /\ Ends'
    BY <1>0, <1>5 DEF Carry!SubagentWrites, Carry!Elsewhere, Carry!DialogOpens
  <2>3. QED
    BY <2>1, <2>2
<1>6. CASE Carry!SaysOrNot
  <2>1. claude' \in [at : {"idle", "shell", "busy", "dialog", "menu"},
                     since : 0 .. Carry!Cap, says : BOOLEAN, marks : BOOLEAN]
    <3>1. (~claude.says) \in BOOLEAN /\ (~claude.marks) \in BOOLEAN
      BY <1>0
    <3>2. QED
      BY <1>0, <1>6, <3>1 DEF Carry!SaysOrNot
  <2>2. QED
    BY <1>0, <1>6, <2>1 DEF Carry!SaysOrNot
<1>7. CASE Carry!TurnEnds
  <2>1. Places' /\ Prompt' /\ Ends'
    BY <1>0, <1>7 DEF Carry!TurnEnds
  <2>2. Seen'
    BY <1>0, <1>7 DEF Carry!TurnEnds
  <2>3. QED
    BY <2>1, <2>2
<1>8. CASE Carry!SubagentRefused
  BY <1>0, <1>8 DEF Carry!SubagentRefused
<1>9. CASE Carry!ChecksRecord
  <2>1. Places' /\ Ends'
    BY <1>0, <1>9 DEF Carry!ChecksRecord
  <2>2. Seen'
    <3>1. (record.sinceTyped \/ "sinceTyped" \in record.unread) \in BOOLEAN
          /\ (record.sinceKey \/ "sinceKey" \in record.unread) \in BOOLEAN
      BY <1>0
    <3>2. QED
      BY <1>0, <1>9, <3>1 DEF Carry!ChecksRecord
  <2>3. Prompt'
    <3>1. checking' \in BOOLEAN
      BY <1>9 DEF Carry!ChecksRecord
    <3>2. ASSUME NEW typed, carry # None PROVE Carry!Refused(carry, typed) \in Carry!CarryRecord
      <4>1. carry \in Carry!CarryRecord /\ Pickup \in 0..Pickup
        BY <1>0, <3>2, CarryOnAssumption
      <4>2. (carry.tooOften \/ carry.attempts >= MaxAttempts) \in BOOLEAN
        BY <4>1 DEF Carry!CarryRecord
      <4>3. [carry EXCEPT !.stalled = TRUE] \in Carry!CarryRecord
        BY <4>1 DEF Carry!CarryRecord
      <4>4. [carry EXCEPT !.stalled = TRUE, !.typed = None, !.wait = Pickup,
                   !.tooOften = @ \/ carry.attempts >= MaxAttempts] \in Carry!CarryRecord
        BY <4>1, <4>2 DEF Carry!CarryRecord
      <4>5. QED
        BY <4>3, <4>4 DEF Carry!Refused
    <3>3. QED
      BY <1>0, <1>9, <3>1, <3>2 DEF Carry!ChecksRecord
  <2>4. QED
    BY <2>1, <2>2, <2>3
<1>10. CASE Carry!Refuted \/ Carry!Restarted \/ Carry!Killed \/ Carry!HandsOver \/ Carry!EndsForSwitch
  <2>1. Places' /\ Seen' /\ Prompt'
    BY <1>0, <1>10 DEF Carry!Refuted, Carry!Restarted, Carry!Killed, Carry!HandsOver, Carry!EndsForSwitch
  <2>2. Ends'
    BY <1>0, <1>10 DEF Carry!Refuted, Carry!Restarted, Carry!Killed, Carry!HandsOver,
       Carry!EndsForSwitch, Carry!CutsOff
  <2>3. QED
    BY <2>1, <2>2
<1>11. ASSUME NEW main \in BOOLEAN, NEW canRelaunch \in BOOLEAN, Carry!Relieved(main, canRelaunch)
       PROVE  Fine'
  <2>1. Places' /\ Seen' /\ Ends'
    BY <1>0, <1>11 DEF Carry!Relieved
  <2>2. (main \/ (carry # None /\ carry.stalled)) \in BOOLEAN
    BY <1>0 DEF Carry!CarryRecord
  <2>3. \A stalled \in BOOLEAN : Carry!New(stalled, canRelaunch) \in Carry!CarryRecord
    BY CapIs, CarryOnAssumption DEF Carry!New, Carry!CarryRecord
  <2>4. Prompt'
    BY <1>11, <2>2, <2>3 DEF Carry!Relieved
  <2>5. QED
    BY <2>1, <2>4
<1>12. CASE Carry!Relaunches \/ Carry!Left \/ Carry!Attended
  <2>1. Places' /\ Seen' /\ Prompt' /\ Ends'
    BY <1>0, <1>12 DEF Carry!Relaunches, Carry!Left, Carry!Attended, Carry!Over
  <2>2. QED
    BY <2>1
<1>13. CASE Carry!Takes \/ Carry!Delivered
  <2>1. Places' /\ Seen' /\ Ends'
    BY <1>0, <1>13 DEF Carry!Takes, Carry!Delivered, Carry!Over
  <2>2. CASE Carry!Takes
    <3>1. carry \in Carry!CarryRecord
      BY <1>0, <2>2 DEF Carry!Takes, Carry!Looks
    <3>2. QED
      BY <1>0, <2>1, <2>2, <3>1 DEF Carry!Takes, Carry!CarryRecord
  <2>3. CASE Carry!Delivered
    BY <1>0, <2>1, <2>3 DEF Carry!Delivered, Carry!Over
  <2>4. QED
    BY <1>13, <2>2, <2>3
<1>14. CASE Carry!Dismisses
  <2>1. carry \in Carry!CarryRecord /\ carry.dismissals < MaxDismissals
    BY <1>0, <1>14 DEF Carry!Dismisses, Carry!Looks, Carry!MayDismiss
  <2>2. carry.dismissals + 1 \in 0..MaxDismissals
    BY <2>1, CarryOnAssumption DEF Carry!CarryRecord
  <2>3. Prompt'
    BY <1>0, <1>14, <2>1, <2>2 DEF Carry!Dismisses, Carry!CarryRecord
  <2>4. Places' /\ Seen' /\ Ends'
    BY <1>0, <1>14 DEF Carry!Dismisses
  <2>5. QED
    BY <2>3, <2>4
<1>15. CASE Carry!Counts
  <2>1. carry \in Carry!CarryRecord
    BY <1>0, <1>15 DEF Carry!Counts, Carry!Looks
  <2>2. Prompt'
    BY <1>0, <1>15, <2>1 DEF Carry!Counts, Carry!CarryRecord
  <2>3. QED
    BY <1>0, <1>15, <2>2 DEF Carry!Counts
<1>16. CASE Carry!Types
  <2>1. carry \in Carry!CarryRecord /\ carry.attempts < MaxAttempts
    BY <1>0, <1>16 DEF Carry!Types, Carry!Looks, Carry!Pending, TriesInv
  <2>2. carry.attempts + 1 \in 0..MaxAttempts
    BY <2>1, CarryOnAssumption DEF Carry!CarryRecord
  <2>3. Prompt'
    BY <1>0, <1>16, <2>1, <2>2 DEF Carry!Types, Carry!CarryRecord
  <2>a. \/ /\ claude' = [claude EXCEPT !.at = "busy", !.since = 0]
           /\ record' = [record EXCEPT !.sinceTyped = FALSE, !.unread = @ \cup {"sinceTyped"}]
           /\ box' = [draft |-> FALSE, ours |-> 0]
        \/ /\ record' = [record EXCEPT !.sinceTyped = FALSE, !.unread = @ \ {"sinceTyped"}]
           /\ box' = [box EXCEPT !.ours = @ + 1]
           /\ claude' = [claude EXCEPT !.at = "dialog", !.since = 0] \/ claude' = claude
    BY <1>16 DEF Carry!Types
  <2>b. UNCHANGED <<promptChild, keys, quiet, watched>>
    BY <1>16 DEF Carry!Types
  <2>4. Places'
    <3>1. claude' \in [at : {"idle", "shell", "busy", "dialog", "menu"},
                       since : 0 .. Carry!Cap, says : BOOLEAN, marks : BOOLEAN]
      BY <1>0, <2>a
    <3>2. box' \in [draft : BOOLEAN, ours : Nat]
      <4>1. box.ours + 1 \in Nat
        BY <1>0
      <4>2. CASE box' = [box EXCEPT !.ours = @ + 1]
        BY <1>0, <4>1, <4>2
      <4>3. CASE box' = [draft |-> FALSE, ours |-> 0]
        BY <4>3
      <4>4. QED
        BY <2>a, <4>2, <4>3
    <3>3. QED
      BY <1>0, <2>b, <3>1, <3>2
  <2>5. Seen'
    <3>1. record' \in [sinceKey : BOOLEAN, sinceTyped : BOOLEAN,
                       unread : SUBSET {"sinceKey", "sinceTyped", "refused", "subagent"}]
      <4>1. CASE record' = [record EXCEPT !.sinceTyped = FALSE, !.unread = @ \cup {"sinceTyped"}]
        BY <1>0, <4>1
      <4>2. CASE record' = [record EXCEPT !.sinceTyped = FALSE, !.unread = @ \ {"sinceTyped"}]
        BY <1>0, <4>2
      <4>3. QED
        BY <2>a, <4>1, <4>2
    <3>2. QED
      BY <1>0, <2>b, <3>1
  <2>6. Ends'
    BY <1>0, <1>16 DEF Carry!Types
  <2>7. QED
    BY <2>3, <2>4, <2>5, <2>6
<1>17. CASE UNCHANGED Carry!vars
  BY <1>0, <1>17 DEF Carry!vars
<1>18. QED
  BY <1>1, <1>2, <1>3, <1>4, <1>5, <1>6, <1>7, <1>8, <1>9, <1>10, <1>11, <1>12, <1>13, <1>14,
     <1>15, <1>16, <1>17 DEF Carry!Next, Carry!Step

LEMMA PromptInit == Carry!Init => PromptInv
<1> SUFFICES ASSUME Carry!Init PROVE PromptInv
  OBVIOUS
<1>1. Carry!Cap \in Nat /\ 0 \in 0..Carry!Cap /\ Carry!Cap \in 0..Carry!Cap
  BY CapIs
<1>2. PICK k \in {"never", "enter", "other"} :
         /\ keys = [last |-> k, moved |-> FALSE]
         /\ box = [draft |-> k = "other", ours |-> 0]
         /\ record = [sinceKey |-> k = "enter", sinceTyped |-> FALSE, unread |-> {}]
  BY DEF Carry!Init
<1>3. /\ keys \in [last : {"never", "enter", "other"}, moved : BOOLEAN]
      /\ box \in [draft : BOOLEAN, ours : Nat]
      /\ record \in [sinceKey : BOOLEAN, sinceTyped : BOOLEAN,
                     unread : SUBSET {"sinceKey", "sinceTyped", "refused", "subagent"}]
  <2>1. (k = "other") \in BOOLEAN /\ (k = "enter") \in BOOLEAN
    OBVIOUS
  <2>2. QED
    BY <1>2, <2>1
<1>4. /\ claude \in [at : {"idle", "shell", "busy", "dialog", "menu"},
                     since : 0 .. Carry!Cap, says : BOOLEAN, marks : BOOLEAN]
      /\ promptChild = "up" /\ quiet \in 0 .. Carry!Cap /\ watched \in 0 .. Carry!Cap
      /\ carry = None /\ checking \in BOOLEAN /\ ends = {} /\ wrong = {}
  <2>1. claude \in [at : {"idle", "shell", "busy", "dialog", "menu"},
                    since : 0 .. Carry!Cap, says : BOOLEAN, marks : BOOLEAN]
    <3>1. PICK at \in {"idle", "busy", "menu"} :
             claude = [at |-> at, since |-> 0, says |-> TRUE, marks |-> TRUE]
      BY DEF Carry!Init
    <3>2. QED
      BY <1>1, <3>1
  <2>2. QED
    BY <1>1, <2>1 DEF Carry!Init
<1>5. Carry!TypeOK
  BY <1>3, <1>4 DEF Carry!TypeOK
<1>6. BoxInv
  BY <1>2 DEF BoxInv
<1>7. QED
  BY <1>4, <1>5, <1>6 DEF PromptInv, UntakenInv, TriesInv, Carry!TypesAlone, Carry!DeliveredIsTaken

LEMMA BoxStep == PromptInv /\ [Carry!Next]_(Carry!vars) => BoxInv'
<1> SUFFICES ASSUME PromptInv, [Carry!Next]_(Carry!vars) PROVE BoxInv'
  OBVIOUS
<1> USE DEF Carry!Goes, Carry!Writes, Carry!Happens, Carry!world
<1>0. /\ BoxInv /\ keys \in [last : {"never", "enter", "other"}, moved : BOOLEAN]
      /\ box \in [draft : BOOLEAN, ours : Nat]
      /\ record \in [sinceKey : BOOLEAN, sinceTyped : BOOLEAN,
                     unread : SUBSET {"sinceKey", "sinceTyped", "refused", "subagent"}]
  BY DEF PromptInv, Carry!TypeOK
<1>1. ASSUME keys'.last = keys.last, box'.draft => box.draft,
             record'.sinceKey \/ "sinceKey" \in record'.unread
                => record.sinceKey \/ "sinceKey" \in record.unread
      PROVE  BoxInv'
  BY <1>0, <1>1 DEF BoxInv
<1>2. CASE Carry!Key
  BY <1>0, <1>2 DEF Carry!Key, BoxInv
<1>3. CASE Carry!Enter
  <2>1. keys'.last = "enter"
    BY <1>3 DEF Carry!Enter
  <2>2. CASE claude.at \in {"dialog", "menu"} \/ box = [draft |-> FALSE, ours |-> 0]
    BY <1>0, <1>3, <2>1, <2>2, ZenonT(40) DEF Carry!Enter, BoxInv
  <2>3. CASE ~(claude.at \in {"dialog", "menu"} \/ box = [draft |-> FALSE, ours |-> 0])
    BY <1>3, <2>1, <2>3 DEF Carry!Enter, BoxInv
  <2>4. QED
    BY <2>2, <2>3
<1>4. CASE Carry!ChecksRecord
  BY <1>0, <1>1, <1>4 DEF Carry!ChecksRecord
<1>5. ASSUME NEW main \in BOOLEAN, NEW canRelaunch \in BOOLEAN, Carry!Relieved(main, canRelaunch)
      PROVE  BoxInv'
  BY <1>0, <1>1, <1>5 DEF Carry!Relieved
<1>6. CASE Carry!Types
  <2>a. \/ /\ claude' = [claude EXCEPT !.at = "busy", !.since = 0]
           /\ record' = [record EXCEPT !.sinceTyped = FALSE, !.unread = @ \cup {"sinceTyped"}]
           /\ box' = [draft |-> FALSE, ours |-> 0]
        \/ /\ record' = [record EXCEPT !.sinceTyped = FALSE, !.unread = @ \ {"sinceTyped"}]
           /\ box' = [box EXCEPT !.ours = @ + 1]
           /\ claude' = [claude EXCEPT !.at = "dialog", !.since = 0] \/ claude' = claude
    BY <1>6 DEF Carry!Types
  <2>1. /\ box'.draft => box.draft
        /\ record'.sinceKey = record.sinceKey
        /\ "sinceKey" \in record'.unread => "sinceKey" \in record.unread
    <3>1. CASE /\ record' = [record EXCEPT !.sinceTyped = FALSE, !.unread = @ \cup {"sinceTyped"}]
               /\ box' = [draft |-> FALSE, ours |-> 0]
      BY <1>0, <3>1
    <3>2. CASE /\ record' = [record EXCEPT !.sinceTyped = FALSE, !.unread = @ \ {"sinceTyped"}]
               /\ box' = [box EXCEPT !.ours = @ + 1]
      BY <1>0, <3>2
    <3>3. QED
      BY <2>a, <3>1, <3>2
  <2>2. keys' = keys
    BY <1>6 DEF Carry!Types
  <2>3. QED
    BY <1>1, <2>1, <2>2
<1>7. CASE Carry!TurnEnds \/ Carry!SubagentRefused
  BY <1>0, <1>1, <1>7 DEF Carry!TurnEnds, Carry!SubagentRefused
<1>8. CASE UNCHANGED <<keys, box, record>>
  BY <1>0, <1>1, <1>8
<1>9. CASE Carry!Time \/ Carry!Wakes \/ Carry!SubagentWrites \/ Carry!Elsewhere \/ Carry!DialogOpens
           \/ Carry!SaysOrNot
  BY <1>8, <1>9 DEF Carry!Time, Carry!Wakes, Carry!SubagentWrites, Carry!Elsewhere, Carry!DialogOpens,
     Carry!SaysOrNot
<1>10. CASE Carry!Refuted \/ Carry!Restarted \/ Carry!Killed \/ Carry!HandsOver \/ Carry!EndsForSwitch
  BY <1>8, <1>10 DEF Carry!Refuted, Carry!Restarted, Carry!Killed, Carry!HandsOver, Carry!EndsForSwitch
<1>11. CASE Carry!Relaunches \/ Carry!Left \/ Carry!Attended \/ Carry!Takes \/ Carry!Delivered
            \/ Carry!Dismisses \/ Carry!Counts
  BY <1>8, <1>11 DEF Carry!Relaunches, Carry!Left, Carry!Attended, Carry!Takes, Carry!Delivered,
     Carry!Dismisses, Carry!Counts
<1>12. CASE UNCHANGED Carry!vars
  BY <1>8, <1>12 DEF Carry!vars
<1>13. QED
  BY <1>2, <1>3, <1>4, <1>5, <1>6, <1>7, <1>9, <1>10, <1>11, <1>12 DEF Carry!Next, Carry!Step

LEMMA UntakenStep == PromptInv /\ [Carry!Next]_(Carry!vars) => UntakenInv' /\ TriesInv'
<1> SUFFICES ASSUME PromptInv, [Carry!Next]_(Carry!vars), carry' # None
             PROVE  UntakenInv' /\ TriesInv'
  BY DEF UntakenInv, TriesInv
<1> USE DEF Carry!Goes, Carry!Writes, Carry!Happens, Carry!world
<1>0. /\ UntakenInv /\ TriesInv /\ carry \in Carry!CarryRecord \cup {None}
      /\ claude \in [at : {"idle", "shell", "busy", "dialog", "menu"},
                     since : 0 .. Carry!Cap, says : BOOLEAN, marks : BOOLEAN]
      /\ box \in [draft : BOOLEAN, ours : Nat] /\ wrong \subseteq Carry!Wrongs
      /\ record \in [sinceKey : BOOLEAN, sinceTyped : BOOLEAN,
                     unread : SUBSET {"sinceKey", "sinceTyped", "refused", "subagent"}]
      /\ MaxAttempts \in Nat \ {0} /\ None \notin Nat
  BY CarryOnAssumption DEF PromptInv, Carry!TypeOK
\* The prompt stands as it did, its box no fuller, and nothing says it was taken.
<1>1. ASSUME carry # None, carry'.typed = None <=> carry.typed = None,
             UNCHANGED <<carry.taken, carry.tooOften, carry.attempts>>,
             box'.ours > 0 => box'.ours = box.ours,
             box'.ours > 0 => (record'.sinceTyped \/ "sinceTyped" \in record'.unread
                => record.sinceTyped \/ "sinceTyped" \in record.unread),
             box'.ours > 0 /\ carry.typed # None /\ claude'.at = "busy"
                => claude.at = "busy" \/ "woke" \in wrong',
             wrong \subseteq wrong'
      PROVE  UntakenInv' /\ TriesInv'
  BY <1>0, <1>1 DEF UntakenInv, TriesInv
<1>2. CASE Carry!Time
  <2>1. carry # None /\ carry \in Carry!CarryRecord
    BY <1>0, <1>2 DEF Carry!Time
  <2>2. \A k, t \in Nat : Carry!Upto(k, t) \in Nat
    BY DEF Carry!Upto
  <2>3. Answer \in Nat /\ Carry!Cap \in Nat
    BY CapIs, CarryOnAssumption
  <2>4. carry'.typed = None <=> carry.typed = None
    BY <1>0, <1>2, <2>1, <2>2, <2>3 DEF Carry!Time, Carry!CarryRecord
  <2>5. UNCHANGED <<carry.taken, carry.tooOften, carry.attempts>>
    BY <1>2, <2>1 DEF Carry!Time, Carry!CarryRecord
  <2>6. QED
    BY <1>0, <1>1, <1>2, <2>1, <2>4, <2>5 DEF Carry!Time
<1>3. CASE Carry!Key
  <2>1. /\ box'.ours = box.ours /\ UNCHANGED <<carry, wrong>>
        /\ claude'.at = "busy" => claude.at = "busy"
        /\ record' = [record EXCEPT !.sinceKey = FALSE, !.unread = @ \ {"sinceKey"}]
    BY <1>0, <1>3 DEF Carry!Key
  <2>2. QED
    BY <1>0, <1>1, <2>1
<1>4. CASE Carry!Enter
  <2>1. UNCHANGED <<carry, wrong>>
    BY <1>4 DEF Carry!Enter
  <2>2. CASE claude.at \in {"dialog", "menu"} \/ box = [draft |-> FALSE, ours |-> 0]
    <3>1. /\ box' = box /\ (claude'.at = "busy" => claude.at = "busy")
          /\ record' = [record EXCEPT !.sinceKey = FALSE, !.unread = @ \ {"sinceKey"}]
      BY <1>0, <1>4, <2>2 DEF Carry!Enter
    <3>2. QED
      BY <1>0, <1>1, <2>1, <3>1
  <2>3. CASE ~(claude.at \in {"dialog", "menu"} \/ box = [draft |-> FALSE, ours |-> 0])
    <3>1. box'.ours = 0
      BY <1>4, <2>3 DEF Carry!Enter
    <3>2. carry # None
      BY <2>1
    <3>3. QED
      BY <1>0, <2>1, <3>1, <3>2 DEF UntakenInv, TriesInv
  <2>4. QED
    BY <2>2, <2>3
<1>5. CASE Carry!Wakes
  BY <1>0, <1>1, <1>5 DEF Carry!Wakes
<1>6. CASE Carry!SubagentWrites \/ Carry!Elsewhere \/ Carry!SaysOrNot
  <2>1. UNCHANGED <<box, record, carry, wrong>> /\ claude'.at = claude.at
    BY <1>0, <1>6 DEF Carry!SubagentWrites, Carry!Elsewhere, Carry!SaysOrNot
  <2>2. QED
    BY <1>0, <1>1, <2>1
<1>7. CASE Carry!DialogOpens \/ Carry!TurnEnds \/ Carry!SubagentRefused
  <2>1. /\ UNCHANGED <<box, carry, wrong>> /\ record'.sinceTyped = record.sinceTyped
        /\ "sinceTyped" \in record'.unread => "sinceTyped" \in record.unread
        /\ claude'.at = "busy" => claude.at = "busy"
    BY <1>0, <1>7 DEF Carry!DialogOpens, Carry!TurnEnds, Carry!SubagentRefused
  <2>2. QED
    BY <1>0, <1>1, <2>1
<1>8. CASE Carry!ChecksRecord
  <2> DEFINE typed == record.sinceTyped \/ "sinceTyped" \in record.unread
  <2>1. /\ carry # None /\ carry \in Carry!CarryRecord /\ UNCHANGED <<box, claude, wrong>>
        /\ record'.sinceTyped = typed /\ record'.unread = {}
        /\ carry' \in {carry, Carry!Refused(carry, typed)}
    BY <1>0, <1>8 DEF Carry!ChecksRecord
  <2> DEFINE again == [carry EXCEPT !.stalled = TRUE, !.typed = None, !.wait = Pickup,
                                    !.tooOften = @ \/ carry.attempts >= MaxAttempts]
  <2>2. CASE carry' = again /\ carry.typed # None /\ (carry.taken \/ typed)
    <3>1. /\ carry'.typed = None /\ carry'.attempts = carry.attempts
          /\ carry'.tooOften = (carry.tooOften \/ carry.attempts >= MaxAttempts)
      BY <2>1, <2>2 DEF Carry!CarryRecord
    <3>2. box.ours > 0 => "misread" \in wrong
      BY <1>0, <2>1, <2>2 DEF UntakenInv
    <3>3. carry.attempts \in Nat
      BY <2>1 DEF Carry!CarryRecord
    <3>4. QED
      <4>1. ~carry'.tooOften => carry'.attempts < MaxAttempts
        <5>1. ~carry'.tooOften => ~(carry.attempts >= MaxAttempts)
          BY <3>1, Zenon
        <5>2. QED
          BY <1>0, <3>1, <3>3, <5>1
      <4>2. box'.ours > 0 => wrong' \cap {"misread", "moved"} # {}
        BY <2>1, <3>2
      <4>3. QED
        BY <3>1, <4>1, <4>2 DEF UntakenInv, TriesInv
  <2>3. CASE carry' = carry \/ carry' = [carry EXCEPT !.stalled = TRUE]
    <3>1. UNCHANGED <<carry.typed, carry.taken, carry.tooOften, carry.attempts>>
      BY <2>1, <2>3 DEF Carry!CarryRecord
    <3>2. QED
      BY <1>0, <1>1, <2>1, <3>1
  <2>4. QED
    BY <2>1, <2>2, <2>3 DEF Carry!Refused
<1>9. ASSUME NEW main \in BOOLEAN, NEW canRelaunch \in BOOLEAN, Carry!Relieved(main, canRelaunch)
      PROVE  UntakenInv' /\ TriesInv'
  <2>1. /\ carry'.typed = None /\ carry'.attempts = 0 /\ box' = box
        /\ wrong' = wrong \cup (IF box.ours > 0 THEN {"moved"} ELSE {})
    BY <1>9 DEF Carry!Relieved, Carry!New
  <2>2. QED
    BY <1>0, <2>1 DEF UntakenInv, TriesInv
<1>10. CASE Carry!Takes
  <2>1. /\ carry # None /\ carry \in Carry!CarryRecord /\ UNCHANGED <<box, claude, record>>
        /\ carry' = [carry EXCEPT !.taken = TRUE] /\ carry.typed # None
        /\ wrong' = wrong \cup (IF box.ours > 0 THEN {"misread"} ELSE {})
    BY <1>0, <1>10 DEF Carry!Takes, Carry!Looks
  <2>2. carry'.typed = carry.typed
    BY <2>1 DEF Carry!CarryRecord
  <2>3. QED
    BY <1>0, <2>1, <2>2 DEF UntakenInv, TriesInv
<1>11. CASE Carry!Dismisses
  <2>1. /\ carry # None /\ carry \in Carry!CarryRecord /\ UNCHANGED <<box, record, wrong>>
        /\ carry' = [carry EXCEPT !.dismissals = @ + 1, !.dismissed = 0, !.blocked = None]
        /\ claude'.at = "busy" => claude.at = "busy"
    BY <1>0, <1>11 DEF Carry!Dismisses, Carry!Looks
  <2>2. UNCHANGED <<carry.typed, carry.taken, carry.tooOften, carry.attempts>>
    BY <2>1 DEF Carry!CarryRecord
  <2>3. QED
    BY <1>0, <1>1, <2>1, <2>2
<1>12. CASE Carry!Counts
  <2>1. /\ carry # None /\ carry \in Carry!CarryRecord /\ UNCHANGED <<box, record, wrong, claude>>
        /\ UNCHANGED <<carry.typed, carry.taken, carry.tooOften, carry.attempts>>
    BY <1>0, <1>12 DEF Carry!Counts, Carry!Looks, Carry!CarryRecord
  <2>2. QED
    BY <1>0, <1>1, <2>1
<1>13. CASE Carry!Types
  <2>1. /\ carry # None /\ carry \in Carry!CarryRecord /\ carry.typed = None
        /\ carry' = [carry EXCEPT !.typed = 0, !.taken = FALSE, !.attempts = @ + 1, !.blocked = None]
        /\ claude.at \in {"idle", "shell"}
    BY <1>0, <1>13 DEF Carry!Types, Carry!Looks, Carry!Pending, Carry!AtPrompt
  <2>2. carry'.typed = 0 /\ carry'.typed # None /\ ~carry'.taken
    BY <1>0, <2>1 DEF Carry!CarryRecord
  <2>a. \/ /\ claude' = [claude EXCEPT !.at = "busy", !.since = 0]
           /\ record' = [record EXCEPT !.sinceTyped = FALSE, !.unread = @ \cup {"sinceTyped"}]
           /\ box' = [draft |-> FALSE, ours |-> 0]
        \/ /\ record' = [record EXCEPT !.sinceTyped = FALSE, !.unread = @ \ {"sinceTyped"}]
           /\ box' = [box EXCEPT !.ours = @ + 1]
           /\ claude' = [claude EXCEPT !.at = "dialog", !.since = 0] \/ claude' = claude
    BY <1>13 DEF Carry!Types
  <2>3. \/ box'.ours = 0
        \/ /\ ~record'.sinceTyped /\ "sinceTyped" \notin record'.unread
           /\ claude'.at # "busy"
    <3>1. CASE box' = [draft |-> FALSE, ours |-> 0]
      BY <3>1
    <3>2. CASE /\ record' = [record EXCEPT !.sinceTyped = FALSE, !.unread = @ \ {"sinceTyped"}]
               /\ claude' = [claude EXCEPT !.at = "dialog", !.since = 0] \/ claude' = claude
      BY <1>0, <2>1, <3>2
    <3>3. QED
      BY <2>a, <3>1, <3>2
  <2>4. QED
    BY <2>2, <2>3 DEF UntakenInv, TriesInv
<1>14. CASE UNCHANGED <<claude, box, record, carry, wrong>>
  BY <1>0, <1>1, <1>14
<1>15. CASE Carry!Refuted \/ Carry!EndsForSwitch \/ Carry!HandsOver
  <2>1. UNCHANGED <<claude, box, record, carry>> /\ wrong \subseteq wrong'
    BY <1>15 DEF Carry!Refuted, Carry!EndsForSwitch, Carry!HandsOver, Carry!CutsOff
  <2>2. QED
    BY <1>0, <1>1, <2>1
<1>16. CASE Carry!Restarted \/ Carry!Killed \/ Carry!Relaunches \/ Carry!Left \/ Carry!Attended
            \/ Carry!Delivered
  BY <1>16 DEF Carry!Restarted, Carry!Killed, Carry!Relaunches, Carry!Left, Carry!Attended,
     Carry!Delivered, Carry!Over
<1>17. CASE UNCHANGED Carry!vars
  BY <1>14, <1>17 DEF Carry!vars
<1>18. QED
  BY <1>2, <1>3, <1>4, <1>5, <1>6, <1>7, <1>8, <1>9, <1>10, <1>11, <1>12, <1>13,
     <1>15, <1>16, <1>17 DEF Carry!Next, Carry!Step

LEMMA WrongStep ==
    PromptInv /\ [Carry!Next]_(Carry!vars) => Carry!TypesAlone' /\ Carry!DeliveredIsTaken'
<1> SUFFICES ASSUME PromptInv, [Carry!Next]_(Carry!vars)
             PROVE  Carry!TypesAlone' /\ Carry!DeliveredIsTaken'
  OBVIOUS
<1> USE DEF Carry!Goes, Carry!Writes, Carry!Happens, Carry!world
<1>0. /\ BoxInv /\ UntakenInv /\ TriesInv /\ Carry!TypesAlone /\ Carry!DeliveredIsTaken
      /\ carry \in Carry!CarryRecord \cup {None}
      /\ keys \in [last : {"never", "enter", "other"}, moved : BOOLEAN]
  BY DEF PromptInv, Carry!TypeOK
<1>1. ASSUME wrong' \ wrong \subseteq {"woke", "moved"}, wrong \subseteq wrong'
      PROVE  Carry!TypesAlone' /\ Carry!DeliveredIsTaken'
  BY <1>0, <1>1 DEF Carry!TypesAlone, Carry!DeliveredIsTaken
<1>2. CASE Carry!Takes \/ Carry!Delivered
  <2>1. wrong' \ wrong \subseteq {"misread", "undelivered"} /\ wrong \subseteq wrong'
    BY <1>2 DEF Carry!Takes, Carry!Delivered
  <2>2. wrong' # wrong => box.ours > 0 /\ carry # None /\ carry.typed # None
                          /\ (carry.taken \/ Carry!TookIt)
    BY <1>2 DEF Carry!Takes, Carry!Delivered, Carry!Looks
  <2>3. wrong' # wrong => "woke" \in wrong
    <3>1. "misread" \in wrong => "woke" \in wrong
      BY <1>0 DEF Carry!DeliveredIsTaken
    <3>2. QED
      BY <1>0, <2>2, <3>1 DEF UntakenInv, Carry!TookIt
  <2>4. QED
    BY <1>0, <2>1, <2>3 DEF Carry!TypesAlone, Carry!DeliveredIsTaken
<1>3. ASSUME Carry!InputBoxEmpty PROVE ~box.draft
  BY <1>0, <1>3 DEF Carry!InputBoxEmpty, BoxInv
<1>4. CASE Carry!Types
  <2>1. /\ Carry!InputBoxEmpty /\ carry # None /\ carry.typed = None
        /\ wrong' = wrong \cup (IF box.draft THEN {"draft"} ELSE {})
                          \cup (IF box.ours > 0 THEN {"doubled"} ELSE {})
    BY <1>4 DEF Carry!Types, Carry!Looks, Carry!Pending
  <2>2. box.ours > 0 => wrong \cap {"misread", "moved"} # {}
    BY <1>0, <2>1 DEF TriesInv
  <2>3. QED
    BY <1>0, <1>3, <2>1, <2>2 DEF Carry!TypesAlone, Carry!DeliveredIsTaken
<1>5. CASE Carry!HandsOver \/ Carry!EndsForSwitch
  BY <1>1, <1>3, <1>5 DEF Carry!HandsOver, Carry!EndsForSwitch, Carry!CutsOff, Carry!NothingToCutOff
<1>6. CASE Carry!Wakes
  BY <1>1, <1>6 DEF Carry!Wakes
<1>7. ASSUME NEW main \in BOOLEAN, NEW canRelaunch \in BOOLEAN, Carry!Relieved(main, canRelaunch)
      PROVE  Carry!TypesAlone' /\ Carry!DeliveredIsTaken'
  BY <1>1, <1>7 DEF Carry!Relieved
<1>8. CASE UNCHANGED wrong
  BY <1>1, <1>8
<1>9. CASE \/ Carry!Time \/ Carry!Key \/ Carry!Enter \/ Carry!SubagentWrites \/ Carry!Elsewhere
           \/ Carry!DialogOpens \/ Carry!SaysOrNot \/ Carry!TurnEnds \/ Carry!SubagentRefused
  BY <1>8, <1>9 DEF Carry!Time, Carry!Key, Carry!Enter, Carry!SubagentWrites, Carry!Elsewhere,
     Carry!DialogOpens, Carry!SaysOrNot, Carry!TurnEnds, Carry!SubagentRefused
<1>10. CASE \/ Carry!ChecksRecord \/ Carry!Refuted \/ Carry!Restarted \/ Carry!Killed
            \/ Carry!Relaunches \/ Carry!Left \/ Carry!Attended \/ Carry!Dismisses \/ Carry!Counts
  BY <1>8, <1>10 DEF Carry!ChecksRecord, Carry!Refuted, Carry!Restarted, Carry!Killed,
     Carry!Relaunches, Carry!Left, Carry!Attended, Carry!Dismisses, Carry!Counts
<1>11. CASE UNCHANGED Carry!vars
  BY <1>8, <1>11 DEF Carry!vars
<1>12. QED
  BY <1>2, <1>4, <1>5, <1>6, <1>7, <1>9, <1>10, <1>11 DEF Carry!Next, Carry!Step

LEMMA PromptStep == PromptInv /\ [Carry!Next]_(Carry!vars) => PromptInv'
  BY PromptTypes, BoxStep, UntakenStep, WrongStep DEF PromptInv

\* The prompt is typed into an empty box, and what is counted as delivered was
\* taken, but for a turn that began by itself or a second move, whatever the waits
\* and however often it is refused.
THEOREM PromptIsTaken == Carry!Init /\ [][Carry!Next]_(Carry!vars) => []CarryOnInv
<1>1. PromptInv => CarryOnInv
  BY DEF PromptInv, CarryOnInv, Carry!Inv
<1>2. QED
  BY PromptInit, PromptStep, <1>1, PTL

=============================================================================
