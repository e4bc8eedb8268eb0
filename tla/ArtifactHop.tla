---------------------------- MODULE ArtifactHop ----------------------------
(***************************************************************************)
(* One session held on another account for a call of Claude's Artifact     *)
(* tool (artifacts/hop.ts, hop-files.ts, hook.ts).  Every call runs a hook *)
(* before and after it, each a process of its own; the ccx that owns the   *)
(* session polls and ticks on its timer and moves the session's login on   *)
(* timers under the running Claude.  The two talk through three files per  *)
(* call: its request, its done mark and the answer.                        *)
(*                                                                         *)
(* Time is abstracted: a visit ages, a hold runs out, a hook gives up, a   *)
(* request gets too old for its hook to be waiting, each whenever its      *)
(* order with the others allows it.  Claude uses the login in its folder   *)
(* at its next request, which every move makes it read again.              *)
(***************************************************************************)
EXTENDS Naturals, Sequences, FiniteSets, SequencesExt

CONSTANTS
  Accounts,      \* the registered accounts
  Calls,         \* tool calls, each with an id of its own
  Tracked,       \* the calls made with the conversation's record known
  NoAccount,     \* a call that is not routed, or no account known
  NoCall,
  MaxLaunches,   \* bound: how often the session starts a Claude
  CallsMissMoves \* whether no call goes out, and no hook after one runs,
                 \* in the moments a move takes

VARIABLES
  claude,     \* "running", "exited" (ccx has not settled it yet) or "ended"
  launches,
  current,    \* the account the session counts as on
  login,      \* the account of the login in its folder, which Claude sends with
  route,      \* the account each call must go out as
  asks,       \* the requests waiting, the oldest first
  done,       \* the calls marked done
  state,      \* the answer file of each call
  movedFor,   \* the calls whose answer says the session was moved for them
  visit,      \* the hold in force
  moving,     \* the call a move away is under way for
  preparing,  \* the call a login is being renewed for, and the result
  late,       \* the holds that have lasted their full time
  phase,      \* where each call and its hooks are
  recorded,   \* the calls whose result is in the conversation's record
  sentAs,     \* the account each call went out as
  endedSince, \* for each call sent, the moved holds that ended since
  owner       \* the account written down for each call

files == <<asks, done, state, movedFor>>
hop   == <<visit, moving, preparing, late>>
call  == <<phase, recorded, sentAs, endedSince, owner>>
place == <<claude, launches, current, login, route>>
vars  == <<place, files, hop, call>>

Phases == {"idle", "asking", "permitted", "sent", "denied", "forbidden", "closing",
           "over", "gone"}
NoVisit == [from |-> NoAccount, to |-> NoAccount, holds |-> {}, ending |-> {},
            young |-> FALSE, returning |-> FALSE]
Renewals == {"none", "ok", "failed"}
NoPreparing == [call |-> NoCall, result |-> "none"]

TypeOK ==
  /\ claude \in {"running", "exited", "ended"} /\ launches \in 1..MaxLaunches
  /\ current \in Accounts /\ login \in Accounts
  /\ route \in [Calls -> Accounts \cup {NoAccount}]
  /\ asks \in Seq(Calls) /\ IsInjective(asks)
  /\ done \subseteq Calls /\ movedFor \subseteq Calls /\ late \subseteq Calls
  /\ state \in [Calls -> {"none", "applied", "refused", "ended"}]
  /\ visit \in [from : Accounts \cup {NoAccount}, to : Accounts \cup {NoAccount},
                holds : SUBSET Calls, ending : SUBSET Calls,
                young : BOOLEAN, returning : BOOLEAN]
  /\ moving \in Calls \cup {NoCall}
  /\ preparing \in [call : Calls \cup {NoCall}, result : Renewals]
  /\ phase \in [Calls -> Phases]
  /\ recorded \subseteq Tracked
  /\ sentAs \in [Calls -> Accounts \cup {NoAccount}]
  /\ endedSince \in [Calls -> SUBSET Calls]
  /\ owner \in [Calls -> Accounts \cup {NoAccount}]

Init ==
  /\ claude = "running" /\ launches = 1
  /\ current \in Accounts /\ login = current
  /\ route \in [Calls -> Accounts \cup {NoAccount}]
  /\ asks = << >> /\ done = {} /\ movedFor = {} /\ late = {}
  /\ state = [c \in Calls |-> "none"]
  /\ visit = NoVisit /\ moving = NoCall /\ preparing = NoPreparing
  /\ phase = [c \in Calls |-> "idle"] /\ recorded = {}
  /\ sentAs = [c \in Calls |-> NoAccount]
  /\ endedSince = [c \in Calls |-> {}]
  /\ owner = [c \in Calls |-> NoAccount]

----------------------------------------------------------------------------
(* The answers of the controller.                                          *)

Visiting == visit # NoVisit
Away == Visiting /\ visit.from # visit.to

(* The answer of the calls in ended turns to over, and their requests and
   done marks are forgotten; what Claude's calls in flight can see of it is
   that a moved hold ended after they were sent. *)
TellEnded(ended, left, dn) ==
  /\ state' = [c \in Calls |-> IF c \in ended THEN "ended" ELSE state[c]]
  /\ asks' = SelectSeq(left, LAMBDA c : c \notin ended)
  /\ done' = dn \ ended
  /\ late' = late \ ended
  /\ endedSince' = [c \in Calls |-> IF phase[c] = "sent"
                                    THEN endedSince[c] \cup (ended \cap movedFor)
                                    ELSE endedSince[c]]

(* A request is refused with its reason. *)
Refuse(c, left, dn) ==
  /\ state' = [state EXCEPT ![c] = "refused"]
  /\ asks' = SelectSeq(left, LAMBDA d : d # c)
  /\ done' = dn \ {c}
  /\ UNCHANGED <<movedFor, visit, moving, late>>

(* The calls in new are held, each told so. *)
AddHolds(v, new, left) ==
  /\ visit' = [v EXCEPT !.holds = @ \cup new]
  /\ state' = [c \in Calls |-> IF c \in new THEN "applied" ELSE state[c]]
  /\ movedFor' = IF v.from # v.to THEN movedFor \cup new ELSE movedFor \ new
  /\ asks' = SelectSeq(left, LAMBDA d : d \notin new)

Arrived(c, from, left) ==
  AddHolds([NoVisit EXCEPT !.from = from, !.to = route[c], !.young = TRUE], {c}, left)

(* A hold for the first request: on the account it is on already once Claude
   is made to read its login again, or after a move that ends later. *)
StartVisit(c, left, dn) ==
  \/ /\ route[c] = current
     /\ Arrived(c, current, left)
     /\ done' = dn
     /\ UNCHANGED <<moving, late>>
  \/ route[c] = current /\ Refuse(c, left, dn)
  \/ /\ route[c] # current
     /\ moving' = c
     /\ asks' = left /\ done' = dn
     /\ UNCHANGED <<state, movedFor, visit, late>>

----------------------------------------------------------------------------
(* One poll.  It drops the requests nobody waits on: those marked done, and
   those in old, too old for their hook to be waiting still. *)

TooOld == {c \in ToSet(asks) : phase[c] # "asking"}
AsksLeft(old) == SelectSeq(asks, LAMBDA c : c \notin done \cup old)
DoneLeft(old) == done \ (ToSet(asks) \cap (done \cup old))

Polling == claude = "running"
Idle == ~Visiting /\ moving = NoCall /\ preparing = NoPreparing

(* Nothing is taken up: a move is under way, the hold there is takes no more
   calls, a login is being renewed, something else decides the session's
   account, or nobody asks. *)
PollWaits(old) ==
  /\ Polling
  /\ ~(Visiting /\ visit.holds # {} /\ visit.young)
  /\ preparing.result = "none"
  /\ asks' = AsksLeft(old) /\ done' = DoneLeft(old)
  /\ UNCHANGED <<state, movedFor, hop>>

(* Requests for the account the session is held on share its hold. *)
PollJoins(old) ==
  LET left == AsksLeft(old)
  IN /\ Polling /\ moving = NoCall
     /\ Visiting /\ visit.holds # {} /\ visit.young
     /\ AddHolds(visit, {c \in ToSet(left) : route[c] = visit.to}, left)
     /\ done' = DoneLeft(old)
     /\ UNCHANGED <<moving, preparing, late>>

(* The first request cannot be honoured: no such account, not signed in, or
   nothing here can vouch for the session's login. *)
PollRefuses(old) ==
  LET left == AsksLeft(old)
  IN /\ Polling /\ Idle /\ left # << >>
     /\ Refuse(Head(left), left, DoneLeft(old))
     /\ UNCHANGED preparing

PollStarts(old) ==
  LET left == AsksLeft(old)
  IN /\ Polling /\ Idle /\ left # << >>
     /\ StartVisit(Head(left), left, DoneLeft(old))
     /\ UNCHANGED preparing

(* The account's login is due for renewal. *)
PollRenews(old) ==
  LET left == AsksLeft(old)
  IN /\ Polling /\ Idle /\ left # << >>
     /\ route[Head(left)] # current
     /\ preparing' = [call |-> Head(left), result |-> "none"]
     /\ asks' = left /\ done' = DoneLeft(old)
     /\ UNCHANGED <<state, movedFor, visit, moving, late>>

(* The renewal is over: the request was given up on meanwhile, is refused
   (it failed, or the login is still not ready), waits for what began while
   it was renewed, or is taken up. *)
PollPrepared(old) ==
  LET c == preparing.call
      left == AsksLeft(old)
      dn == DoneLeft(old)
  IN /\ Polling /\ ~Visiting /\ moving = NoCall
     /\ preparing.result # "none"
     /\ preparing' = NoPreparing
     /\ IF c \in dn
        THEN /\ asks' = SelectSeq(left, LAMBDA d : d # c) /\ done' = dn \ {c}
             /\ UNCHANGED <<state, movedFor, visit, moving, late>>
        ELSE \/ Refuse(c, left, dn)
             \/ /\ preparing.result = "ok"
                /\ asks' = left /\ done' = dn
                /\ UNCHANGED <<state, movedFor, visit, moving, late>>
             \/ preparing.result = "ok" /\ StartVisit(c, left, dn)

Poll ==
  /\ \E old \in SUBSET TooOld :
       \/ PollWaits(old)
       \/ PollJoins(old)
       \/ PollRefuses(old)
       \/ PollStarts(old)
       \/ PollRenews(old)
       \/ PollPrepared(old)
  /\ UNCHANGED <<place, call>>

RenewalAnswers(result) ==
  /\ preparing.call # NoCall /\ preparing.result = "none"
  /\ preparing' = [preparing EXCEPT !.result = result]
  /\ UNCHANGED <<place, files, visit, moving, late, call>>

----------------------------------------------------------------------------
(* The session's in-place move, on timers.                                 *)

(* The login is written into the folder some time before the move ends. *)
LoginThere ==
  /\ moving # NoCall
  /\ login' = route[moving] /\ login' # login
  /\ UNCHANGED <<claude, launches, current, route, files, hop, call>>

LoginBack ==
  /\ visit.returning
  /\ login' = visit.from /\ login' # login
  /\ UNCHANGED <<claude, launches, current, route, files, hop, call>>

MoveArrives ==
  /\ moving # NoCall
  /\ login = route[moving]
  /\ current' = route[moving] /\ login' = login
  /\ Arrived(moving, current, asks)
  /\ moving' = NoCall
  /\ UNCHANGED <<claude, launches, route, done, preparing, late, call>>

(* The move failed and was rolled back.  With Claude's locks taken nothing
   was written and the request stays for the next poll; else it is refused. *)
MoveFails ==
  /\ moving # NoCall
  /\ login' = current
  /\ moving' = NoCall
  /\ \/ UNCHANGED files
     \/ /\ state' = [state EXCEPT ![moving] = "refused"]
        /\ asks' = SelectSeq(asks, LAMBDA d : d # moving)
        /\ done' = done \ {moving}
        /\ UNCHANGED movedFor
  /\ UNCHANGED <<claude, launches, current, route, visit, preparing, late, call>>

BackArrives ==
  /\ visit.returning
  /\ login = visit.from
  /\ current' = visit.from /\ login' = login
  /\ TellEnded(visit.ending, asks, done)
  /\ visit' = NoVisit
  /\ UNCHANGED <<claude, launches, route, movedFor, moving, preparing, phase, recorded, sentAs, owner>>

BackFails ==
  /\ visit.returning
  /\ login' = current
  /\ visit' = [visit EXCEPT !.returning = FALSE]
  /\ UNCHANGED <<claude, launches, current, route, files, moving, preparing, late, call>>

----------------------------------------------------------------------------
(* The holds' ends.                                                        *)

(* The holds a tick finds over: marked done, with the call's result in the
   conversation's record, or held their full time. *)
HoldsOver == visit.holds \cap (done \cup recorded \cup late)

(* Some are over and the session stays for the others. *)
TickReleases ==
  /\ Polling /\ HoldsOver # {} /\ HoldsOver # visit.holds
  /\ TellEnded(HoldsOver, asks, done)
  /\ visit' = [visit EXCEPT !.holds = @ \ HoldsOver]
  /\ UNCHANGED <<place, movedFor, moving, preparing, phase, recorded, sentAs, owner>>

(* The last is over, on the session's own account: nothing to move back. *)
TickEnds ==
  /\ Polling /\ Visiting /\ ~Away
  /\ HoldsOver = visit.holds
  /\ TellEnded(visit.holds \cup visit.ending, asks, done)
  /\ visit' = NoVisit
  /\ UNCHANGED <<place, movedFor, moving, preparing, phase, recorded, sentAs, owner>>

(* Mutant: a move back that failed is not tried again. *)
TickGoesBackOnce ==
  /\ Polling /\ Away /\ ~visit.returning
  /\ visit.holds # {} /\ HoldsOver = visit.holds
  /\ \E last \in visit.holds :
       /\ TellEnded(visit.holds \ {last}, asks, done)
       /\ visit' = [visit EXCEPT !.holds = {}, !.ending = {last}, !.returning = TRUE]
  /\ UNCHANGED <<place, movedFor, moving, preparing, phase, recorded, sentAs, owner>>

(* The last is over, or was at an earlier look whose move back failed: the
   session starts back.  The one released last hears of it at the end. *)
TickGoesBack ==
  /\ Polling /\ Away /\ ~visit.returning
  /\ HoldsOver = visit.holds
  /\ \E last \in IF visit.holds = {} THEN {NoCall} ELSE visit.holds :
       LET ended == visit.holds \ {last}
       IN /\ TellEnded(ended, asks, done)
          /\ visit' = [visit EXCEPT !.holds = {}, !.ending = @ \cup (visit.holds \ ended),
                                    !.returning = TRUE]
  /\ UNCHANGED <<place, movedFor, moving, preparing, phase, recorded, sentAs, owner>>

VisitAges ==
  /\ Visiting /\ visit.young
  /\ visit' = [visit EXCEPT !.young = FALSE]
  /\ UNCHANGED <<place, files, moving, preparing, late, call>>

HoldRunsOut(c) ==
  /\ c \in visit.holds \ late /\ ~visit.young
  /\ late' = late \cup {c}
  /\ UNCHANGED <<place, files, visit, moving, preparing, call>>

----------------------------------------------------------------------------
(* Claude, its calls and their hooks.                                      *)

(* The hook before a routed call asks for it to be held. *)
Ask(c) ==
  /\ Polling /\ phase[c] = "idle" /\ route[c] # NoAccount
  /\ phase' = [phase EXCEPT ![c] = "asking"]
  /\ asks' = Append(asks, c)
  /\ UNCHANGED <<place, done, state, movedFor, hop, recorded, sentAs, endedSince, owner>>

(* Nothing routes the call: the hook says nothing. *)
LeaveAlone(c) ==
  /\ Polling /\ phase[c] = "idle" /\ route[c] = NoAccount
  /\ phase' = [phase EXCEPT ![c] = "permitted"]
  /\ UNCHANGED <<place, files, hop, recorded, sentAs, endedSince, owner>>

HookAnswered(c) ==
  /\ phase[c] = "asking" /\ state[c] \in {"applied", "refused"}
  /\ phase' = [phase EXCEPT ![c] = IF state[c] = "applied" THEN "permitted" ELSE "denied"]
  /\ UNCHANGED <<place, files, hop, recorded, sentAs, endedSince, owner>>

(* Not answered in time: the call is refused, and marked given up on. *)
HookGivesUp(c) ==
  /\ phase[c] = "asking" /\ state[c] = "none"
  /\ phase' = [phase EXCEPT ![c] = "denied"]
  /\ done' = done \cup {c}
  /\ UNCHANGED <<place, asks, state, movedFor, hop, recorded, sentAs, endedSince, owner>>

(* The call goes out, however long the person took to allow it. *)
Send(c) ==
  /\ Polling /\ phase[c] = "permitted"
  /\ CallsMissMoves => login = current
  /\ phase' = [phase EXCEPT ![c] = "sent"]
  /\ sentAs' = [sentAs EXCEPT ![c] = login]
  /\ UNCHANGED <<place, files, hop, recorded, endedSince, owner>>

(* A person's own hook or a permission rule refuses the call. *)
Forbid(c) ==
  /\ Polling /\ phase[c] = "permitted"
  /\ phase' = [phase EXCEPT ![c] = "forbidden"]
  /\ UNCHANGED <<place, files, hop, recorded, sentAs, endedSince, owner>>

(* The person interrupts: no hook runs for the call any more. *)
Interrupt(c) ==
  /\ Polling /\ phase[c] \in {"asking", "permitted", "sent"}
  /\ phase' = [phase EXCEPT ![c] = "over"]
  /\ UNCHANGED <<place, files, hop, recorded, sentAs, endedSince, owner>>

ResultRecorded(c) ==
  /\ Polling /\ c \in Tracked \ recorded
  /\ phase[c] \in {"denied", "forbidden", "closing", "over"}
  /\ recorded' = recorded \cup {c}
  /\ UNCHANGED <<place, files, hop, phase, sentAs, endedSince, owner>>

(* The account the session is announced on: while a move is under way, the
   one it moves onto, whose announcement is the newer of the two. *)
Announced == IF moving # NoCall THEN route[moving]
             ELSE IF visit.returning THEN visit.from ELSE current

(* Mutant: only a hold still in force counts as being elsewhere. *)
AwaySinceNow(c) == \E d \in movedFor : state[d] = "applied"

(* Whether the answers say the session was elsewhere for any part of a call. *)
AwaySince(c) == \/ \E d \in movedFor : state[d] = "applied"
                \/ endedSince[c] # {}

(* The account written down for a page c published: the one the call was
   held on while its answer still says so, else the session's, unless it was
   elsewhere meanwhile. *)
OwnerOf(c) ==
  IF state[c] = "applied" THEN route[c]
  ELSE IF AwaySince(c) THEN NoAccount ELSE Announced

(* The hook after a call reads whether it was held as it ended, and says it
   is over; the call is written down. *)
AfterCall(c) ==
  /\ Polling /\ phase[c] = "sent"
  /\ CallsMissMoves => moving = NoCall /\ ~visit.returning
  /\ owner' = [owner EXCEPT ![c] = OwnerOf(c)]
  /\ IF state[c] = "applied"
     THEN done' = done \cup {c} /\ phase' = [phase EXCEPT ![c] = "closing"]
     ELSE done' = done /\ phase' = [phase EXCEPT ![c] = "over"]
  /\ UNCHANGED <<place, asks, state, movedFor, hop, recorded, sentAs, endedSince>>

(* The hook after a batch of calls does so for those refused. *)
AfterBatch(c) ==
  /\ Polling /\ phase[c] \in {"denied", "forbidden"}
  /\ IF state[c] = "applied"
     THEN done' = done \cup {c} /\ phase' = [phase EXCEPT ![c] = "closing"]
     ELSE done' = done /\ phase' = [phase EXCEPT ![c] = "over"]
  /\ UNCHANGED <<place, asks, state, movedFor, hop, recorded, sentAs, endedSince, owner>>

(* It waits for the session to be back, or long enough. *)
HookEnds(c) ==
  /\ phase[c] = "closing"
  /\ phase' = [phase EXCEPT ![c] = "over"]
  /\ UNCHANGED <<place, files, hop, recorded, sentAs, endedSince, owner>>

----------------------------------------------------------------------------
(* Claude's end and its next launch.                                       *)

Exit ==
  /\ claude = "running"
  /\ claude' = "exited"
  /\ phase' = [c \in Calls |-> IF phase[c] = "idle" THEN "idle" ELSE "gone"]
  /\ UNCHANGED <<launches, current, login, route, files, hop, recorded, sentAs, endedSince, owner>>

(* A move under way is waited for, then every request is dropped and every
   hold ends.  No Claude runs, so the session is back at once. *)
ChildEnded ==
  /\ claude = "exited" /\ moving = NoCall /\ ~visit.returning
  /\ claude' = "ended"
  /\ preparing' = NoPreparing
  /\ LET told == visit.holds \cup visit.ending
     IN TellEnded(told, << >>, done \ ToSet(asks))
  /\ visit' = NoVisit
  /\ IF Away THEN current' = visit.from /\ login' = visit.from
             ELSE UNCHANGED <<current, login>>
  /\ UNCHANGED <<launches, route, movedFor, moving, phase, recorded, sentAs, owner>>

(* The move back could not be made: the session stays where it was. *)
ChildEndedAway ==
  /\ claude = "exited" /\ moving = NoCall /\ ~visit.returning
  /\ Away
  /\ claude' = "ended"
  /\ preparing' = NoPreparing
  /\ \E last \in visit.holds \cup visit.ending :
       /\ TellEnded(visit.holds \ {last}, << >>, done \ ToSet(asks))
       /\ visit' = [visit EXCEPT !.holds = {}, !.ending = {last}]
  /\ UNCHANGED <<launches, current, login, route, movedFor, moving, phase, recorded, sentAs, owner>>

(* The session starts a Claude again, on the account the run chose. *)
Relaunch ==
  /\ claude = "ended" /\ ~Visiting /\ launches < MaxLaunches
  /\ claude' = "running" /\ launches' = launches + 1
  /\ current' \in Accounts /\ login' = current'
  /\ UNCHANGED <<route, files, hop, call>>

Next ==
  \/ Poll
  \/ \E result \in {"ok", "failed"} : RenewalAnswers(result)
  \/ LoginThere \/ LoginBack \/ MoveArrives \/ MoveFails \/ BackArrives \/ BackFails
  \/ TickReleases \/ TickEnds \/ TickGoesBack
  \/ VisitAges
  \/ \E c \in Calls :
       \/ HoldRunsOut(c)
       \/ Ask(c) \/ LeaveAlone(c) \/ HookAnswered(c) \/ HookGivesUp(c)
       \/ Send(c) \/ Forbid(c) \/ Interrupt(c) \/ ResultRecorded(c)
       \/ AfterCall(c) \/ AfterBatch(c) \/ HookEnds(c)
  \/ Exit \/ ChildEnded \/ ChildEndedAway \/ Relaunch

Spec == Init /\ [][Next]_vars

(* Ticks and polls come by a timer, time passes, a hook left to itself ends,
   and Claude does not hold its locks at every try of a move back. *)
FairSpec ==
  /\ Spec
  /\ WF_vars(VisitAges \/ \E c \in Calls : HoldRunsOut(c))
  /\ WF_vars(TickReleases \/ TickEnds \/ TickGoesBack)
  /\ SF_vars(LoginBack) /\ SF_vars(BackArrives)
  /\ WF_vars(ChildEnded \/ ChildEndedAway)

----------------------------------------------------------------------------
(* Properties.                                                             *)

(* While a call holds the session, it and the login in its folder are on that call's account: no other call's end, no move back and no new
   visit takes it away (hop.ts:80, "nothing else may move it meanwhile"). *)
StaysForItsCalls ==
  claude = "running" /\ visit.holds # {} =>
    /\ current = visit.to /\ login = visit.to
    /\ \A c \in visit.holds : route[c] = visit.to

(* A call's answer says it is held only while the controller knows of it: as
   a hold, or as the last one, which waits for the session to be back. *)
AppliedIsHeld ==
  \A c \in Calls : state[c] = "applied" => c \in visit.holds \cup visit.ending

(* The account written down for a page is the one its call went out as:
   through holds that run out before the call is sent, calls that are not
   routed while another call has the session elsewhere, and moves back. *)
OwnerTrue ==
  \A c \in Calls : owner[c] # NoAccount => owner[c] = sentAs[c]

(* A request of a Claude that ended never moves the next one (hop.test.ts:410,
   "so the next one is never moved for a call nobody makes"). *)
RelaunchStartsClean ==
  claude = "running" =>
    \A c \in ToSet(asks) \cup visit.holds \cup {moving, preparing.call} :
      c # NoCall => phase[c] # "gone"

(* The types hold, the session stays for its calls, the answers are the
   controller's, and no page is put down to the wrong account. *)
Inv ==
  /\ TypeOK /\ StaysForItsCalls /\ AppliedIsHeld
  /\ OwnerTrue /\ RelaunchStartsClean

(* A session moved for a call comes back, whatever its hooks do or fail to
   do (hop.ts:27, "so no hook has to run for the session to come back"). *)
ComesBack == Away /\ claude = "running" ~> ~Away \/ claude = "ended"
=============================================================================
