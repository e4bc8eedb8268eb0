--------------------------- MODULE RotationPolicy ---------------------------
(***************************************************************************)
(* Which account runs next: how much room each is read to have, the order  *)
(* they are tried in, which pair of an account and a model a session goes  *)
(* on with, and when it moves before its account runs out                  *)
(* (src/usage/runway.ts, headroom.ts, usable-capacity.ts, rotation-plan.ts *)
(* and proactive.ts, selector/selector.ts, daemon/rotate-policy.ts, and    *)
(* where commands/session.ts and dashboard.ts ask them).                   *)
(*                                                                         *)
(* Usage is read in whole percents, and is exact: a week is 100/15 of a    *)
(* 5-hour window until an account's own readings say otherwise, so room is *)
(* counted in three-hundredths of a window.  Time is counted in windows.   *)
(* A reading is kept until the next; usage only climbs while a window is   *)
(* open.  A limit confirmed of a model on an account, by this run or in    *)
(* the ledger, is a pair of `spent`.                                       *)
(***************************************************************************)
EXTENDS Integers, FiniteSets, SequencesExt

CONSTANTS Registry,    \* the accounts, a sequence in the order they were added
          Priority,    \* [account -> its place in the classic order]
          Readings,    \* [account -> what may be read of it, five, week, model]
          NoFiveHour,  \* accounts with no 5-hour limit
          Preference,  \* rotation.modelPreference, a sequence
          Weekly,      \* the model with a week of its own
          Threshold, Hysteresis, HoldBack,  \* percents
          WeekLength,  \* how many windows a week lasts
          Pools,        \* what a choice is made from: the accounts usable, and the
                       \* pairs spent (bound)
          MaxTime,     \* bound
          None

Registered == ToSet(Registry)
Ranked == ToSet(Preference)

VARIABLES now,
          read,      \* [account -> its usage as last read, and when the windows end]
          on,        \* the account a session runs on
          left,      \* accounts it left early, no window of theirs over since
          returned   \* it moved back to one of those early

vars == <<now, read, on, left, returned>>

(***************************************************************************)
(* What a reading says now.                                                *)
(***************************************************************************)
Unread == [five |-> None, week |-> None, model |-> None,
           fiveEnds |-> None, weekEnds |-> None]

WindowIsOpen(ends) == ends = None \/ ends > now

\* A window past its reset is fresh; one never read stays unread.
Used(used, ends) == IF used = None \/ WindowIsOpen(ends) THEN used ELSE 0

Five(a) == Used(read[a].five, read[a].fiveEnds)
Week(a) == Used(read[a].week, read[a].weekEnds)
ModelWeek(a) == Used(read[a].model, read[a].weekEnds)

(***************************************************************************)
(* runway.ts: where an account stands for the next move.                   *)
(***************************************************************************)
Window == 300
WorthAMove == 75   \* MIN_RUNWAY
HealthyRun == 150  \* HEALTHY_RUN

\* What is left of the weeks that limit it: its own, and of the model it would run.
WeekRooms(a, m) ==
    {100 - w : w \in ({Week(a)} \cup (IF m = Weekly THEN {ModelWeek(a)} ELSE {})) \ {None}}

FiveRooms(a) ==
    IF a \in NoFiveHour THEN {}
    ELSE {IF Five(a) = None THEN Window ELSE 3 * (100 - Five(a))}

Runway(a, m) == Min({Window} \cup FiveRooms(a) \cup {20 * r : r \in WeekRooms(a, m)})

HeldBack(a, m) == HoldBack < 100 /\ \E r \in WeekRooms(a, m) : 100 - r >= HoldBack

\* How much of the week would expire unused, in 3600ths.
Urgency(a) ==
    IF Week(a) = None \/ read[a].weekEnds = None \/ ~WindowIsOpen(read[a].weekEnds) THEN 0
    ELSE Min({3600, (20 * (100 - Week(a)) * 12) \div Max({1, read[a].weekEnds - now})})

WorthMoving(a, m) == Runway(a, m) >= WorthAMove
Healthy(a, m) == ~HeldBack(a, m) /\ Runway(a, m) >= HealthyRun
Tenths(a, m) == (Runway(a, m) + 15) \div 30

\* Mutant: urgency counts where there is no room to use it.
SpentUrgency(a, m) ==
    ((IF WorthMoving(a, m) THEN 100 ELSE 0) + (IF Healthy(a, m) THEN 50 ELSE 0)
      + Tenths(a, m)) * 360000 + Urgency(a) * 99
\* pickScore, in 360000ths.
PickScore(a, m) ==
    ((IF WorthMoving(a, m) THEN 100 ELSE 0) + (IF Healthy(a, m) THEN 50 ELSE 0)
      + Tenths(a, m)) * 360000 + (IF Runway(a, m) > 0 THEN Urgency(a) * 99 ELSE 0)

(***************************************************************************)
(* The other readers of the same numbers.                                  *)
(***************************************************************************)
\* remainingRoom.
RemainingRoom(a) == 100 - Max({0} \cup ({Five(a), Week(a)} \ {None}))

AccountOut(a) == \E u \in {Five(a), Week(a)} : u # None /\ u >= 100

HasRoomFor(a, m) == ~AccountOut(a) /\ ~(m = Weekly /\ ModelWeek(a) # None /\ ModelWeek(a) >= 100)

\* headroom.ts: unlike the others, it leaves a window past its reset out.
BindingUtilization(a, m) ==
    LET open == {<<read[a].five, read[a].fiveEnds>>, <<read[a].week, read[a].weekEnds>>}
                \cup (IF m \in {Weekly, None} THEN {<<read[a].model, read[a].weekEnds>>} ELSE {})
        used == {w[1] : w \in {v \in open : v[1] # None /\ WindowIsOpen(v[2])}}
    IN IF used = {} THEN None ELSE Max(used)

\* rotate-policy.ts, the daemon's own rule.
IsCapped(a) == \E u \in {Five(a), Week(a)} : u # None /\ u >= Threshold

(***************************************************************************)
(* The order accounts are tried in.                                        *)
(***************************************************************************)
Orders == {"smart", "most-room", "priority"}

RoomOf(order, a, m) ==
    CASE order = "smart" -> PickScore(a, m)
      [] order = "most-room" -> RemainingRoom(a)
      [] OTHER -> 0

\* orderComparator.
Before(order, m, a, b) ==
    \/ RoomOf(order, a, m) > RoomOf(order, b, m)
    \/ RoomOf(order, a, m) = RoomOf(order, b, m) /\ Priority[a] < Priority[b]

InOrder(order, m, S) == SetToSortSeq(S, LAMBDA a, b : Before(order, m, a, b))

First(seq) == IF seq = <<>> THEN None ELSE Head(seq)
But(seq, a) == SelectSeq(seq, LAMBDA x : x # a)

\* eligibleInOrder: a pinned account leads while it is eligible.
Pinned(seq, pin) == IF pin \in ToSet(seq) THEN <<pin>> \o But(seq, pin) ELSE seq

\* spreadWorkers.
Spread(seq, busy, healthy) ==
    SelectSeq(seq, LAMBDA a : a \in healthy \ busy)
      \o SelectSeq(seq, LAMBDA a : a \in healthy \cap busy)
      \o SelectSeq(seq, LAMBDA a : a \notin healthy)

(***************************************************************************)
(* rotation-plan.ts: which account, on which model.                        *)
(***************************************************************************)
Strategies == {"model-first", "account-first"}
Exhausted == [account |-> None, model |-> None]

\* The model in use leads, listed or not.
ModelChain(running) == <<running>> \o But(Preference, running)

Usable(a, m, spent) == <<a, m>> \notin spent /\ HasRoomFor(a, m)

Pairs(ordered, chain, strategy) ==
    LET each == Len(ordered)
        every == Len(chain)
    IN [k \in 1..(each * every) |->
          IF strategy = "model-first"
          THEN [account |-> ordered[((k - 1) % each) + 1], model |-> chain[((k - 1) \div each) + 1]]
          ELSE [account |-> ordered[((k - 1) \div every) + 1], model |-> chain[((k - 1) % every) + 1]]]

PlanRotation(ordered, running, strategy, spent) ==
    IF ordered = <<>> THEN Exhausted
    ELSE IF running = None THEN [account |-> ordered[1], model |-> None]
    ELSE LET hits == SelectSeq(Pairs(ordered, ModelChain(running), strategy),
                               LAMBDA p : Usable(p.account, p.model, spent))
         IN IF hits = <<>> THEN Exhausted ELSE hits[1]

(***************************************************************************)
(* Where session.ts and the dashboard ask.                                 *)
(***************************************************************************)
\* pickAccount, for a start; `ask` says how the session is set up.
PickAccount(S, ask) ==
    LET ordered == InOrder(ask.order, IF ask.running = None THEN Preference[1] ELSE ask.running, S)
        spread == IF ask.busy = None THEN ordered
                  ELSE Spread(ordered, ask.busy,
                              {a \in S : WorthMoving(a, ask.running) /\ Healthy(a, ask.running)})
        tried == Pinned(spread, ask.pin)
    IN IF ~ask.sameModel THEN [account |-> First(tried), model |-> None]
       ELSE PlanRotation(tried, ask.running, ask.strategy, ask.spent)

\* withRoomOnRunningModel: a move under a running Claude keeps its model.
ReliefAccount(S, order, running, spent) ==
    LET plan == PlanRotation(InOrder(order, running, S), running, "model-first", spent)
    IN IF plan.model = running THEN plan.account ELSE None

\* startAnyway: the accounts come as they were added.
LastResort(S, active) ==
    IF active \in S THEN active ELSE First(SelectSeq(Registry, LAMBDA a : a \in S))

\* reliefPlan, of a session at its account's limit: an account with room on its model, in
\* place; nothing where a relaunch would find one; else a guess among those Claude can
\* take in place that it has not seen out.
ReliefPlan(ask, takes, seenOut, strategy) ==
    LET roomy == ReliefAccount((ask.usable \ {on}) \cap takes, ask.order, ask.running,
                               ask.spent)
        restart == PickAccount(ask.usable \ {on},
                     [order |-> ask.order, running |-> ask.running, busy |-> None, pin |-> None,
                      sameModel |-> TRUE, strategy |-> strategy, spent |-> ask.spent])
    IN IF roomy # None THEN [account |-> roomy, guess |-> FALSE]
       ELSE [account |-> IF restart.account # None THEN None
                         ELSE LastResort(takes \ (seenOut \cup {on}), None),
             guess |-> TRUE]

\* Mutant: any score stands for room.
DestinationByScore(S, leaving, order, m) ==
    LET rank(a) == IF order = "priority" THEN -Priority[a] ELSE RoomOf(order, a, m)
        able == S \ {leaving}
    IN First(SelectSeq(Registry, LAMBDA a : a \in able /\ \A b \in able : rank(a) >= rank(b)))
\* destinationFor, of a conversation leaving Desktop: the first added of several.
Destination(S, leaving, order, m) ==
    LET rank(a) == IF order = "priority" THEN -Priority[a] ELSE RoomOf(order, a, m)
        able == {a \in S \ {leaving} : RemainingRoom(a) > 0 /\ (order = "smart" => Runway(a, m) > 0)}
    IN First(SelectSeq(Registry, LAMBDA a : a \in able /\ \A b \in able : rank(a) >= rank(b)))

\* nextMove: the account the dashboard names, and the place it numbers each.
NextUp(S, order, strategy, spent) ==
    PlanRotation(InOrder(order, Preference[1], S), Preference[1], strategy, spent).account
CanRunChain(a, spent) == \E m \in Ranked : Usable(a, m, spent)
Numbered(S, order, spent) ==
    SelectSeq(InOrder(order, Preference[1], S), LAMBDA a : CanRunChain(a, spent))

(***************************************************************************)
(* Early moves (headroom.ts, proactive.ts).                                *)
(***************************************************************************)
\* Enough room, under the threshold, and read: never a gamble.
Roomier(a, from) ==
    /\ a # from /\ BindingUtilization(a, None) # None
    /\ BindingUtilization(a, None) < Threshold
    /\ BindingUtilization(a, None) + Hysteresis <= BindingUtilization(from, None)

\* decideProactiveSwitch: the roomiest, the first added of several.
EarlyTarget(from, S) ==
    IF \/ BindingUtilization(from, None) = None
       \/ BindingUtilization(from, None) < Threshold
       \/ \A a \in S : ~Roomier(a, from)
    THEN None
    ELSE LET best == Min({BindingUtilization(a, None) : a \in {b \in S : Roomier(b, from)}})
         IN First(SelectSeq(Registry, LAMBDA a : a \in S /\ Roomier(a, from)
                                                 /\ BindingUtilization(a, None) = best))

\* decideRotation, the daemon's.
DaemonTarget(from) ==
    IF ~IsCapped(from) \/ \A a \in Registered \ {from} : IsCapped(a) THEN None
    ELSE LET able == {a \in Registered \ {from} : ~IsCapped(a)}
             most == Max({RemainingRoom(a) : a \in able})
         IN First(SelectSeq(Registry, LAMBDA a : a \in able /\ RemainingRoom(a) = most))

\* The tick of a session, with the accounts it may move to.
MovesEarly(S) ==
    /\ EarlyTarget(on, S) # None
    /\ on' = EarlyTarget(on, S)
    /\ left' = left \cup {on}
    /\ returned' = (returned \/ on' \in left)
    /\ UNCHANGED <<now, read>>

(***************************************************************************)
(* Readings and time.                                                      *)
(***************************************************************************)
Climbs(old, ends, new) == old # None /\ WindowIsOpen(ends) => new >= old

\* An idle window has no end yet; one begun keeps its own.
NewEnd(a, new) ==
    IF new.five \in {None, 0} THEN None
    ELSE IF read[a].fiveEnds # None /\ WindowIsOpen(read[a].fiveEnds) THEN read[a].fiveEnds
    ELSE now + 1

Reads(a) ==
    /\ \E new \in Readings[a], length \in 1..WeekLength :
         LET old == read[a]
             running == old.weekEnds # None /\ WindowIsOpen(old.weekEnds)
         IN /\ Climbs(old.five, old.fiveEnds, new.five)
            /\ Climbs(old.week, old.weekEnds, new.week) /\ Climbs(old.model, old.weekEnds, new.model)
            /\ old = Unread \/ length = WeekLength
            /\ read' = [read EXCEPT ![a] =
                 [five |-> new.five, week |-> new.week, model |-> new.model,
                  fiveEnds |-> NewEnd(a, new),
                  weekEnds |-> IF running THEN old.weekEnds ELSE now + length]]
    /\ UNCHANGED <<now, on, left, returned>>

Tick ==
    /\ now < MaxTime /\ now' = now + 1
    /\ left' = {a \in left : now' \notin {read[a].fiveEnds, read[a].weekEnds}}
    /\ UNCHANGED <<read, on, returned>>

Init ==
    /\ now = 0 /\ read = [a \in Registered |-> Unread]
    /\ on \in Registered /\ left = {} /\ returned = FALSE

Next == Tick \/ (\E a \in DOMAIN Readings : Reads(a)) \/ (\E pool \in Pools : MovesEarly(pool.usable))

Spec == Init /\ [][Next]_vars

(***************************************************************************)
(* Properties.                                                             *)
(***************************************************************************)
\* The score ranks as runway.ts says in words: worth a move before all else, then healthy
\* with half a window, then runway in tenths, then the week that would go unused.
RanksAsSaid ==
    \A a, b \in Registered, m \in Ranked :
        LET worth == <<WorthMoving(a, m), WorthMoving(b, m)>>
            well == <<Healthy(a, m), Healthy(b, m)>>
            runs == <<Tenths(a, m), Tenths(b, m)>>
            ahead == \/ worth[1] /\ ~worth[2]
                     \/ /\ worth[1] = worth[2]
                        /\ \/ well[1] /\ ~well[2]
                           \/ /\ well[1] = well[2]
                              /\ \/ runs[1] > runs[2]
                                 \/ /\ runs[1] = runs[2] /\ Runway(a, m) > 0
                                    /\ \/ Urgency(a) > Urgency(b)
                                       \/ Runway(b, m) = 0 /\ Urgency(a) > 0
        IN PickScore(a, m) > PickScore(b, m) <=> ahead

\* A limit that has lifted holds an account back in none of the places that read it.
LiftedLimitsLift ==
    \A a \in Registered :
        (\A w \in {<<read[a].five, read[a].fiveEnds>>, <<read[a].week, read[a].weekEnds>>,
                   <<read[a].model, read[a].weekEnds>>} :
            w[1] \in {None, 0} \/ ~WindowIsOpen(w[2])) =>
          /\ \A m \in Ranked : HasRoomFor(a, m) /\ Runway(a, m) = Window /\ ~HeldBack(a, m)
          /\ RemainingRoom(a) = 100 /\ ~IsCapped(a)
          /\ BindingUtilization(a, None) \in {None, 0}
          /\ EarlyTarget(a, Registered) = None
          /\ DaemonTarget(a) = None

\* The plan is the first usable pair of its rule: the model changes only where nobody
\* has room on the one in use, or nobody earlier has room at all; and it gives up only
\* where no pair is left.
PlansTheFirst ==
    \A pool \in Pools, running \in Ranked, order \in Orders :
        LET S == pool.usable
            spent == pool.spent
            ordered == InOrder(order, running, S)
            earlier(a, b) == Before(order, running, a, b)
            byModel == PlanRotation(ordered, running, "model-first", spent)
            byAccount == PlanRotation(ordered, running, "account-first", spent)
            able == {a \in S : Usable(a, running, spent)}
            any == {a \in S : CanRunChain(a, spent)}
        IN /\ (byModel = Exhausted) = (any = {}) /\ (byAccount = Exhausted) = (any = {})
           /\ able # {} => /\ byModel.model = running /\ byModel.account \in able
                           /\ \A a \in able : ~earlier(a, byModel.account)
           /\ any # {} => /\ \A a \in any : ~earlier(a, byAccount.account)
                          /\ byAccount.model = running <=> byAccount.account \in able

\* A limit under a running Claude moves it where a relaunch would have started it; where
\* it cannot, a relaunch would have changed the model or found nothing.
ReliefAgreesWithStart ==
    \A pool \in Pools, running \in Ranked, order \in Orders :
        LET S == pool.usable
            spent == pool.spent
            start == PickAccount(S, [order |-> order, running |-> running, busy |-> None, pin |-> None,
                                     sameModel |-> TRUE, strategy |-> "model-first", spent |-> spent])
            relief == ReliefAccount(S, order, running, spent)
        IN IF relief # None THEN start = [account |-> relief, model |-> running]
           ELSE start.model # running

\* A session at its limit moves without a restart to the account a restart would choose
\* among those Claude can take; it guesses only where no account has room, never back onto
\* one it has seen out; and it is given up only where a restart or nothing is left.
ReliefIsLastOrSure ==
    \A pool \in Pools, running \in Ranked, order \in Orders,
       takes \in {Registered, Registered \ {Registry[1]}}, seenOut \in {{}, {Registry[2]}} :
        LET ask == [usable |-> pool.usable, spent |-> pool.spent, order |-> order, running |-> running]
            relief == ReliefPlan(ask, takes, seenOut, "model-first")
            others == pool.usable \ {on}
            able == {a \in others \cap takes : Usable(a, running, pool.spent)}
            anyRoom == \E a \in others, m \in ToSet(ModelChain(running)) : Usable(a, m, pool.spent)
        IN IF able # {}
           THEN relief.account \in able /\ \A a \in able : ~Before(order, running, a, relief.account)
           ELSE /\ (relief.account = None) = (anyRoom \/ takes \subseteq seenOut \cup {on})
                /\ relief.account # None => relief.account \in takes \ (seenOut \cup {on})

\* A conversation leaving Desktop goes to an account with room, another than the one it
\* leaves; by the smart order to one a session on its model would move to as well, and
\* nowhere only where such a session would find none.
DestinationAsSessions ==
    \A pool \in Pools, m \in Ranked, leaving \in Registered, order \in Orders :
        LET others == pool.usable \ {leaving}
            to == Destination(pool.usable, leaving, order, m)
            session == ReliefAccount(others, order, m, {})
        IN /\ to # None => to \in others /\ ~AccountOut(to)
           /\ to = None => session = None
           /\ order = "smart" =>
                 /\ session = None => to = None
                 /\ to # None => HasRoomFor(to, m) /\ PickScore(to, m) = PickScore(session, m)

\* A worker starts where nobody runs, when such an account is healthy; never on one
\* nearly spent while a healthy one is there to share.
WorkersSpread ==
    \A S \in {pool.usable : pool \in Pools}, busy \in SUBSET Registered, order \in Orders, m \in Ranked :
        LET well == {a \in S : WorthMoving(a, m) /\ Healthy(a, m)}
            start == PickAccount(S, [order |-> order, running |-> m, busy |-> busy, pin |-> None,
                                     sameModel |-> FALSE, strategy |-> "model-first", spent |-> {}]).account
        IN /\ S # {} => start \in S
           /\ well # {} => start \in well
           /\ well \ busy # {} => start \notin busy

\* The account the dashboard names next is one it numbers, the first where nothing is spent.
NextUpIsNumbered ==
    \A pool \in Pools, order \in Orders, strategy \in Strategies :
        LET next == NextUp(pool.usable, order, strategy, pool.spent)
            numbers == Numbered(pool.usable, order, pool.spent)
        IN IF next = None THEN numbers = <<>>
           ELSE /\ next \in ToSet(numbers)
                /\ strategy = "account-first" => next = numbers[1]

\* Early moves never bring a session back to an account it left early, nearly out, before
\* a window of that account is over: two such accounts cannot pass it back and forth.
NoWayBack == ~returned

TypeOK ==
    /\ now \in 0..MaxTime /\ on \in Registered /\ left \subseteq Registered
    /\ \A a \in Registered : read[a].fiveEnds # None => read[a].fiveEnds \in 1..(now + 1)

Inv ==
    /\ TypeOK /\ RanksAsSaid /\ LiftedLimitsLift /\ PlansTheFirst
    /\ ReliefAgreesWithStart /\ ReliefIsLastOrSure /\ DestinationAsSessions
    /\ WorkersSpread /\ NextUpIsNumbered /\ NoWayBack

=============================================================================
