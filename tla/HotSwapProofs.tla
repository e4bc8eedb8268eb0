--------------------------- MODULE HotSwapProofs ---------------------------
(***************************************************************************)
(* Proofs about what launches Claude, for any accounts, models, refusals   *)
(* and workers: the swap loop refuses only with nothing to start, records  *)
(* limits of accounts that are out and resumes the conversation when there *)
(* is one; a headless launch finds its limits and no others; a worker      *)
(* tells the truth of its launches; and workers spread over the accounts.  *)
(***************************************************************************)
EXTENDS MCLaunches, Sequences, FiniteSetTheorems, WellFoundedInduction, TLAPS

\* Whoever was offered as a last resort is under way or was found to need a
\* sign-in: the loop only comes back from a last resort for that.
TriedInv ==
    /\ mode = "picking" => tried \subseteq needsLogin
    /\ mode \in {"starting", "running"} /\ ~anyway => tried \subseteq needsLogin
    /\ mode \in {"starting", "running"} => tried \subseteq needsLogin \cup {account}

\* The loop takes the next launch for the first until a Claude has run that was
\* no last resort.
FirstInv ==
    /\ mode \in {"picking", "starting"} => (began <=> ~first)
    /\ mode = "starting" => (resumed <=> ~first)
    /\ mode = "running" /\ anyway => (began <=> ~first)
    /\ mode = "running" /\ ~anyway => began

\* A launch has an account, from its start to its end.
OnInv ==
    /\ mode \in {"starting", "running"} => account \in Accounts
    /\ mode = "running" => on \in Accounts

HInv == TypeOK /\ RefusesWithNothing /\ LedgerIsTrue /\ TriedInv /\ FirstInv /\ OnInv

-----------------------------------------------------------------------------

LEMMA InitHInv == Init => HInv
  BY HotSwapAssumption
  DEF Init, HInv, TypeOK, RefusesWithNothing, LedgerIsTrue, TriedInv, FirstInv,
     OnInv, Kinds

LEMMA TypeStep == TypeOK /\ OnInv /\ [Next]_vars => TypeOK' /\ OnInv'
<1> SUFFICES ASSUME TypeOK, OnInv, [Next]_vars
             PROVE  TypeOK' /\ OnInv'
  OBVIOUS
<1> USE HotSwapAssumption DEF TypeOK, OnInv, loop, launch, world, Kinds
<1>1. CASE TakesForced
  BY <1>1 DEF TakesForced, Launches
<1>2. CASE Refuses
  BY <1>2 DEF Refuses
<1>3. ASSUME NEW acc \in Accounts, Picks(acc) PROVE TypeOK' /\ OnInv'
  BY <1>3 DEF Picks, Launches
<1>4. ASSUME NEW acc \in Accounts, StartsAnyway(acc) PROVE TypeOK' /\ OnInv'
  BY <1>4 DEF StartsAnyway, Launches
<1>5. CASE LoginFinished
  BY <1>5 DEF LoginFinished
<1>6. CASE Starts
  BY <1>6 DEF Starts
<1>7. CASE Ends
  BY <1>7 DEF Ends
<1>8. CASE SignedOutAnyway
  BY <1>8 DEF SignedOutAnyway
<1>9. CASE RunsOutOfRoom
  BY <1>9 DEF RunsOutOfRoom, GoesOn
<1>10. CASE IsHeld
  BY <1>10 DEF IsHeld, GoesOn
<1>11. CASE SignedOut
  BY <1>11 DEF SignedOut, GoesOn
<1>12. ASSUME NEW kind \in Kinds, EndsAnyway(kind) PROVE TypeOK' /\ OnInv'
  BY <1>12 DEF EndsAnyway
<1>13. ASSUME NEW model \in Models, RunsOutOfModel(model) PROVE TypeOK' /\ OnInv'
  <2>1. on \in Accounts
    BY <1>13 DEF RunsOutOfModel, GoesOn
  <2>2. capped' \subseteq Accounts
    BY <1>13, <2>1 DEF RunsOutOfModel
  <2>3. modelCapped' = modelCapped \/ modelCapped' = modelCapped \cup {<<on, model>>}
    BY <1>13 DEF RunsOutOfModel
  <2>4. <<on, model>> \in Accounts \X Models
    BY <2>1
  <2>5. modelCapped' \subseteq Accounts \X Models
    BY <2>3, <2>4
  <2>6. /\ mode' = "picking" /\ outcome' = "capped" /\ first' = FALSE
        /\ UNCHANGED <<needsLogin, held, forced, tried, account, on, anyway, resumed, began,
                       spent, ledger, dead, noted>>
    BY <1>13 DEF RunsOutOfModel, GoesOn
  <2> QED
    BY <2>2, <2>5, <2>6
<1>14. ASSUME NEW acc \in Accounts, MovesInPlace(acc) PROVE TypeOK' /\ OnInv'
  BY <1>14 DEF MovesInPlace
<1>15. ASSUME NEW acc \in Accounts, HoldLifts(acc) PROVE TypeOK' /\ OnInv'
  BY <1>15 DEF HoldLifts
<1>16. ASSUME NEW acc \in Accounts, \/ IsSpent(acc) \/ Resets(acc) \/ OtherConfirms(acc)
                                  \/ LoginDies(acc) \/ SignsIn(acc)
       PROVE  TypeOK' /\ OnInv'
  BY <1>16 DEF IsSpent, Resets, OtherConfirms, LoginDies, SignsIn, Changes
<1>17. ASSUME NEW acc \in Accounts, NEW usable \in BOOLEAN, Switches(acc, usable) PROVE TypeOK' /\ OnInv'
  BY <1>17 DEF Switches, GoesOn
<1>18. CASE UNCHANGED vars
  BY <1>18 DEF vars
<1> QED
  BY <1>1, <1>2, <1>3, <1>4, <1>5, <1>6, <1>7, <1>8, <1>9, <1>10, <1>11, <1>12, <1>13,
     <1>14,
     <1>15, <1>16, <1>17, <1>18 DEF Next, Chooses, Done

LEMMA LedgerStep == LedgerIsTrue /\ [Next]_vars => LedgerIsTrue'
<1> SUFFICES ASSUME LedgerIsTrue, [Next]_vars
             PROVE  LedgerIsTrue'
  OBVIOUS
<1> USE DEF LedgerIsTrue
<1>1. CASE UNCHANGED world
  BY <1>1 DEF world
<1>2. CASE UNCHANGED <<spent, ledger>>
  BY <1>2
<1>3. CASE RunsOutOfRoom
  BY <1>3 DEF RunsOutOfRoom, GoesOn
<1>4. ASSUME NEW acc \in Accounts, IsSpent(acc) \/ Resets(acc) \/ OtherConfirms(acc) PROVE LedgerIsTrue'
  BY <1>4 DEF IsSpent, Resets, OtherConfirms
<1>5. CASE UNCHANGED vars
  BY <1>5 DEF vars, world
<1>6. ASSUME Chooses PROVE UNCHANGED world
  BY <1>6 DEF Chooses, TakesForced, Refuses, Picks, StartsAnyway, Launches
<1>7. ASSUME NEW acc \in Accounts, \/ MovesInPlace(acc) \/ HoldLifts(acc) \/ LoginDies(acc) \/ SignsIn(acc)
                                 \/ \E usable \in BOOLEAN : Switches(acc, usable)
      PROVE  UNCHANGED <<spent, ledger>>
  BY <1>7 DEF MovesInPlace, HoldLifts, LoginDies, SignsIn, Switches, GoesOn, world
<1>8. ASSUME \/ LoginFinished \/ Starts \/ Ends \/ SignedOutAnyway \/ IsHeld \/ SignedOut
             \/ \E kind \in Kinds : EndsAnyway(kind)
             \/ \E model \in Models : RunsOutOfModel(model)
      PROVE  UNCHANGED <<spent, ledger>>
  BY <1>8 DEF LoginFinished, Starts, Ends, SignedOutAnyway, IsHeld, SignedOut, EndsAnyway,
              RunsOutOfModel, GoesOn, world
<1> QED
  BY <1>1, <1>2, <1>3, <1>4, <1>5, <1>6, <1>7, <1>8 DEF Next, Done

LEMMA TriedStep ==
    TypeOK /\ TriedInv /\ RefusesWithNothing /\ [Next]_vars => TriedInv' /\ RefusesWithNothing'
<1> SUFFICES ASSUME TypeOK, TriedInv, RefusesWithNothing, [Next]_vars
             PROVE  TriedInv' /\ RefusesWithNothing'
  OBVIOUS
<1> USE DEF TypeOK, TriedInv, RefusesWithNothing, loop, launch, world
<1>1. CASE TakesForced
  BY <1>1 DEF TakesForced, Launches
<1>2. CASE Refuses
  <2>1. Accounts \subseteq tried \cup needsLogin \cup held \cup noted
    BY <1>2 DEF Refuses, LastResorts
  <2> QED
    BY <1>2, <2>1 DEF Refuses
<1>3. ASSUME NEW acc \in Accounts, Picks(acc) PROVE TriedInv' /\ RefusesWithNothing'
  BY <1>3 DEF Picks, Launches
<1>4. ASSUME NEW acc \in Accounts, StartsAnyway(acc) PROVE TriedInv' /\ RefusesWithNothing'
  BY <1>4 DEF StartsAnyway, Launches
<1>5. CASE LoginFinished
  BY <1>5 DEF LoginFinished
<1>6. CASE Starts
  BY <1>6 DEF Starts
<1>7. CASE Ends
  BY <1>7 DEF Ends
<1>8. CASE SignedOutAnyway
  BY <1>8 DEF SignedOutAnyway
<1>9. CASE RunsOutOfRoom
  BY <1>9 DEF RunsOutOfRoom, GoesOn
<1>10. CASE IsHeld
  BY <1>10 DEF IsHeld, GoesOn
<1>11. CASE SignedOut
  BY <1>11 DEF SignedOut, GoesOn
<1>12. ASSUME NEW kind \in Kinds, EndsAnyway(kind) PROVE TriedInv' /\ RefusesWithNothing'
  BY <1>12 DEF EndsAnyway
<1>13. ASSUME NEW model \in Models, RunsOutOfModel(model) PROVE TriedInv' /\ RefusesWithNothing'
  BY <1>13 DEF RunsOutOfModel, GoesOn
<1>14. ASSUME NEW acc \in Accounts, MovesInPlace(acc) PROVE TriedInv' /\ RefusesWithNothing'
  BY <1>14 DEF MovesInPlace
<1>15. ASSUME NEW acc \in Accounts, HoldLifts(acc) PROVE TriedInv' /\ RefusesWithNothing'
  BY <1>15 DEF HoldLifts, Going
<1>16. ASSUME NEW acc \in Accounts, \/ IsSpent(acc) \/ Resets(acc) \/ OtherConfirms(acc)
                                  \/ LoginDies(acc) \/ SignsIn(acc)
       PROVE  TriedInv' /\ RefusesWithNothing'
  BY <1>16 DEF IsSpent, Resets, OtherConfirms, LoginDies, SignsIn, Changes, Going
<1>17. ASSUME NEW acc \in Accounts, NEW usable \in BOOLEAN, Switches(acc, usable)
       PROVE  TriedInv' /\ RefusesWithNothing'
  BY <1>17 DEF Switches, GoesOn
<1>18. CASE UNCHANGED vars
  BY <1>18 DEF vars
<1> QED
  BY <1>1, <1>2, <1>3, <1>4, <1>5, <1>6, <1>7, <1>8, <1>9, <1>10, <1>11, <1>12, <1>13,
     <1>14,
     <1>15, <1>16, <1>17, <1>18 DEF Next, Chooses, Done

LEMMA FirstStep == FirstInv /\ TypeOK /\ [Next]_vars => FirstInv'
<1> SUFFICES ASSUME FirstInv, TypeOK, [Next]_vars
             PROVE  FirstInv'
  OBVIOUS
<1> USE DEF FirstInv, TypeOK, loop, launch
<1>1. CASE TakesForced
  BY <1>1 DEF TakesForced, Launches
<1>2. CASE Refuses
  BY <1>2 DEF Refuses
<1>3. ASSUME NEW acc \in Accounts, Picks(acc) PROVE FirstInv'
  BY <1>3 DEF Picks, Launches
<1>4. ASSUME NEW acc \in Accounts, StartsAnyway(acc) PROVE FirstInv'
  BY <1>4 DEF StartsAnyway, Launches
<1>5. CASE LoginFinished
  BY <1>5 DEF LoginFinished
<1>6. CASE Starts
  BY <1>6 DEF Starts
<1>7. CASE Ends
  BY <1>7 DEF Ends
<1>8. CASE SignedOutAnyway
  BY <1>8 DEF SignedOutAnyway
<1>9. CASE RunsOutOfRoom
  BY <1>9 DEF RunsOutOfRoom, GoesOn
<1>10. CASE IsHeld
  BY <1>10 DEF IsHeld, GoesOn
<1>11. CASE SignedOut
  BY <1>11 DEF SignedOut, GoesOn
<1>12. ASSUME NEW kind \in Kinds, EndsAnyway(kind) PROVE FirstInv'
  BY <1>12 DEF EndsAnyway
<1>13. ASSUME NEW model \in Models, RunsOutOfModel(model) PROVE FirstInv'
  BY <1>13 DEF RunsOutOfModel, GoesOn
<1>14. ASSUME NEW acc \in Accounts, MovesInPlace(acc) PROVE FirstInv'
  BY <1>14 DEF MovesInPlace
<1>15. ASSUME NEW acc \in Accounts, HoldLifts(acc) PROVE FirstInv'
  BY <1>15 DEF HoldLifts
<1>16. ASSUME NEW acc \in Accounts, \/ IsSpent(acc) \/ Resets(acc) \/ OtherConfirms(acc)
                                  \/ LoginDies(acc) \/ SignsIn(acc)
       PROVE  FirstInv'
  BY <1>16 DEF IsSpent, Resets, OtherConfirms, LoginDies, SignsIn, Changes
<1>17. ASSUME NEW acc \in Accounts, NEW usable \in BOOLEAN, Switches(acc, usable) PROVE FirstInv'
  BY <1>17 DEF Switches, GoesOn
<1>18. CASE UNCHANGED vars
  BY <1>18 DEF vars
<1> QED
  BY <1>1, <1>2, <1>3, <1>4, <1>5, <1>6, <1>7, <1>8, <1>9, <1>10, <1>11, <1>12, <1>13,
     <1>14,
     <1>15, <1>16, <1>17, <1>18 DEF Next, Chooses, Done

LEMMA AlwaysHInv == Spec => []HInv
<1>1. HInv /\ [Next]_vars => HInv'
  BY TypeStep, LedgerStep, TriedStep, FirstStep DEF HInv
<1> QED
  BY InitHInv, <1>1, PTL DEF Spec

-----------------------------------------------------------------------------

\* A launch resumes the conversation exactly when a Claude has run that was no
\* last resort, whatever launches came to nothing in between.
THEOREM Resumes == Spec => []ResumesConversation
<1>1. HInv => ResumesConversation
  BY DEF HInv, FirstInv, ResumesConversation
<1> QED
  BY AlwaysHInv, <1>1, PTL

\* Every variable keeps its type, ccx refuses to start only when each account
\* needs a sign-in or is held off, only accounts that are out are recorded as
\* out, and the conversation is resumed, however many accounts there are.
THEOREM Invariant == Spec => []Inv
<1>1. HInv => Inv
  BY DEF HInv, FirstInv, ResumesConversation, Inv
<1> QED
  BY AlwaysHInv, <1>1, PTL

-----------------------------------------------------------------------------
(* Sets of numbers *)

\* Natural numbers of a set have a least, and those up to a bound a greatest.
LEMMA Least ==
    ASSUME NEW T \in SUBSET Nat, T # {}
    PROVE  \E x \in T : \A y \in T : x <= y
<1> DEFINE R == {ss \in Nat \X Nat : ss[1] < ss[2]}
<1>1. IsWellFoundedOn(R, Nat)
  BY NatLessThanWellFounded DEF OpToRel
<1>2. \E x \in T : \A y \in T : ~ (<<y, x>> \in R)
  <2> HIDE DEF R
  <2>1. QED
    BY <1>1, WFMin
<1>3. PICK x \in T : \A y \in T : ~ (<<y, x>> \in R)
  BY <1>2
<1>4. \A y \in T : x <= y
  <2> SUFFICES ASSUME NEW y \in T PROVE x <= y
    OBVIOUS
  <2>1. ~(<<y, x>> \in R) /\ <<y, x>> \in Nat \X Nat
    BY <1>3
  <2>2. ~(y < x)
    BY <2>1
  <2>3. x \in Nat /\ y \in Nat
    OBVIOUS
  <2>4. QED
    BY <2>2, <2>3
<1>5. QED
  BY <1>4

LEMMA Greatest ==
    ASSUME NEW top \in Nat, NEW T \in SUBSET (0..top), T # {}
    PROVE  \E x \in T : \A y \in T : y <= x
<1> DEFINE Over == {k \in Nat : \A y \in T : y <= k}
<1>1. top \in Over
  OBVIOUS
<1>2. PICK k \in Over : \A j \in Over : k <= j
  BY <1>1, Least
<1>3. k \in T
  <2> SUFFICES ASSUME k \notin T PROVE FALSE
    OBVIOUS
  <2>1. k \in Nat /\ \A y \in T : y \in Nat /\ y <= k /\ y # k
    OBVIOUS
  <2>2. k # 0
    <3>1. PICK y \in T : TRUE
      OBVIOUS
    <3>2. QED
      BY <2>1, <3>1
  <2>3. k - 1 \in Nat /\ \A y \in T : y <= k - 1
    BY <2>1, <2>2
  <2>4. k - 1 \in Over
    BY <2>3
  <2>5. QED
    BY <1>2, <2>1, <2>4
<1>4. QED
  BY <1>3

-----------------------------------------------------------------------------
(* One launch *)

\* Only this run's own refusals are printed; refusals that are not another
\* Claude's are of an account that is out, logins found finished of a dead one.
OwnInv ==
    /\ \A i \in printed : record[i] = "own"
    /\ \A i \in DOMAIN record : record[i] # "other" => out
    /\ signedOut => loginTurn = "read"
    /\ loginTurn # "none" => loginDead

\* Questions are asked in the record's order, each refusal's once, until the end
\* of the launch asks again.
AskInv ==
    /\ asks.held # Headless!NoAsk => asks.checking # Headless!NoAsk
    /\ phase \in {"running", "draining"} =>
          /\ asks.checking <= read /\ asks.held <= read /\ asks.again <= read
          /\ asks.held # Headless!NoAsk => asks.checking < asks.held
          /\ asks.checking # Headless!NoAsk => asks.again < asks.checking
    /\ Headless!TextOnly \in {asks.checking, asks.held} => printed # {}

\* As long as a limit would be acted on, the last refusal, read and this run's own, is
\* being asked about, is next, or waits for its output; and once the launch
\* waits for answers, one that its output shows is among those asked about.
Counts == readable /\ ~ignored /\ ~lost /\ ~Headless!Stopped

PendingInv ==
    Counts =>
      LET last == Len(record) IN
      /\ phase \in {"running", "draining"} /\ read = last /\ last > 0 /\ record[last] = "own" =>
            last \in {asks.checking, asks.held, asks.again}
      /\ phase = "waiting" /\ last \in printed => {asks.checking, asks.held} \cap printed # {}

HeadInv ==
    /\ Headless!TypeOK /\ Headless!CappedIsTrue /\ Headless!LimitIsNotMissed
    /\ Headless!OutcomeIsTrue /\ OwnInv /\ AskInv /\ PendingInv

Asks == [checking : 0..Headless!TextOnly, held : 0..Headless!TextOnly, again : 0..MaxRefusals]

\* What checkRecord asks while Claude runs or its output is still coming.
LEMMA Questions ==
    ASSUME Headless!TypeOK, AskInv, phase \in {"running", "draining"},
           NEW q, q = Headless!AskedOfRecord(asks)
    PROVE  /\ q \in Asks /\ q.again = asks.again
           /\ q.checking <= Len(record) /\ q.held <= Len(record)
           /\ q.held # 0 => q.checking # 0 /\ q.checking < q.held
           /\ q.checking # 0 => q.again < q.checking
           /\ q # asks => readable /\ Headless!MayAsk /\ ~signedOut /\ read < Len(record)
           /\ /\ readable /\ Headless!MayAsk /\ ~signedOut
              /\ read < Len(record) /\ record[Len(record)] # "subagent"
              => Len(record) \in {q.checking, q.held}
<1> DEFINE U == Headless!Unread
           len == Len(record)
           asked == IF asks.checking = 0 THEN [asks EXCEPT !.checking = Headless!Min(U)] ELSE asks
           met == U \ {asked.checking}
<1>1. /\ len \in Nat /\ len <= MaxRefusals /\ read \in 0..len /\ asks \in Asks /\ MaxRefusals \in Nat
      /\ record \in Seq({"own", "subagent", "other"})
  BY HeadlessAssumption DEF Headless!TypeOK, Asks
<1>2. U \subseteq read + 1..len /\ U \subseteq 1..len
  BY <1>1 DEF Headless!Unread
<1>3. /\ asks.held # 0 => asks.checking # 0 /\ asks.checking < asks.held
      /\ asks.checking <= read /\ asks.held <= read /\ asks.again <= read
      /\ asks.checking # 0 => asks.again < asks.checking
  BY DEF AskInv, Headless!NoAsk
<1>4. CASE ~readable \/ ~Headless!MayAsk \/ signedOut \/ U = {}
  <2>1. q = asks
    BY <1>4 DEF Headless!AskedOfRecord
  <2>2. ~(read < len /\ record[len] # "subagent" /\ U = {})
    BY <1>1 DEF Headless!Unread
  <2> HIDE DEF U, len, asked, met
  <2>3. /\ q.checking <= len /\ q.held <= len
        /\ q.held # 0 => q.checking # 0 /\ q.checking < q.held
        /\ q.checking # 0 => q.again < q.checking
    BY <1>1, <1>3, <2>1 DEF Asks
  <2>4. QED
    BY <1>1, <1>4, <2>1, <2>2, <2>3 DEF len
<1>5. CASE readable /\ Headless!MayAsk /\ ~signedOut /\ U # {}
  <2>1. q = IF met = {} THEN asked ELSE [asked EXCEPT !.held = Headless!Max(met)]
    BY <1>5 DEF Headless!AskedOfRecord, Headless!NoAsk
  <2>2. Headless!Min(U) \in U /\ \A y \in U : Headless!Min(U) <= y
    <3>1. \E x \in U : \A y \in U : x <= y
      BY <1>2, <1>5, Least
    <3>2. QED
      BY <3>1 DEF Headless!Min
  <2>3. met # {} => Headless!Max(met) \in met /\ \A y \in met : y <= Headless!Max(met)
    <3>1. ASSUME met # {} PROVE \E x \in met : \A y \in met : y <= x
      <4>1. met \in SUBSET (0..len)
        BY <1>2
      <4>2. QED
        BY <1>1, <3>1, <4>1, Greatest
    <3>2. \A x, y \in met : x <= y <=> y >= x
      BY <1>2
    <3>3. QED
      BY <3>1, <3>2 DEF Headless!Max
  <2>4. read < len
    <3>1. PICK u \in U : TRUE
      BY <1>5
    <3>2. QED
      BY <1>1, <1>2, <3>1
  <2>5. /\ asked \in Asks /\ asked.again = asks.again /\ asked.held = asks.held
        /\ asked.checking = IF asks.checking = 0 THEN Headless!Min(U) ELSE asks.checking
    BY <1>1, <1>2, <2>2 DEF Asks, Headless!TextOnly
  <2>6. read < len /\ record[len] # "subagent" => len \in U
    BY <1>1 DEF Headless!Unread
  <2>7. \A u \in U : u \in Nat /\ read < u /\ u <= len
    BY <1>1, <1>2
  <2>8. /\ q \in Asks /\ q.again = asks.again /\ q.checking = asked.checking
        /\ q.held = IF met = {} THEN asks.held ELSE Headless!Max(met)
    <3>1. CASE met = {}
      BY <2>1, <2>5, <3>1
    <3>2. CASE met # {}
      <4>1. Headless!Max(met) \in 0..Headless!TextOnly
        BY <1>1, <2>3, <2>7, <3>2 DEF Headless!TextOnly
      <4>2. QED
        BY <2>1, <2>5, <3>2, <4>1 DEF Asks
    <3>3. QED
      BY <3>1, <3>2
  <2>9. q.checking # 0 /\ q.checking <= len /\ q.again < q.checking
    BY <1>1, <1>3, <1>5, <2>2, <2>4, <2>5, <2>7, <2>8 DEF Asks
  <2>10. q.held <= len /\ (q.held # 0 => q.checking < q.held)
    <3>1. CASE met = {}
      <4>1. asks.held = 0 \/ asks.checking # 0
        BY <1>3
      <4>2. QED
        BY <1>1, <1>3, <2>4, <2>5, <2>8, <3>1, <4>1 DEF Asks
    <3>2. CASE met # {}
      <4>1. q.held \in U /\ q.held # q.checking
        BY <2>3, <2>8, <3>2
      <4>2. q.checking <= q.held
        BY <1>1, <1>3, <2>2, <2>5, <2>7, <2>8, <4>1 DEF Asks
      <4>3. q.held \in Nat /\ q.checking \in Nat
        BY <2>8 DEF Asks
      <4>4. QED
        BY <2>7, <4>1, <4>2, <4>3
    <3>3. QED
      BY <3>1, <3>2
  <2>11. len \in U => len \in {q.checking, q.held}
    <3>1. CASE len \in met
      <4>1. Headless!Max(met) \in U /\ len <= Headless!Max(met)
        BY <2>3, <3>1
      <4>2. len = Headless!Max(met)
        BY <1>1, <2>7, <4>1
      <4>3. QED
        BY <2>8, <3>1, <4>2
    <3>2. QED
      BY <2>8, <3>1
  <2>12. QED
    BY <1>5, <2>4, <2>6, <2>8, <2>9, <2>10, <2>11
<1>6. QED
  BY <1>4, <1>5

\* What finish asks in the end: once more about a refusal whose output came, and
\* about the output when there is no record to read.
LEMMA LastQuestions ==
    ASSUME Headless!TypeOK, AskInv, OwnInv, Headless!Finish
    PROVE  /\ asks' \in Asks
           /\ asks'.held # 0 => asks'.checking # 0
           /\ Headless!TextOnly \in {asks'.checking, asks'.held} => printed # {}
           /\ Counts /\ Len(record) \in printed
              /\ (read = Len(record) => Len(record) \in {asks.checking, asks.held, asks.again})
              => {asks'.checking, asks'.held} \cap printed # {}
<1> DEFINE q == Headless!AskedOfRecord(asks)
           q2 == IF asks.again \in printed /\ Headless!MayAsk THEN Headless!Asked(q, asks.again) ELSE q
           q3 == IF ~readable /\ code # 0 /\ Headless!MayAsk /\ printed # {}
                 THEN Headless!Asked(q2, Headless!TextOnly) ELSE q2
<1>1. /\ Len(record) \in Nat /\ Len(record) <= MaxRefusals /\ MaxRefusals \in Nat
      /\ printed \subseteq 1..Len(record) /\ read \in 0..Len(record) /\ asks \in Asks
  BY HeadlessAssumption DEF Headless!TypeOK, Asks
<1>2. phase = "draining"
  BY DEF Headless!Finish
<1>3. /\ q \in Asks /\ q.again = asks.again
      /\ q.checking <= Len(record) /\ q.held <= Len(record)
      /\ q.held # 0 => q.checking # 0 /\ q.checking < q.held
      /\ q.checking # 0 => q.again < q.checking
      /\ q # asks => readable /\ Headless!MayAsk /\ ~signedOut /\ read < Len(record)
      /\ /\ readable /\ Headless!MayAsk /\ ~signedOut
         /\ read < Len(record) /\ record[Len(record)] # "subagent"
         => Len(record) \in {q.checking, q.held}
  BY <1>2, Questions
<1>4. asks' = [q3 EXCEPT !.again = 0]
  BY DEF Headless!Finish, Headless!CheckRecord, Headless!NoAsk
<1> HIDE DEF q
<1>5. /\ q2 \in Asks /\ (q2.held # 0 => q2.checking # 0)
      /\ q2.checking <= Len(record) /\ q2.held <= Len(record)
  BY <1>1, <1>3 DEF Headless!Asked, Headless!NoAsk, Asks, Headless!TextOnly
<1>6. Counts => Headless!MayAsk
  BY DEF Counts, Headless!Stopped, Headless!MayAsk
<1>7. Counts /\ Len(record) \in printed
      /\ (read = Len(record) => Len(record) \in {asks.checking, asks.held, asks.again})
      => {q2.checking, q2.held} \cap printed # {}
  <2> SUFFICES ASSUME Counts, Len(record) \in printed,
                      read = Len(record) => Len(record) \in {asks.checking, asks.held, asks.again}
               PROVE  {q2.checking, q2.held} \cap printed # {}
    OBVIOUS
  <2>1. record[Len(record)] # "subagent"
    BY DEF OwnInv
  <2>2. read < Len(record) => Len(record) \in {q.checking, q.held}
    BY <1>3, <1>6, <2>1 DEF Counts, Headless!Stopped
  <2>3. Len(record) \in {q.checking, q.held, asks.again}
    BY <1>1, <1>3, <2>2
  <2>4. CASE asks.again \in printed
    <3>1. q2 = Headless!Asked(q, asks.again)
      BY <1>6, <2>4
    <3>2. asks.again \in {q2.checking, q2.held}
      BY <3>1, <1>3 DEF Headless!Asked, Asks
    <3>3. QED
      BY <2>4, <3>2
  <2>5. CASE asks.again \notin printed
    BY <2>3, <2>5
  <2>6. QED
    BY <2>4, <2>5
<1> HIDE DEF q2
<1>8. /\ q3 \in Asks /\ (q3.held # 0 => q3.checking # 0)
      /\ Headless!TextOnly \in {q3.checking, q3.held} => printed # {}
      /\ readable => q3 = q2
  BY <1>1, <1>5, SMTT(30) DEF Headless!Asked, Headless!NoAsk, Asks, Headless!TextOnly
<1> HIDE DEF q3
<1>9. asks' \in Asks /\ asks'.checking = q3.checking /\ asks'.held = q3.held
  BY <1>1, <1>4, <1>8 DEF Asks
<1>10. QED
  BY <1>7, <1>8, <1>9 DEF Counts

LEMMA HeadTypes ==
    Headless!TypeOK /\ AskInv /\ OwnInv /\ [Headless!Next]_(Headless!vars) => Headless!TypeOK'
<1> SUFFICES ASSUME Headless!TypeOK, AskInv, OwnInv, [Headless!Next]_(Headless!vars)
             PROVE  Headless!TypeOK'
  OBVIOUS
<1> USE HeadlessAssumption DEF Headless!TypeOK, Headless!evidence, Headless!account, Headless!ending
<1>1. ASSUME NEW yes \in BOOLEAN, NEW repeat \in BOOLEAN, Headless!Answered(yes, repeat),
             repeat => asks.checking # Headless!TextOnly, lost' \in BOOLEAN
      PROVE  Headless!TypeOK'
  <2>1. runCapped' \in BOOLEAN
    BY <1>1 DEF Headless!Answered
  <2>2. asks' \in [checking : 0..Headless!TextOnly, held : 0..Headless!TextOnly, again : 0..MaxRefusals]
    BY <1>1 DEF Headless!Answered, Headless!NoAsk, Headless!TextOnly
  <2>3. QED
    BY <1>1, <2>1, <2>2 DEF Headless!Answered
<1>2. CASE Headless!Confirms \/ Headless!Denies \/ Headless!NotShownYet \/ Headless!CheckFails
  BY <1>1, <1>2 DEF Headless!Confirms, Headless!Denies, Headless!NotShownYet, Headless!CheckFails
<1>3. CASE Headless!LoginAnswered
  BY <1>3 DEF Headless!LoginAnswered
<1>4. CASE Headless!TakesSwitch
  BY <1>4 DEF Headless!TakesSwitch
<1>5. CASE Headless!Polls
  <2>1. asks' \in Asks
    BY <1>5, Questions DEF Headless!Polls, Headless!CheckRecord
  <2>2. QED
    BY <1>5, <2>1 DEF Headless!Polls, Headless!CheckRecord, Asks
<1>6. ASSUME NEW whose \in {"own", "subagent", "other"}, Headless!Refused(whose)
      PROVE  Headless!TypeOK'
  BY <1>6 DEF Headless!Refused
<1>7. ASSUME NEW i \in 1..MaxRefusals, Headless!ShowsRefusal(i) PROVE Headless!TypeOK'
  BY <1>7 DEF Headless!ShowsRefusal
<1>8. CASE Headless!TurnedAway
  BY <1>8 DEF Headless!TurnedAway
<1>9. CASE Headless!Exits
  BY <1>9 DEF Headless!Exits
<1>10. CASE Headless!Finish
  <2>1. asks' \in Asks
    BY <1>10, LastQuestions
  <2>2. QED
    BY <1>10, <2>1 DEF Headless!Finish, Headless!CheckRecord, Asks
<1>11. CASE Headless!Settles \/ Headless!GivesUp
  <2>1. lost' \in BOOLEAN
    BY <1>11 DEF Headless!Settles, Headless!GivesUp
  <2>2. Headless!OutcomeOf \in {"ok", "capped", "switch", "needs-login"}
    BY DEF Headless!OutcomeOf
  <2>3. Headless!Resolves
    BY <1>11 DEF Headless!Settles, Headless!GivesUp
  <2>4. code' \in {0, 1, 124, 143}
    BY <2>3 DEF Headless!Resolves
  <2>5. QED
    BY <2>1, <2>2, <2>3, <2>4 DEF Headless!Resolves
<1>12. CASE Headless!FindsNoConversation
  BY <1>12 DEF Headless!FindsNoConversation
<1>13. ASSUME NEW with \in {124, 143}, Headless!Ends(with) PROVE Headless!TypeOK'
  BY <1>13 DEF Headless!Ends
<1>14. CASE UNCHANGED Headless!vars
  BY <1>14 DEF Headless!vars
<1>15. QED
  BY <1>2, <1>3, <1>4, <1>5, <1>6, <1>7, <1>8, <1>9, <1>10, <1>11, <1>12, <1>13, <1>14
  DEF Headless!Next, Headless!Progress

LEMMA OwnStep ==
    Headless!TypeOK /\ OwnInv /\ [Headless!Next]_(Headless!vars) => OwnInv'
<1> SUFFICES ASSUME Headless!TypeOK, OwnInv, [Headless!Next]_(Headless!vars)
             PROVE  OwnInv'
  OBVIOUS
<1> USE DEF OwnInv, Headless!evidence, Headless!account, Headless!ending
<1>1. ASSUME UNCHANGED <<record, printed, out, signedOut, loginTurn, loginDead>>
      PROVE  OwnInv'
  BY <1>1
<1>2. CASE \/ Headless!Confirms \/ Headless!Denies \/ Headless!NotShownYet \/ Headless!CheckFails
           \/ Headless!TakesSwitch
           \/ Headless!Exits \/ Headless!Settles \/ Headless!GivesUp
           \/ Headless!FindsNoConversation \/ \E with \in {124, 143} : Headless!Ends(with)
  BY <1>1, <1>2
  DEF Headless!Confirms, Headless!Denies, Headless!NotShownYet, Headless!CheckFails,
      Headless!Answered, Headless!TakesSwitch, Headless!Exits, Headless!Settles,
      Headless!GivesUp, Headless!Resolves, Headless!FindsNoConversation, Headless!Ends
<1>3. CASE Headless!LoginAnswered
  BY <1>3 DEF Headless!LoginAnswered
<1>4. CASE Headless!Polls
  BY <1>4 DEF Headless!Polls, Headless!CheckRecord
<1>5. CASE Headless!Finish
  BY <1>5 DEF Headless!Finish, Headless!CheckRecord
<1>6. ASSUME NEW whose \in {"own", "subagent", "other"}, Headless!Refused(whose)
      PROVE  OwnInv'
  <2>1. DOMAIN record' = 1..Len(record) + 1 /\ DOMAIN record = 1..Len(record) /\ Len(record) \in Nat
    BY <1>6 DEF Headless!Refused, Headless!TypeOK
  <2>2. \A i \in DOMAIN record : record'[i] = record[i]
    BY <1>6 DEF Headless!Refused, Headless!TypeOK
  <2>3. record'[Len(record) + 1] = whose
    BY <1>6 DEF Headless!Refused, Headless!TypeOK
  <2>4. printed \subseteq DOMAIN record
    BY DEF Headless!TypeOK
  <2>5. QED
    BY <1>6, <2>1, <2>2, <2>3, <2>4 DEF Headless!Refused
<1>7. ASSUME NEW i \in 1..MaxRefusals, Headless!ShowsRefusal(i) PROVE OwnInv'
  BY <1>7 DEF Headless!ShowsRefusal
<1>8. CASE Headless!TurnedAway
  BY <1>8 DEF Headless!TurnedAway
<1>9. CASE UNCHANGED Headless!vars
  BY <1>9 DEF Headless!vars
<1>10. QED
  BY <1>2, <1>3, <1>4, <1>5, <1>6, <1>7, <1>8, <1>9 DEF Headless!Next, Headless!Progress

LEMMA AskStep ==
    Headless!TypeOK /\ AskInv /\ OwnInv /\ [Headless!Next]_(Headless!vars) => AskInv'
<1> SUFFICES ASSUME Headless!TypeOK, AskInv, OwnInv, [Headless!Next]_(Headless!vars)
             PROVE  AskInv'
  OBVIOUS
<1> USE DEF Headless!evidence, Headless!account, Headless!ending
<1>0. /\ asks \in Asks /\ read \in Nat /\ Len(record) \in Nat /\ read <= Len(record)
      /\ Len(record) <= MaxRefusals /\ MaxRefusals \in Nat
      /\ Headless!TextOnly = MaxRefusals + 1
  BY HeadlessAssumption DEF Headless!TypeOK, Asks, Headless!TextOnly
<1>1. ASSUME UNCHANGED <<asks, read, printed>>,
             phase' \in {"running", "draining"} => phase \in {"running", "draining"}
      PROVE  AskInv'
  BY <1>1 DEF AskInv, Headless!NoAsk, Headless!TextOnly
<1>2. CASE \/ Headless!LoginAnswered \/ Headless!TakesSwitch \/ Headless!TurnedAway
           \/ Headless!Exits \/ Headless!Settles \/ Headless!GivesUp
           \/ Headless!FindsNoConversation
           \/ \E whose \in {"own", "subagent", "other"} : Headless!Refused(whose)
           \/ \E with \in {124, 143} : Headless!Ends(with)
  BY <1>1, <1>2
  DEF Headless!LoginAnswered, Headless!TakesSwitch, Headless!TurnedAway, Headless!Exits,
      Headless!Settles, Headless!GivesUp, Headless!Resolves, Headless!FindsNoConversation,
      Headless!Refused, Headless!Ends
<1>3. ASSUME NEW yes, NEW repeat \in BOOLEAN, Headless!Answered(yes, repeat),
             asks.checking # 0, repeat => asks.checking # Headless!TextOnly
      PROVE  AskInv'
  <2>1. /\ asks'.held = 0
        /\ asks'.checking \in {asks.held, 0}
        /\ asks'.again = IF repeat THEN asks.checking ELSE asks.again
        /\ UNCHANGED <<read, printed, phase>>
    BY <1>3 DEF Headless!Answered, Headless!NoAsk
  <2>2. QED
    BY <1>0, <1>3, <2>1 DEF AskInv, Headless!NoAsk, Asks, Headless!TextOnly
<1>4. CASE Headless!Confirms \/ Headless!Denies \/ Headless!NotShownYet \/ Headless!CheckFails
  BY <1>3, <1>4 DEF Headless!Confirms, Headless!Denies, Headless!NotShownYet,
                    Headless!CheckFails, Headless!NoAsk
<1>5. CASE Headless!Polls
  <2> DEFINE q == Headless!AskedOfRecord(asks)
  <2>1. /\ q \in Asks /\ q.again = asks.again
        /\ q.checking <= Len(record) /\ q.held <= Len(record)
        /\ q.held # 0 => q.checking # 0 /\ q.checking < q.held
        /\ q.checking # 0 => q.again < q.checking
        /\ q # asks => readable /\ Headless!MayAsk /\ ~signedOut /\ read < Len(record)
    BY <1>5, Questions DEF Headless!Polls
  <2>2. asks' = q /\ UNCHANGED <<printed, phase, record>>
    BY <1>5 DEF Headless!Polls, Headless!CheckRecord
  <2>6. /\ read' \in {read, Len(record)}
        /\ readable /\ Headless!MayAsk /\ ~signedOut => read' = Len(record)
    <3>1. Headless!CheckRecord(q)
      BY <1>5 DEF Headless!Polls
    <3>2. QED
      BY <3>1 DEF Headless!CheckRecord, Headless!MayAsk
  <2> HIDE DEF q
  <2>3. asks'.checking <= read' /\ asks'.held <= read' /\ asks'.again <= read'
    <3>1. CASE read' = Len(record)
      BY <1>0, <1>5, <2>1, <2>2, <3>1 DEF AskInv, Asks, Headless!Polls
    <3>2. CASE read' = read /\ q = asks
      BY <1>5, <2>2, <3>2 DEF AskInv, Headless!Polls
    <3>3. QED
      BY <2>1, <2>6, <3>1, <3>2
  <2>4. Headless!TextOnly \notin {asks'.checking, asks'.held}
    BY <1>0, <2>1, <2>2 DEF Asks
  <2>5. QED
    BY <2>1, <2>2, <2>3, <2>4 DEF AskInv, Headless!NoAsk, Headless!TextOnly
<1>6. CASE Headless!Finish
  <2>1. phase' = "waiting" /\ printed' = printed
    BY <1>6 DEF Headless!Finish
  <2>2. QED
    BY <1>6, <2>1, LastQuestions DEF AskInv, Headless!NoAsk, Headless!TextOnly
<1>7. ASSUME NEW i \in 1..MaxRefusals, Headless!ShowsRefusal(i) PROVE AskInv'
  BY <1>7 DEF Headless!ShowsRefusal, AskInv, Headless!NoAsk, Headless!TextOnly
<1>8. CASE UNCHANGED Headless!vars
  BY <1>1, <1>8 DEF Headless!vars
<1>9. QED
  BY <1>2, <1>4, <1>5, <1>6, <1>7, <1>8 DEF Headless!Next, Headless!Progress

LEMMA PendingStep ==
    Headless!TypeOK /\ AskInv /\ OwnInv /\ PendingInv /\ [Headless!Next]_(Headless!vars)
        => PendingInv'
<1> SUFFICES ASSUME Headless!TypeOK, AskInv, OwnInv, PendingInv,
                    [Headless!Next]_(Headless!vars), Counts'
             PROVE  PendingInv'
  BY DEF PendingInv
<1> USE DEF Headless!evidence, Headless!account, Headless!ending
<1>0. /\ asks \in Asks /\ read \in Nat /\ Len(record) \in Nat /\ read <= Len(record)
      /\ printed \subseteq 1..Len(record)
  BY HeadlessAssumption DEF Headless!TypeOK, Asks
<1>1. ASSUME UNCHANGED <<asks, read, printed, record, readable, ignored, lost, runCapped,
                         switchTo, interruptedBy>>,
             UNCHANGED signedOut \/ ~signedOut,
             \/ phase' = phase \/ phase' \notin {"running", "draining", "waiting"}
             \/ phase' = "draining" /\ phase = "running"
      PROVE  PendingInv'
  BY <1>1 DEF PendingInv, Counts, Headless!Stopped
<1>2. CASE \/ Headless!TurnedAway
           \/ Headless!Exits \/ Headless!Settles \/ Headless!FindsNoConversation
  BY <1>1, <1>2
  DEF Headless!TurnedAway, Headless!Exits,
      Headless!Settles, Headless!Resolves, Headless!FindsNoConversation
<1>3. CASE Headless!LoginAnswered
  <2>1. ~signedOut
    BY <1>3 DEF OwnInv, Headless!LoginAnswered
  <2>2. QED
    BY <1>1, <1>3, <2>1 DEF Headless!LoginAnswered
<1>4. CASE Headless!GivesUp \/ Headless!CheckFails \/ Headless!TakesSwitch
  BY <1>4 DEF Headless!GivesUp, Headless!CheckFails, Headless!TakesSwitch, Counts, Headless!Stopped
<1>5. ASSUME NEW with \in {124, 143}, Headless!Ends(with) PROVE PendingInv'
  <2>1. interruptedBy' = interruptedBy
    BY <1>5 DEF Headless!Ends, Counts, Headless!Stopped
  <2>2. QED
    BY <1>1, <1>5, <2>1 DEF Headless!Ends
<1>6. CASE Headless!Confirms
  BY <1>6 DEF Headless!Confirms, Headless!Answered, Counts, Headless!Stopped
<1>7. CASE Headless!Denies
  <2>1. ~out /\ UNCHANGED <<record, printed>>
    BY <1>7 DEF Headless!Denies, Headless!Answered
  <2>2. \A i \in 1..Len(record) : record[i] = "other"
    BY <2>1 DEF OwnInv, Headless!TypeOK
  <2>3. printed = {} /\ (Len(record) > 0 => record[Len(record)] # "own")
    BY <1>0, <2>2 DEF OwnInv
  <2>4. QED
    BY <2>1, <2>3 DEF PendingInv
<1>8. CASE Headless!NotShownYet
  <2>1. /\ asks'.held = 0 /\ asks'.again = asks.checking
        /\ UNCHANGED <<record, printed, read, phase>> /\ asks.checking \notin printed
        /\ asks.checking # 0
    BY <1>8 DEF Headless!NotShownYet, Headless!Answered, Headless!NoAsk
  <2>2. Counts /\ Headless!MayAsk /\ ~runCapped'
    BY <1>8 DEF Headless!NotShownYet, Headless!Answered, Counts, Headless!Stopped, Headless!MayAsk
  <2>3. asks'.checking = asks.held
    BY <1>8, <2>2 DEF Headless!NotShownYet, Headless!Answered
  <2>4. phase \in {"running", "draining"} => asks.again < asks.checking /\ asks.checking <= read
    BY <2>1 DEF AskInv, Headless!NoAsk
  <2>5. asks.again \in Nat /\ asks.checking \in Nat
    BY <1>0 DEF Asks
  <2>6. phase = "waiting" /\ Len(record) \in printed => asks.held \in printed
    BY <2>1, <2>2 DEF PendingInv
  <2>7. QED
    BY <1>0, <2>1, <2>2, <2>3, <2>4, <2>5, <2>6 DEF PendingInv
<1>9. CASE Headless!Polls
  <2>1. /\ phase = "running" /\ asks' = Headless!AskedOfRecord(asks)
        /\ UNCHANGED <<record, printed, phase, readable, ignored, runCapped, switchTo, signedOut,
                       interruptedBy, lost>>
    BY <1>9 DEF Headless!Polls, Headless!CheckRecord
  <2>2. Counts
    BY <2>1 DEF Counts, Headless!Stopped
  <2>3. readable /\ Headless!MayAsk /\ ~signedOut
    BY <2>2 DEF Counts, Headless!Stopped, Headless!MayAsk
  <2>4. CASE read = Len(record)
    <3>1. asks' = asks
      BY <1>0, <2>1, <2>4, Questions
    <3>2. QED
      BY <2>1, <2>2, <2>4, <3>1 DEF PendingInv
  <2>5. CASE read < Len(record)
    <3>1. record[Len(record)] = "own" => Len(record) \in {asks'.checking, asks'.held}
      BY <2>1, <2>3, <2>5, Questions
    <3>2. QED
      BY <2>1, <3>1 DEF PendingInv
  <2>6. QED
    BY <1>0, <2>4, <2>5
<1>10. CASE Headless!Finish
  <2>1. /\ phase = "draining" /\ phase' = "waiting"
        /\ UNCHANGED <<record, printed, readable, ignored, runCapped, switchTo, signedOut,
                       interruptedBy, lost>>
    BY <1>10 DEF Headless!Finish
  <2>2. Counts
    BY <2>1 DEF Counts, Headless!Stopped
  <2>3. Len(record) \in printed /\ read = Len(record)
        => Len(record) \in {asks.checking, asks.held, asks.again}
    BY <1>0, <2>1, <2>2 DEF PendingInv, OwnInv
  <2>4. Len(record) \in printed => {asks'.checking, asks'.held} \cap printed # {}
    BY <1>10, <2>2, <2>3, LastQuestions
  <2>5. QED
    BY <2>1, <2>4 DEF PendingInv
<1>11. ASSUME NEW whose \in {"own", "subagent", "other"}, Headless!Refused(whose)
       PROVE  PendingInv'
  BY <1>0, <1>11 DEF Headless!Refused, PendingInv, Headless!TypeOK
<1>12. ASSUME NEW i \in 1..MaxRefusals, Headless!ShowsRefusal(i) PROVE PendingInv'
  BY <1>12 DEF Headless!ShowsRefusal, PendingInv, Counts, Headless!Stopped
<1>13. CASE UNCHANGED Headless!vars
  BY <1>1, <1>13 DEF Headless!vars
<1>14. QED
  BY <1>2, <1>3, <1>4, <1>5, <1>6, <1>7, <1>8, <1>9, <1>10, <1>11, <1>12, <1>13
  DEF Headless!Next, Headless!Progress

LEMMA CappedStep ==
    Headless!TypeOK /\ AskInv /\ OwnInv /\ Headless!CappedIsTrue
        /\ [Headless!Next]_(Headless!vars) => Headless!CappedIsTrue'
<1> SUFFICES ASSUME Headless!TypeOK, AskInv, OwnInv, Headless!CappedIsTrue,
                    [Headless!Next]_(Headless!vars)
             PROVE  Headless!CappedIsTrue'
  OBVIOUS
<1> USE DEF Headless!CappedIsTrue, Headless!evidence, Headless!account, Headless!ending
<1>1. CASE Headless!Confirms
  <2>1. out /\ out' = out /\ UNCHANGED <<printed, record>>
    BY <1>1 DEF Headless!Confirms, Headless!Answered
  <2>2. printed # {}
    BY <1>1 DEF Headless!Confirms, AskInv
  <2>3. \E i \in printed : record[i] = "own"
    BY <2>2 DEF OwnInv
  <2>4. QED
    BY <2>1, <2>3
<1>2. ASSUME NEW repeat, Headless!Answered(FALSE, repeat) PROVE Headless!CappedIsTrue'
  BY <1>2 DEF Headless!Answered
<1>3. CASE Headless!Denies \/ Headless!NotShownYet \/ Headless!CheckFails
  BY <1>2, <1>3 DEF Headless!Denies, Headless!NotShownYet, Headless!CheckFails
<1>4. CASE \/ Headless!LoginAnswered \/ Headless!TakesSwitch \/ Headless!TurnedAway
           \/ Headless!Exits \/ Headless!Settles \/ Headless!GivesUp \/ Headless!Polls
           \/ Headless!Finish
           \/ Headless!FindsNoConversation \/ \E with \in {124, 143} : Headless!Ends(with)
  BY <1>4
  DEF Headless!LoginAnswered, Headless!TakesSwitch, Headless!TurnedAway, Headless!Exits,
      Headless!Settles, Headless!GivesUp, Headless!Resolves, Headless!Polls, Headless!Finish,
      Headless!CheckRecord, Headless!FindsNoConversation, Headless!Ends
<1>5. ASSUME NEW whose \in {"own", "subagent", "other"}, Headless!Refused(whose)
      PROVE  Headless!CappedIsTrue'
  <2>1. \A i \in printed : record'[i] = record[i]
    BY <1>5 DEF Headless!Refused, Headless!TypeOK
  <2>2. QED
    BY <1>5, <2>1 DEF Headless!Refused
<1>6. ASSUME NEW i \in 1..MaxRefusals, Headless!ShowsRefusal(i) PROVE Headless!CappedIsTrue'
  BY <1>6 DEF Headless!ShowsRefusal
<1>7. CASE UNCHANGED Headless!vars
  BY <1>7 DEF Headless!vars
<1>8. QED
  BY <1>1, <1>3, <1>4, <1>5, <1>6, <1>7 DEF Headless!Next, Headless!Progress

LEMMA OverStep ==
    HeadInv /\ [Headless!Next]_(Headless!vars)
        => Headless!LimitIsNotMissed' /\ Headless!OutcomeIsTrue'
<1> SUFFICES ASSUME HeadInv, [Headless!Next]_(Headless!vars), phase' = "over"
             PROVE  Headless!LimitIsNotMissed' /\ Headless!OutcomeIsTrue'
  BY DEF Headless!LimitIsNotMissed, Headless!OutcomeIsTrue
<1> USE DEF Headless!evidence, Headless!account, Headless!ending
<1>0. /\ interruptedBy \in {0, ended} /\ ended \in {0, 124, 143}
      /\ signedOut => loginDead
  BY DEF HeadInv, OwnInv, Headless!TypeOK
<1>1. CASE Headless!Settles \/ Headless!GivesUp
  <2>1. Headless!Resolves /\ phase = "waiting"
    BY <1>1 DEF Headless!Settles, Headless!GivesUp
  <2>2. /\ runOutcome' = Headless!OutcomeOf
        /\ code' = IF Headless!OutcomeOf = "ok" /\ interruptedBy # 0 THEN interruptedBy ELSE code
        /\ UNCHANGED <<record, printed, readable, ignored, interruptedBy, ended, loginDead, runCapped>>
    BY <2>1 DEF Headless!Resolves
  <2>3. Headless!OutcomeIsTrue'
    BY <1>0, <2>2 DEF Headless!OutcomeIsTrue, Headless!OutcomeOf
  <2>4. Headless!LimitIsNotMissed'
    <3> SUFFICES ASSUME runOutcome' = "ok", interruptedBy = 0, readable, ~ignored, ~lost',
                        Len(record) \in printed
                 PROVE  FALSE
      BY <2>2 DEF Headless!LimitIsNotMissed
    <3>1. Headless!Settles
      BY <1>1 DEF Headless!GivesUp
    <3>2. lost' = lost /\ asks.checking = 0
      BY <3>1 DEF Headless!Settles, Headless!Settled, Headless!NoAsk
    <3>3. ~Headless!Stopped
      BY <2>2 DEF Headless!OutcomeOf, Headless!Stopped
    <3>4. {asks.checking, asks.held} \cap printed # {}
      BY <2>1, <3>2, <3>3 DEF HeadInv, PendingInv, Counts
    <3>5. asks.held = 0
      BY <3>2 DEF HeadInv, AskInv, Headless!NoAsk
    <3>6. 0 \notin printed
      BY DEF HeadInv, Headless!TypeOK
    <3>7. QED
      BY <3>2, <3>4, <3>5, <3>6
  <2>5. QED
    BY <2>3, <2>4
<1>2. CASE Headless!FindsNoConversation
  BY <1>2 DEF Headless!FindsNoConversation, Headless!Stopped, Headless!LimitIsNotMissed,
              Headless!OutcomeIsTrue
<1>3. ASSUME NEW with \in {124, 143}, Headless!Ends(with)
      PROVE  Headless!LimitIsNotMissed' /\ Headless!OutcomeIsTrue'
  <2>1. /\ phase = "over" /\ ended = 0
        /\ interruptedBy' = interruptedBy
        /\ UNCHANGED <<record, printed, readable, ignored, runOutcome, loginDead, runCapped, lost>>
    BY <1>3 DEF Headless!Ends
  <2>2. interruptedBy = 0
    BY <1>0, <2>1
  <2>3. QED
    BY <2>1, <2>2 DEF HeadInv, Headless!LimitIsNotMissed, Headless!OutcomeIsTrue
<1>4. CASE UNCHANGED Headless!vars
  BY <1>4 DEF HeadInv, Headless!LimitIsNotMissed, Headless!OutcomeIsTrue, Headless!vars
<1>5. CASE \/ Headless!Confirms \/ Headless!Denies \/ Headless!NotShownYet \/ Headless!CheckFails
           \/ Headless!LoginAnswered \/ Headless!TakesSwitch \/ Headless!TurnedAway
           \/ Headless!Exits \/ Headless!Polls \/ Headless!Finish
           \/ \E whose \in {"own", "subagent", "other"} : Headless!Refused(whose)
           \/ \E i \in 1..MaxRefusals : Headless!ShowsRefusal(i)
  <2>1. FALSE
    BY <1>5
    DEF Headless!Confirms, Headless!Denies, Headless!NotShownYet, Headless!CheckFails,
        Headless!Answered, Headless!LaunchRuns, Headless!LoginAnswered, Headless!TakesSwitch,
        Headless!TurnedAway, Headless!Exits, Headless!Polls, Headless!Finish, Headless!Refused,
        Headless!ShowsRefusal
  <2>2. QED
    BY <2>1
<1>6. QED
  BY <1>1, <1>2, <1>3, <1>4, <1>5 DEF Headless!Next, Headless!Progress

LEMMA HeadInit == Headless!Init => HeadInv
<1> SUFFICES ASSUME Headless!Init PROVE HeadInv
  OBVIOUS
<1> USE HeadlessAssumption
<1>1. Headless!TypeOK
  <2>1. /\ record \in Seq({"own", "subagent", "other"}) /\ Len(record) = 0 /\ DOMAIN record = {}
        /\ printed = {} /\ read = 0
    BY DEF Headless!Init
  <2>2. asks \in Asks
    BY DEF Headless!Init, Headless!NoAsks, Headless!NoAsk, Headless!TextOnly, Asks
  <2>3. {out, loginDead, ignored, readable, runCapped, switchTo, signedOut, lost} \subseteq BOOLEAN
    BY DEF Headless!Init
  <2>4. /\ phase \in {"running", "over"} /\ ended \in {0, 143} /\ code \in {0, 143}
        /\ interruptedBy = 0 /\ runOutcome \in {"none", "ok"} /\ loginTurn = "none"
    BY DEF Headless!Init
  <2>5. QED
    BY <2>1, <2>2, <2>3, <2>4 DEF Headless!TypeOK, Asks
<1>2. AskInv /\ OwnInv /\ PendingInv
  BY DEF Headless!Init, AskInv, OwnInv, PendingInv, Headless!NoAsks, Headless!NoAsk,
         Headless!TextOnly
<1>3. QED
  BY <1>1, <1>2 DEF HeadInv, Headless!Init, Headless!CappedIsTrue, Headless!LimitIsNotMissed,
                    Headless!OutcomeIsTrue

LEMMA HeadStep == HeadInv /\ [Headless!Next]_(Headless!vars) => HeadInv'
  BY HeadTypes, OwnStep, AskStep, PendingStep, CappedStep, OverStep DEF HeadInv

\* A headless launch is put down to a limit only by a refusal of its own on an account
\* that is out, however many refusals come and however late their output does; its last
\* one is not missed; and what it reports is what ended it.
THEOREM LimitsAreFound == Headless!Spec => []HeadlessInv
<1>1. HeadInv => HeadlessInv
  BY DEF HeadInv, HeadlessInv, Headless!Inv
<1>2. QED
  BY <1>1, HeadInit, HeadStep, PTL DEF Headless!Spec

-----------------------------------------------------------------------------
(* A worker *)

\* A code that says a run went well was Claude's, an end that stopped a launch is
\* the code it leaves but for a last resort found out of room, and half a line is
\* of the launch that runs.
WorkInv ==
    /\ Work!TypeOK /\ Work!CodeIsTrue /\ Work!LinesAreWhole
    /\ workerPhase = "running" \/ workerCode = 0 => launches > 0
    /\ stopped => workerEnded # 0
    /\ workerPhase = "reporting" /\ stopped => workerCode = workerEnded \/ (resort /\ limited)
    /\ partial.kind = "none" => partial.of = 0

LEMMA WorkInit == Work!Init => WorkInv
<1> SUFFICES ASSUME Work!Init PROVE WorkInv
  OBVIOUS
<1> USE WorkerAssumption DEF Work!Init, Work!NoPart, Work!NoReport
<1>1. Work!TypeOK
  <2>1. partial \in [kind : {"none", "cut", "result"}, of : 0..MaxLaunches]
    OBVIOUS
  <2>2. report \in [answered : BOOLEAN, code : 0..255, why : {"answered", "ended", "none"}, moves : Nat]
    OBVIOUS
  <2>3. QED
    BY <2>1, <2>2 DEF Work!TypeOK
<1>2. QED
  BY <1>1 DEF WorkInv, Work!CodeIsTrue, Work!LinesAreWhole

LEMMA WorkTypes == WorkInv /\ [Work!Next]_(Work!vars) => Work!TypeOK'
<1> SUFFICES ASSUME WorkInv, [Work!Next]_(Work!vars) PROVE Work!TypeOK'
  OBVIOUS
<1> USE WorkerAssumption DEF Work!TypeOK, Work!NoPart, Work!run, Work!printed, Work!launch
<1>0. Work!TypeOK /\ (workerPhase = "running" => launches > 0)
  BY DEF WorkInv
<1>1. ASSUME NEW moved \in BOOLEAN, Work!Launches(moved) PROVE Work!TypeOK'
  <2>1. launches' = launches + 1 /\ launches < MaxLaunches /\ launches \in Nat
    BY <1>0, <1>1 DEF Work!Launches
  <2>2. 1..launches \subseteq 1..launches' /\ launches' \in 1..launches'
    BY <2>1
  <2>3. onAccount' \subseteq 1..launches'
    BY <1>0, <1>1, <2>1, <2>2 DEF Work!Launches
  <2>4. launches' \in 0..MaxLaunches
    BY <2>1
  <2>5. partial' \in [kind : {"none", "cut", "result"}, of : 0..MaxLaunches]
    BY <1>1 DEF Work!Launches, Work!ClearsOutput
  <2>6. resort' \in BOOLEAN /\ limited' = FALSE
    BY <1>1 DEF Work!Launches
  <2>7. QED
    BY <1>0, <1>1, <2>3, <2>4, <2>5, <2>6 DEF Work!Launches, Work!ClearsOutput
<1>2. CASE Work!MovesOn
  BY <1>0, <1>2 DEF Work!MovesOn
<1>3. ASSUME NEW with \in {0, 1, 143}, Work!Finishes(with) PROVE Work!TypeOK'
  BY <1>0, <1>3 DEF Work!Finishes
<1>14. CASE Work!FindsLimit
  BY <1>0, <1>14 DEF Work!FindsLimit
<1>4. CASE Work!StartsNothing
  BY <1>0, <1>4 DEF Work!StartsNothing
<1>13. CASE Work!NothingToStart
  BY <1>0, <1>13 DEF Work!NothingToStart
<1>5. Work!LineOf \in {"line", "glued"}
  BY DEF Work!LineOf
<1>6. ASSUME NEW part \in [kind : {"none", "cut", "result"}, of : 0..MaxLaunches],
             NEW kind \in {"nothing", "words", "result"}, NEW passes \in {{}, {Work!LineOf}},
             Work!Prints(part, kind, passes)
      PROVE  Work!TypeOK'
  <2>1. passedOn' \subseteq {"line", "glued"}
    BY <1>0, <1>5, <1>6 DEF Work!Prints
  <2>2. QED
    BY <1>0, <1>6, <2>1 DEF Work!Prints
<1>7. CASE \/ Work!PrintsPart \/ Work!PrintsUnendedResult \/ Work!PrintsEvent \/ Work!PrintsResult
  <2>1. /\ [kind |-> "cut", of |-> launches] \in [kind : {"none", "cut", "result"}, of : 0..MaxLaunches]
        /\ [kind |-> "result", of |-> launches] \in [kind : {"none", "cut", "result"}, of : 0..MaxLaunches]
        /\ Work!NoPart \in [kind : {"none", "cut", "result"}, of : 0..MaxLaunches]
        /\ answer \in {"nothing", "words", "result"}
    BY <1>0
  <2>2. QED
    BY <1>6, <1>7, <2>1
    DEF Work!PrintsPart, Work!PrintsUnendedResult, Work!PrintsEvent, Work!PrintsResult
<1>8. ASSUME NEW with \in {124, 143}, Work!Ends(with) PROVE Work!TypeOK'
  <2>1. stopped' \in BOOLEAN
    BY <1>8 DEF Work!Ends
  <2>2. QED
    BY <1>0, <1>8, <2>1 DEF Work!Ends
<1>9. CASE Work!Killed
  BY <1>0, <1>9 DEF Work!Killed
<1>10. CASE Work!Reports
  <2>1. onAccount = {} \/ Cardinality(onAccount) \in Nat \ {0}
    <3>1. IsFiniteSet(onAccount)
      <4>1. launches \in Int /\ onAccount \subseteq 1..launches
        BY <1>0
      <4>2. IsFiniteSet(1..launches)
        BY <4>1, FS_Interval
      <4>3. QED
        BY <4>1, <4>2, FS_Subset
    <3>2. QED
      BY <3>1, FS_CardinalityType, FS_EmptySet
  <2>2. Work!Why \in {"answered", "ended", "none"}
    BY DEF Work!Why
  <2> DEFINE moves == IF onAccount = {} THEN 0 ELSE Cardinality(onAccount) - 1
             says == Work!GaveAnswer /\ Work!Why = "answered"
             with == IF Work!Why # "answered" /\ workerCode = 0 THEN 1 ELSE workerCode
  <2>3. says \in BOOLEAN
    OBVIOUS
  <2>5. moves \in Nat
    BY <2>1
  <2>6. with \in 0..255
    BY <1>0
  <2>7. report' = [answered |-> says, why |-> Work!Why, code |-> with, moves |-> moves]
    BY <1>10 DEF Work!Reports, Work!Cardinality, Cardinality
  <2> HIDE DEF moves, says, with
  <2>4. report' \in [answered : BOOLEAN, code : 0..255, why : {"answered", "ended", "none"}, moves : Nat]
    BY <2>2, <2>3, <2>5, <2>6, <2>7
  <2>8. QED
    BY <1>0, <1>5, <1>10, <2>4 DEF Work!Reports
<1>11. CASE UNCHANGED Work!vars
  BY <1>0, <1>11 DEF Work!vars
<1>12. QED
  BY <1>1, <1>2, <1>3, <1>4, <1>7, <1>8, <1>9, <1>10, <1>11, <1>13, <1>14 DEF Work!Next

LEMMA WorkStep == WorkInv /\ [Work!Next]_(Work!vars) => WorkInv'
<1> SUFFICES ASSUME WorkInv, [Work!Next]_(Work!vars) PROVE WorkInv'
  OBVIOUS
<1> USE DEF Work!CodeIsTrue, Work!LinesAreWhole, Work!NoPart, Work!run, Work!printed, Work!launch
<1>0. /\ Work!CodeIsTrue /\ Work!LinesAreWhole
      /\ workerPhase = "running" \/ workerCode = 0 => launches > 0
      /\ stopped => workerEnded # 0
      /\ workerPhase = "reporting" /\ stopped => workerCode = workerEnded \/ (resort /\ limited)
      /\ partial.kind = "none" => partial.of = 0
      /\ launches \in Nat /\ workerEnded \in {0, 124, 143}
  BY WorkerAssumption DEF WorkInv, Work!TypeOK
<1>1. Work!TypeOK'
  BY WorkTypes
<1> SUFFICES (/\ Work!CodeIsTrue /\ Work!LinesAreWhole
              /\ workerPhase = "running" \/ workerCode = 0 => launches > 0
              /\ stopped => workerEnded # 0
              /\ workerPhase = "reporting" /\ stopped => workerCode = workerEnded \/ (resort /\ limited)
              /\ partial.kind = "none" => partial.of = 0)'
  BY <1>1 DEF WorkInv
<1>2. ASSUME NEW moved \in BOOLEAN, Work!Launches(moved) PROVE WorkInv'
  BY <1>0, <1>1, <1>2 DEF Work!Launches, Work!ClearsOutput, WorkInv
<1>3. CASE Work!MovesOn
  BY <1>0, <1>3 DEF Work!MovesOn
<1>15. CASE Work!FindsLimit
  BY <1>0, <1>15 DEF Work!FindsLimit
<1>4. ASSUME NEW with \in {0, 1, 143}, Work!Finishes(with) PROVE WorkInv'
  BY <1>0, <1>1, <1>4 DEF Work!Finishes, WorkInv
<1>5. CASE Work!StartsNothing
  BY <1>0, <1>5 DEF Work!StartsNothing
<1>6. CASE Work!NothingToStart
  BY <1>0, <1>6 DEF Work!NothingToStart
<1>7. Work!LineOf = "line"
  BY <1>0 DEF Work!LineOf
<1>8. CASE Work!PrintsPart \/ Work!PrintsUnendedResult
  BY <1>0, <1>8 DEF Work!PrintsPart, Work!PrintsUnendedResult, Work!Prints
<1>9. CASE Work!PrintsEvent \/ Work!PrintsResult
  BY <1>0, <1>7, <1>9 DEF Work!PrintsEvent, Work!PrintsResult, Work!Prints
<1>10. ASSUME NEW with \in {124, 143}, Work!Ends(with) PROVE WorkInv'
  <2>1. workerPhase # "running" => ~stopped'
    BY <1>10 DEF Work!Ends
  <2>2. workerPhase' = workerPhase /\ workerEnded' # 0 /\ workerPhase # "over"
    BY <1>10 DEF Work!Ends
  <2>3. Work!CodeIsTrue'
    BY <2>2
  <2>4. Work!LinesAreWhole' /\ (partial.kind = "none" => partial.of = 0)'
        /\ (workerPhase = "running" \/ workerCode = 0 => launches > 0)'
    BY <1>0, <1>10 DEF Work!Ends
  <2>5. QED
    BY <1>1, <2>1, <2>2, <2>3, <2>4 DEF WorkInv
<1>11. CASE Work!Killed
  BY <1>0, <1>11 DEF Work!Killed
<1>12. CASE Work!Reports
  <2>1. /\ report'.answered = (Work!GaveAnswer /\ Work!Why = "answered")
        /\ report'.code = IF Work!Why # "answered" /\ workerCode = 0 THEN 1 ELSE workerCode
    BY <1>12 DEF Work!Reports
  <2>4. /\ workerPhase = "reporting" /\ UNCHANGED <<launches, workerEnded, workerCode, stopped, resort, limited>>
    BY <1>12 DEF Work!Reports
  <2>5. stopped /\ ~(resort /\ limited) =>
              Work!Why = "ended" /\ workerCode = workerEnded /\ workerCode # 0
    BY <1>0, <2>4 DEF Work!Why
  <2>6. Work!Why = "answered" => Work!GaveAnswer /\ (workerEnded = 0 \/ workerEnded # workerCode)
    BY DEF Work!Why
  <2>7. stopped' => (report'.code = workerEnded' /\ ~report'.answered) \/ (resort /\ limited)'
    BY <2>1, <2>4, <2>5
  <2>8. report'.code = 0 => report'.answered /\ launches' > 0
    <3>1. report'.code = 0 => workerCode = 0 /\ Work!Why = "answered"
      BY <2>1
    <3>2. workerCode = 0 => launches' > 0
      BY <1>0, <2>4
    <3>3. QED
      BY <3>1, <3>2, <2>1, <2>6
  <2>9. report'.answered => workerEnded' # report'.code \/ workerEnded' = 0
    BY <2>1, <2>4, <2>6
  <2>2. Work!CodeIsTrue'
    BY <2>7, <2>8, <2>9
  <2>3. QED
    BY <1>0, <1>7, <1>12, <2>2 DEF Work!Reports
<1>13. CASE UNCHANGED Work!vars
  BY <1>0, <1>13 DEF Work!vars
<1>14. QED
  BY <1>2, <1>3, <1>4, <1>5, <1>6, <1>8, <1>9, <1>10, <1>11, <1>12, <1>13, <1>15
  DEF Work!Next, WorkInv

\* What a worker reports is the truth however it ended: one that was stopped says
\* so, but in a last resort found out of room, one that exits 0 was answered by the
\* launch that ran last, and no line is glued from two launches.
THEOREM WorkersReport == Work!Spec => []WorkerInv
<1>1. WorkInv => WorkerInv
  BY DEF WorkInv, WorkerInv, Work!Inv
<1>2. QED
  BY <1>1, WorkInit, WorkStep, PTL DEF Work!Spec

-----------------------------------------------------------------------------
(* Claims *)

\* A worker that found a free account in a hold of its own has an account to show
\* for it.
Settled(p) == how[p] = "free" /\ claimOn[p] # None

\* Only one holds the lock; what a worker has read it read in this pick; the
\* account of a settled one is seen by all who read after it, by claim or lease,
\* and by the one who is picking under the lock.
ClaimInv ==
    /\ Claims!TypeOK /\ Claims!SpreadOut
    /\ \A p, q \in Workers : pc[p] = "holding" /\ pc[q] = "holding" => p = q
    /\ \A p \in reads : pc[p] \in {"holding", "passing"}
    /\ \A p \in Workers : Settled(p) =>
          /\ pc[p] = "idle"
          /\ (claim[p] = claimOn[p] /\ p \notin expired) \/ lease[p] = claimOn[p]
    /\ \A p \in reads, q \in Workers :
          pc[p] = "holding" /\ p # q /\ Settled(q) => claimOn[q] \in seen[p]

LEMMA ClaimInit == Claims!Init => ClaimInv
  BY DEF Claims!Init, ClaimInv, Settled, Claims!TypeOK, Claims!SpreadOut

LEMMA ClaimStep == ClaimInv /\ [Claims!Next]_(Claims!vars) => ClaimInv'
<1> SUFFICES ASSUME ClaimInv, [Claims!Next]_(Claims!vars) PROVE ClaimInv'
  OBVIOUS
<1> USE DEF ClaimInv, Settled, Claims!TypeOK, Claims!SpreadOut
<1>1. ASSUME NEW p \in Workers, Claims!Locks(p) PROVE ClaimInv'
  BY <1>1 DEF Claims!Locks, Claims!Starts
<1>2. ASSUME NEW p \in Workers, Claims!GoesWithout(p) PROVE ClaimInv'
  BY <1>2 DEF Claims!GoesWithout, Claims!Starts
<1>3. ASSUME NEW p \in Workers, Claims!Reads(p) PROVE ClaimInv'
  <2>1. \A q \in Workers : q # p /\ Settled(q) => claimOn[q] \in Claims!InUseElsewhere(p)
    BY DEF Claims!InUseElsewhere
  <2>2. \A q \in Workers : claim'[q] # claim[q] => q # p /\ claim'[q] = None /\ (pc[q] = "gone" \/ q \in expired)
    BY <1>3 DEF Claims!Reads, Claims!Tidied
  <2>3. claim' \in [Workers -> Accounts \cup {None}]
    BY <1>3 DEF Claims!Reads, Claims!Tidied
  <2>4. Claims!InUseElsewhere(p) \subseteq Accounts
    BY DEF Claims!InUseElsewhere
  <2>5. Claims!TypeOK'
    BY <1>3, <2>3, <2>4 DEF Claims!Reads
  <2>6. QED
    BY <1>3, <2>1, <2>2, <2>5 DEF Claims!Reads, Claims!Picking
<1>4. ASSUME NEW p \in Workers, NEW x \in Accounts, NEW written \in BOOLEAN,
             Claims!Claims(p, x, written)
      PROVE  ClaimInv'
  <2>1. pc[p] = "holding" /\ how'[p] = "free" => written /\ x \notin seen[p]
    BY <1>4 DEF Claims!Claims, Claims!Best
  <2>2. QED
    BY <1>4, <2>1 DEF Claims!Claims, Claims!Picking
<1>5. ASSUME NEW p \in Workers, Claims!TakesLease(p) PROVE ClaimInv'
  BY <1>5 DEF Claims!TakesLease
<1>6. ASSUME NEW p \in Workers, Claims!Expires(p) PROVE ClaimInv'
  BY <1>6 DEF Claims!Expires
<1>7. ASSUME NEW p \in Workers, NEW kept \in BOOLEAN, Claims!Gone(p, kept) PROVE ClaimInv'
  BY <1>7 DEF Claims!Gone
<1>8. CASE UNCHANGED Claims!vars
  BY <1>8 DEF Claims!vars
<1> HIDE DEF ClaimInv, Claims!TypeOK, Claims!SpreadOut, Settled
<1>9. ASSUME NEW p \in Workers, Claims!Ends(p) \/ Claims!Dies(p) PROVE ClaimInv'
  BY <1>7, <1>9 DEF Claims!Ends, Claims!Dies
<1>10. QED
  BY <1>1, <1>2, <1>3, <1>4, <1>5, <1>6, <1>8, <1>9 DEF Claims!Next

\* Workers that found a free account in a hold of their own are never two on one
\* account, however close together any number of them started.
THEOREM WorkersSpread == Claims!Spec => []ClaimsInv
<1>1. ClaimInv => ClaimsInv
  BY DEF ClaimInv, ClaimsInv, Claims!Inv
<1>2. QED
  BY <1>1, ClaimInit, ClaimStep, PTL DEF Claims!Spec

=============================================================================
