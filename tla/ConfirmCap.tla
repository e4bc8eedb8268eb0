----------------------------- MODULE ConfirmCap -----------------------------
(***************************************************************************)
(* Whether limit-looking text is a limit, of which account, and how wide   *)
(* (src/usage/confirm-cap.ts, limit-probe.ts, cap-probe-credential.ts,     *)
(* session/session-identity.ts, and the check in commands/session.ts).     *)
(*                                                                         *)
(* The usage endpoint is asked on the login the session runs on, again     *)
(* after a back-off that is short; when it gives no answer, the refused    *)
(* turn itself may prove the limit.  A person may sign the session in as   *)
(* somebody else meanwhile: Claude writes the login, then whose it is.     *)
(*                                                                         *)
(* A window is "room", "spent" or not in the answer (None); times are in   *)
(* steps of about two seconds.                                             *)
(***************************************************************************)
EXTENDS Naturals, Sequences, FiniteSets

CONSTANTS Accounts, Believed,  \* the registered accounts, and the one ccx takes it for
          Stranger,            \* an account that is not registered
          Models,              \* in the order the endpoint lists them
          Timeout, BackOffWait, SecondAsk, Budget,
          MaxSignIns,          \* bound
          None

VARIABLES headless,          \* a run asks its own account; a session, its own login
          login, identity,   \* in the session's folder: whose login, and whose it says it is
          signIns, crossed,  \* sign-ins and outs so far; whether one met this check
          modelInUse, names, \* what the session runs and the models its text names, of a
                             \* check answered
          proof,             \* what the refused turn proves, of one that is not
          phase, clock, retryAfter,
          found,             \* the identity as the check found it
          asked,             \* whose login the last ask went out on
          answer, decision

vars == <<headless, login, identity, signIns, crossed, modelInUse, names, proof, phase,
          clock, retryAfter, found, asked, answer, decision>>
given == <<headless, modelInUse, names, proof>>
times == <<clock, retryAfter>>
folder == <<login, identity, signIns>>

People == Accounts \union {Stranger}
Windows == {None, "room", "spent"}
ModelSet == {Models[i] : i \in DOMAIN Models}

(***************************************************************************)
(* What an answer says.                                                    *)
(***************************************************************************)
\* five_hour, or the session entry of limits when that carries no number.
FiveHour(a) == IF a.fiveHour # None THEN a.fiveHour ELSE a.session

SpentModels(a) == {i \in DOMAIN Models : a.models[Models[i]] = "spent"}
FirstOf(S) == Models[CHOOSE i \in S : \A j \in S : i <= j]

AccountOut(a) == FiveHour(a) = "spent" \/ a.sevenDay = "spent"
OtherLimit(a) == a.session = "spent" \/ a.otherHit

\* probeLimit: its verdict, and the model it names: the first listed that the text names.
Verdict(a, text) ==
    IF (\E m \in text : a.models[m] = "spent") \/ AccountOut(a) \/ SpentModels(a) # {}
       \/ OtherLimit(a)
    THEN "limited" ELSE "allowed"

NamedListed(a, text) == {i \in DOMAIN Models : Models[i] \in text /\ a.models[Models[i]] # None}
LimitedModel(a, text) ==
    IF NamedListed(a, text) # {} /\ a.models[FirstOf(NamedListed(a, text))] = "spent"
    THEN FirstOf(NamedListed(a, text))
    ELSE IF AccountOut(a) \/ SpentModels(a) = {} THEN None ELSE FirstOf(SpentModels(a))

\* spentAccountWindow: unless usage credits carry the account past it.
SpentWindow(a) ==
    IF a.credits THEN None
    ELSE IF FiveHour(a) = "spent" THEN "fiveHour"
    ELSE IF a.sevenDay = "spent" THEN "sevenDay" ELSE None

No(how) == [limited |-> FALSE, model |-> None, resets |-> None, how |-> how]

\* Mutant: a model the session is not running is taken for its limit.
FromAnyModel(a, text, running) ==
    IF Verdict(a, text) # "limited" THEN No("room")
    ELSE IF SpentWindow(a) # None
    THEN [limited |-> TRUE, model |-> None, resets |-> SpentWindow(a), how |-> "answer"]
    ELSE LET o == IF LimitedModel(a, text) # None THEN LimitedModel(a, text)
                  ELSE IF SpentModels(a) # {} THEN FirstOf(SpentModels(a)) ELSE None IN
         IF o = None THEN No("unverified")
         ELSE [limited |-> TRUE, model |-> o, resets |-> o, how |-> "answer"]
\* decideFromProbe.
FromProbe(a, text, running) ==
    IF Verdict(a, text) # "limited" THEN No("room")
    ELSE IF SpentWindow(a) # None
    THEN [limited |-> TRUE, model |-> None, resets |-> SpentWindow(a), how |-> "answer"]
    ELSE LET o == IF LimitedModel(a, text) # None THEN LimitedModel(a, text)
                  ELSE IF SpentModels(a) # {} THEN FirstOf(SpentModels(a)) ELSE None IN
         IF o = None \/ (running # None /\ o # running) THEN No("unverified")
         ELSE [limited |-> TRUE, model |-> o, resets |-> o, how |-> "answer"]

\* No answer: what the refused turn proves on its own.
Unanswered(p) ==
    IF p = None \/ ~p.proves THEN No("unanswered")
    ELSE [limited |-> TRUE, model |-> p.model, resets |-> "refusal", how |-> "refusal"]

\* Whose the limit is: who the session says it is signed in as, when that is not the
\* account ccx takes it for; nobody's when that one is not registered.
Owner ==
    IF headless \/ found = None \/ found = Believed THEN Believed
    ELSE IF found \in Accounts THEN found ELSE None

Decides(d) ==
    /\ phase' = "decided"
    /\ decision' = [limited |-> d.limited, model |-> d.model, resets |-> d.resets,
                    how |-> d.how, owner |-> IF d.limited THEN Owner ELSE None]
    /\ clock' = 0 /\ retryAfter' = 0

\* With what the refused turn proves, when there is one.
DecidesUnanswered ==
    /\ proof' \in {None} \union [proves: BOOLEAN, model: {None, Models[1]}]
    /\ Decides(Unanswered(proof'))
    /\ UNCHANGED <<modelInUse, names, answer>>

(***************************************************************************)
(* The check.                                                              *)
(***************************************************************************)
\* The session's own login, or the profile's when it has none that is usable.
AskedOf == IF headless \/ login = None THEN Believed ELSE login

Starts ==
    /\ phase = "idle"
    /\ found' = identity /\ asked' = AskedOf /\ phase' = "first" /\ clock' = 0
    /\ crossed' = (~headless /\ login # identity)
    /\ UNCHANGED <<given, folder, retryAfter, answer, decision>>

Answers(a, text, running) ==
    /\ answer' = a /\ names' = text /\ modelInUse' = running
    /\ Decides(FromProbe(a, text, running))
    /\ UNCHANGED <<headless, folder, proof, crossed, found, asked>>

\* Turned away, unreachable, or its time over, with no back-off asked for.
NoAnswer ==
    /\ phase \in {"first", "second"}
    /\ DecidesUnanswered
    /\ UNCHANGED <<headless, folder, crossed, found, asked>>

\* Turned away for a while: waited out when that is short, from the check's start.
BacksOff(wait) ==
    /\ phase = "first"
    /\ \/ clock + wait > BackOffWait /\ DecidesUnanswered
       \/ /\ clock + wait <= BackOffWait
          /\ phase' = "waiting" /\ retryAfter' = clock + wait
          /\ UNCHANGED <<modelInUse, names, proof, clock, answer, decision>>
    /\ UNCHANGED <<headless, folder, crossed, found, asked>>

AsksAgain ==
    /\ phase = "waiting" /\ clock = retryAfter
    /\ asked' = AskedOf /\ phase' = "second"
    /\ UNCHANGED <<given, folder, crossed, times, found, answer, decision>>

\* When an ask that has not been answered is given up: no answer comes after.
GivenUpAt == IF phase = "first" THEN Timeout ELSE retryAfter + SecondAsk

Tick ==
    /\ \/ phase \in {"first", "second"} /\ clock < GivenUpAt
       \/ phase = "waiting" /\ clock < retryAfter
    /\ clock' = clock + 1
    /\ UNCHANGED <<given, folder, crossed, phase, retryAfter, found, asked, answer, decision>>

(***************************************************************************)
(* A person signs the session in as somebody, or out.                      *)
(***************************************************************************)
SignsIn(who) ==
    /\ ~headless /\ phase # "decided" /\ login = identity /\ who # login
    /\ signIns < MaxSignIns
    /\ login' = who /\ signIns' = signIns + 1
    /\ crossed' = (crossed \/ phase # "idle")
    /\ UNCHANGED <<given, identity, phase, times, found, asked, answer, decision>>

\* Whose it is follows the login.
IdentityFollows ==
    /\ phase # "decided" /\ login # identity
    /\ identity' = login
    /\ UNCHANGED <<given, login, signIns, crossed, phase, times, found, asked,
                   answer, decision>>

\* The answers that come: the two readings of the five hours say the same, and
\* otherHit is of a limit that is none of these.
Answer ==
    [fiveHour: Windows, session: Windows, sevenDay: Windows, credits: BOOLEAN,
     models: [ModelSet -> Windows], otherHit: BOOLEAN]
ComingAnswers ==
    {a \in Answer : /\ a.fiveHour # None => a.session = a.fiveHour
                    /\ a.otherHit => ~AccountOut(a) /\ SpentModels(a) = {}}

Init ==
    /\ headless \in BOOLEAN /\ login = Believed /\ identity = Believed /\ signIns = 0
    /\ crossed = FALSE
    /\ modelInUse = None /\ names = {} /\ proof = None
    /\ phase = "idle" /\ clock = 0 /\ retryAfter = 0 /\ found = None /\ asked = None
    /\ answer = None /\ decision = None

Next ==
    \/ Starts \/ NoAnswer \/ AsksAgain \/ Tick \/ IdentityFollows
    \/ /\ phase \in {"first", "second"}
       /\ \E a \in ComingAnswers, text \in SUBSET ModelSet, running \in ModelSet \union {None} :
            Answers(a, text, running)
    \/ \E wait \in 1..(BackOffWait + 1) : BacksOff(wait)
    \/ \E who \in People \union {None} : SignsIn(who)

Spec == Init /\ [][Next]_vars

(***************************************************************************)
(* Properties.                                                             *)
(***************************************************************************)
\* A limit the endpoint confirms is spent in what it said, as wide as it is taken and
\* of a model the session runs; one it did not answer about is proved.
ConfirmedIsSpent ==
    phase = "decided" /\ decision.limited =>
        IF decision.how = "refusal" THEN proof.proves
        ELSE IF decision.model = None
        THEN ~answer.credits /\ (IF decision.resets = "fiveHour" THEN FiveHour(answer)
                                 ELSE answer.sevenDay) = "spent"
        ELSE answer.models[decision.model] = "spent" /\ modelInUse \in {None, decision.model}

\* The other way: a limit that stops the session is confirmed, unless the text names
\* another model, or none while another is spent before its own.
SpentIsConfirmed ==
    phase = "decided" /\ answer # None =>
        (\/ ~answer.credits /\ AccountOut(answer)
         \/ modelInUse # None /\ answer.models[modelInUse] = "spent"
            /\ names \subseteq {modelInUse} /\ (names # {} \/ Cardinality(SpentModels(answer)) = 1)
         => decision.limited)

\* The limit is recorded for the account whose login was asked about it, unless the
\* session was being signed in as another while it was checked.
OwnerWasAsked ==
    phase = "decided" /\ decision.owner # None /\ ~crossed => decision.owner = asked

\* A check takes no longer than a session gives it.
WithinBudget == clock <= Budget

TypeOK ==
    /\ login \in People \union {None} /\ identity \in People \union {None}
    /\ phase \in {"idle", "first", "waiting", "second", "decided"}
    /\ answer # None => answer \in Answer
    /\ (decision # None) = (phase = "decided")

Inv == TypeOK /\ ConfirmedIsSpent /\ SpentIsConfirmed /\ OwnerWasAsked /\ WithinBudget
=============================================================================
