------------------------------ MODULE HotSwap ------------------------------
(***************************************************************************)
(* The swap loop of an interactive run (launcher/hot-swap.ts): Claude is   *)
(* run on an account, and each time the account runs out, its login is     *)
(* found finished, or the person asks for another one, the same            *)
(* conversation is resumed on the next.  When no account looks able to     *)
(* run, one is started anyway, and ccx refuses to start Claude only when   *)
(* there is nothing to start.                                              *)
(*                                                                         *)
(* What goes on while a Claude runs (session.ts, pty-session.ts) is        *)
(* reduced to the account it ends on and how.  Which account the policy    *)
(* picks among those it may pick is left open, and so is whether it finds  *)
(* every model of theirs spent and picks none.                             *)
(***************************************************************************)
EXTENDS Naturals, FiniteSets

CONSTANTS Accounts,     \* the accounts, all enabled and signed in at some time
          Models,       \* the models an account can be out of on its own
          None          \* no account

Kinds == {"ok", "capped", "hold", "switch", "signed-out"}

ASSUME HotSwapAssumption == IsFiniteSet(Accounts) /\ None \notin Accounts

VARIABLES capped,      \* accounts that ran out in this run
          needsLogin,  \* accounts whose login was found finished
          modelCapped, \* the models each account ran out of
          held,        \* accounts under an unproven hold still in force
          tried,       \* accounts already offered as a last resort
          first,       \* nothing has run yet, as far as the loop knows
          forced,      \* the account to launch on next, or None
          mode,        \* where the loop is
          account,     \* the account of the launch
          on,          \* the account its Claude is on: it can be moved in place
          anyway,      \* the launch is a last resort, its outcome not acted on
          resumed,     \* the launch resumes the conversation
          outcome,     \* how the last launch ended
          began,       \* history: a Claude has run that was no last resort
          spent,       \* accounts the server refuses requests of
          ledger,      \* accounts recorded as out, by any session
          dead,        \* accounts whose stored login no longer works
          noted        \* those the token endpoint was seen to refuse

loop == <<capped, needsLogin, modelCapped, held, tried, first, forced>>
launch == <<account, on, anyway, resumed>>
world == <<spent, ledger, dead, noted>>
vars == <<loop, mode, launch, outcome, began, world>>

\* Type invariant: the shape of every variable.
TypeOK ==
    /\ capped \subseteq Accounts /\ needsLogin \subseteq Accounts
    /\ modelCapped \subseteq Accounts \X Models
    /\ held \subseteq Accounts /\ tried \subseteq Accounts
    /\ first \in BOOLEAN /\ forced \in Accounts \cup {None}
    /\ mode \in {"picking", "starting", "running", "ended", "refused"}
    /\ account \in Accounts \cup {None} /\ on \in Accounts \cup {None}
    /\ anyway \in BOOLEAN /\ resumed \in BOOLEAN
    /\ outcome \in Kinds \cup {"none", "needs-login"}
    /\ began \in BOOLEAN
    /\ spent \subseteq Accounts /\ ledger \subseteq Accounts
    /\ dead \subseteq Accounts /\ noted \subseteq Accounts

\* The accounts known refused count as needing a sign-in from the start.
Init ==
    /\ capped = {} /\ modelCapped = {} /\ held = {} /\ tried = {}
    /\ first = TRUE /\ forced = None
    /\ mode = "picking" /\ outcome = "none"
    /\ account = None /\ on = None /\ anyway = FALSE /\ resumed = FALSE
    /\ began = FALSE
    /\ spent \in SUBSET Accounts /\ ledger \in SUBSET spent
    /\ dead \in SUBSET Accounts /\ noted \in SUBSET dead
    /\ needsLogin = noted

-----------------------------------------------------------------------------
(* Choosing where to run *)

SetAside == capped \cup needsLogin \cup held

\* pickAccount: neither set aside nor recorded as out.
MayPick == Accounts \ (SetAside \cup ledger)

\* startAnyway: whoever looks out of room, as long as its login may work.
LastResorts == Accounts \ (tried \cup needsLogin \cup held \cup noted)

Launches(a, asLastResort) ==
    /\ mode' = "starting"
    /\ account' = a /\ anyway' = asLastResort /\ resumed' = ~first
    /\ UNCHANGED <<on, outcome, began, world>>

Picks(a) ==
    /\ mode = "picking" /\ forced = None
    /\ a \in MayPick
    /\ Launches(a, FALSE)
    /\ UNCHANGED loop

TakesForced ==
    /\ mode = "picking" /\ forced # None
    /\ Launches(forced, FALSE)
    /\ forced' = None
    /\ UNCHANGED <<capped, needsLogin, modelCapped, held, tried, first>>

\* Nothing was picked: none may be, or every model of those is spent.
StartsAnyway(a) ==
    /\ mode = "picking" /\ forced = None
    /\ a \in LastResorts
    /\ tried' = tried \cup {a}
    /\ Launches(a, TRUE)
    /\ UNCHANGED <<capped, needsLogin, modelCapped, held, first, forced>>

\* Nor is there a last resort: why is said, and the run ends.
Refuses ==
    /\ mode = "picking" /\ forced = None
    /\ LastResorts = {}
    /\ mode' = "refused"
    /\ UNCHANGED <<loop, launch, outcome, began, world>>

-----------------------------------------------------------------------------
(* A launch *)

\* Mutant: a refused launch counts as one that ran.
LoginFinishedAsRun ==
    /\ mode = "starting" /\ account \in dead
    /\ mode' = "picking" /\ outcome' = "needs-login"
    /\ needsLogin' = needsLogin \cup {account}
    /\ noted' = noted \cup {account}
    /\ first' = FALSE
    /\ UNCHANGED <<capped, modelCapped, held, tried, forced, launch, began, spent, ledger, dead>>

\* Mutant: the account is noted for others and not set aside here.
LoginFinishedUnset ==
    /\ mode = "starting" /\ account \in dead
    /\ mode' = "picking" /\ outcome' = "needs-login"
    /\ noted' = noted \cup {account}
    /\ UNCHANGED <<loop, launch, began, spent, ledger, dead>>

\* The login is asked about first, and one that is finished is never started
\* on: nothing ran.
LoginFinished ==
    /\ mode = "starting" /\ account \in dead
    /\ mode' = "picking" /\ outcome' = "needs-login"
    /\ needsLogin' = needsLogin \cup {account}
    /\ noted' = noted \cup {account}
    /\ UNCHANGED <<capped, modelCapped, held, tried, first, forced, launch, began,
                   spent, ledger, dead>>

\* Claude starts, on a login that works or could not be asked about.
Starts ==
    /\ mode = "starting"
    /\ mode' = "running"
    /\ on' = account /\ began' = (began \/ ~anyway)
    /\ UNCHANGED <<loop, account, anyway, resumed, outcome, world>>

MovesInPlace(a) ==
    /\ mode = "running" /\ a # on
    /\ on' = a
    /\ UNCHANGED <<loop, mode, account, anyway, resumed, outcome, began, world>>

\* Claude, or the person, ends it.
Ends ==
    /\ mode = "running"
    /\ mode' = "ended" /\ outcome' = "ok"
    /\ UNCHANGED <<loop, launch, began, world>>

\* Any other end of one started anyway ends the run all the same.
EndsAnyway(kind) ==
    /\ mode = "running" /\ anyway
    /\ kind \in Kinds \ {"ok", "signed-out"}
    /\ mode' = "ended" /\ outcome' = kind
    /\ UNCHANGED <<loop, launch, began, world>>

\* But for a login found finished under it.
SignedOutAnyway ==
    /\ mode = "running" /\ anyway
    /\ on \in dead
    /\ noted' = noted \cup {on}
    /\ needsLogin' = needsLogin \cup {account}
    /\ mode' = "picking" /\ outcome' = "signed-out"
    /\ UNCHANGED <<capped, modelCapped, held, tried, first, forced, launch, began,
                   spent, ledger, dead>>

\* The end of a launch that is acted on: there is something to resume now.
GoesOn(kind) ==
    /\ mode = "running" /\ ~anyway
    /\ mode' = "picking" /\ outcome' = kind
    /\ first' = FALSE
    /\ UNCHANGED <<tried, launch, began, spent, dead>>

\* A confirmed limit on the whole account.
RunsOutOfRoom ==
    /\ GoesOn("capped")
    /\ on \in spent
    /\ ledger' = ledger \cup {on}
    /\ capped' = capped \cup {on}
    /\ UNCHANGED <<needsLogin, modelCapped, held, forced, noted>>

\* A confirmed limit on one model: the account is tried once more on another.
RunsOutOfModel(model) ==
    /\ GoesOn("capped")
    /\ IF <<on, model>> \in modelCapped
       THEN capped' = capped \cup {on} /\ UNCHANGED modelCapped
       ELSE modelCapped' = modelCapped \cup {<<on, model>>} /\ UNCHANGED capped
    /\ UNCHANGED <<needsLogin, held, forced, ledger, noted>>

\* Nothing was confirmed, but the session was getting nowhere.
IsHeld ==
    /\ GoesOn("hold")
    /\ held' = held \cup {on}
    /\ UNCHANGED <<capped, needsLogin, modelCapped, forced, ledger, noted>>

\* The login was found finished under the running Claude.
SignedOut ==
    /\ GoesOn("signed-out")
    /\ on \in dead
    /\ noted' = noted \cup {on}
    /\ needsLogin' = needsLogin \cup {on}
    /\ UNCHANGED <<capped, modelCapped, held, forced, ledger>>

\* The person asked for a, which overrides its having run out; when it cannot
\* be used the launch is repeated where it was.
Switches(a, usable) ==
    /\ GoesOn("switch")
    /\ capped' = capped \ {a}
    /\ forced' = IF usable THEN a ELSE account
    /\ UNCHANGED <<needsLogin, modelCapped, held, ledger, noted>>

-----------------------------------------------------------------------------
(* What happens meanwhile *)

\* What follows the run is left out.
Going == mode \notin {"ended", "refused"}

HoldLifts(a) ==
    /\ Going
    /\ a \in held /\ held' = held \ {a}
    /\ UNCHANGED <<capped, needsLogin, modelCapped, tried, first, forced, mode, launch,
                   outcome, began, world>>

Changes == Going /\ UNCHANGED <<loop, mode, launch, outcome, began>>

IsSpent(a) == a \notin spent /\ spent' = spent \cup {a} /\ Changes /\ UNCHANGED <<ledger, dead, noted>>

\* The window ends, and with it what was recorded of it.
Resets(a) == a \in spent /\ spent' = spent \ {a} /\ ledger' = ledger \ {a}
             /\ Changes /\ UNCHANGED <<dead, noted>>

\* Another session confirms the limit.
OtherConfirms(a) == a \in spent \ ledger /\ ledger' = ledger \cup {a}
                    /\ Changes /\ UNCHANGED <<spent, dead, noted>>

LoginDies(a) == a \notin dead /\ dead' = dead \cup {a} /\ Changes /\ UNCHANGED <<spent, ledger, noted>>

SignsIn(a) == a \in dead /\ dead' = dead \ {a} /\ noted' = noted \ {a}
              /\ Changes /\ UNCHANGED <<spent, ledger>>

-----------------------------------------------------------------------------

Chooses == TakesForced \/ Refuses \/ \E a \in Accounts : Picks(a) \/ StartsAnyway(a)

Done == mode \in {"ended", "refused"} /\ UNCHANGED vars

Next ==
    \/ Chooses
    \/ LoginFinished \/ Starts \/ Ends
    \/ SignedOutAnyway \/ RunsOutOfRoom \/ IsHeld \/ SignedOut
    \/ \E kind \in Kinds : EndsAnyway(kind)
    \/ \E model \in Models : RunsOutOfModel(model)
    \/ \E a \in Accounts :
          \/ MovesInPlace(a) \/ HoldLifts(a) \/ IsSpent(a) \/ Resets(a)
          \/ OtherConfirms(a) \/ LoginDies(a) \/ SignsIn(a)
          \/ \E usable \in BOOLEAN : Switches(a, usable)
    \/ Done

Spec == Init /\ [][Next]_vars

\* The loop takes its steps, and every login check ends.
FairSpec ==
    /\ Spec
    /\ WF_vars(Chooses) /\ WF_vars(LoginFinished \/ Starts)

-----------------------------------------------------------------------------
(* Properties *)

\* Once a Claude has run, every later launch resumes its conversation, and the
\* one that is first to run resumes none: a launch refused for its login does
\* not count (hot-swap.ts, the needs-login branch).  A last resort signed out
\* while it runs does not either, though it has a conversation (README).
ResumesConversation == mode = "starting" => (resumed <=> began)

\* ccx refuses to start Claude only when each account was found to need a
\* sign-in, or is held off for a moment (hot-swap.ts, lastResort).
RefusesWithNothing == mode = "refused" => Accounts = needsLogin \cup noted \cup held

\* An account is only ever recorded as out while it is: a limit is put down to
\* the account it was met on, and a hold is recorded nowhere.
LedgerIsTrue == ledger \subseteq spent

\* The types hold, ccx refuses with nothing to start, the ledger is true, and
\* the conversation is resumed.
Inv == TypeOK /\ RefusesWithNothing /\ LedgerIsTrue /\ ResumesConversation

\* The loop never goes round without running anything: it launches a Claude or
\* gives up, however many logins turn out to be finished.
ChoosingSettles == mode = "picking" ~> mode \notin {"picking", "starting"}

=============================================================================
