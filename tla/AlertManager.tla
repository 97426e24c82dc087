---------------------------- MODULE AlertManager ----------------------------
(***************************************************************************)
(* alert::AlertManager (src/alert/alert_manager.cpp) with its cooldown     *)
(* policy (alert_rule.cpp).  checkAlerts holds mutex_ from beginning to    *)
(* end, callbacks included; the metrics and the clock change meanwhile, so *)
(* that evaluating a condition, asking the cooldown and recording the      *)
(* firing are steps of their own, each with its own look at the clock.     *)
(*                                                                         *)
(* checkAlerts runs as a task of the pool once a second: several checks    *)
(* may be under way.  A callback may throw, which ends the check.          *)
(***************************************************************************)
EXTENDS Naturals, Sequences, Functions

CONSTANTS
    Checkers,    \* the threads that call checkAlerts
    Names,       \* the names of the alerts, in the order they are created
    Callbacks,   \* the callbacks, in the order they are registered
    Throwing,    \* those among them that may throw
    Cooldown,    \* cooldown_duration_, 60 seconds; no code reads alert_cooldown_seconds
    MaxTime,     \* bound: the last time the clock shows
    Nobody       \* holder of a free mutex_

ASSUME ListsAreSequences == Names \in Seq(Range(Names)) /\ Callbacks \in Seq(Range(Callbacks))
ASSUME TimesAreNumbers == Cooldown \in Nat /\ MaxTime \in Nat
ASSUME NobodyIsNoChecker == Nobody \notin Checkers

VARIABLES
    now,         \* the steady clock
    breached,    \* the alerts whose condition holds at present
    created,     \* alerts_ are the first so many
    registered,  \* callbacks_ are the first so many
    holder,      \* who holds mutex_
    check,       \* where each checker is: a step, an alert and a callback
    last_fired,  \* last_fired_: a function on the names that have fired
    fired        \* history: the firings, each with the callbacks told of it

vars == <<now, breached, created, registered, holder, check, last_fired, fired>>

Idle == [step |-> "idle", alert |-> 0, callback |-> 0]

Init ==
    /\ now = 0
    /\ breached = {}
    /\ created = 0
    /\ registered = 0
    /\ holder = Nobody
    /\ check = [c \in Checkers |-> Idle]
    /\ last_fired = <<>>
    /\ fired = <<>>

-----------------------------------------------------------------------------
(* Setting up, by main *)

createAlert ==
    /\ holder = Nobody
    /\ created < Len(Names)
    /\ created' = created + 1
    /\ UNCHANGED <<now, breached, registered, holder, check, last_fired, fired>>

registerCallback ==
    /\ holder = Nobody
    /\ registered < Len(Callbacks)
    /\ registered' = registered + 1
    /\ UNCHANGED <<now, breached, created, holder, check, last_fired, fired>>

-----------------------------------------------------------------------------
(* checkAlerts *)

At(c, step) == check[c].step = step

\* The name of the alert a checker is at.
Name(c) == Names[check[c].alert]

\* On to alert i, or out if there is none.
GoTo(c, i) ==
    IF i <= created
    THEN /\ check' = [check EXCEPT ![c] =
                        [step |-> "evaluate", alert |-> i, callback |-> 0]]
         /\ UNCHANGED holder
    ELSE /\ check' = [check EXCEPT ![c] = Idle]
         /\ holder' = Nobody

\* Mutant of Enter: mutex_ is not taken.
EnterUnlocked(c) ==
    /\ At(c, "idle") /\ created > 0
    /\ check' = [check EXCEPT ![c] =
                   [step |-> "evaluate", alert |-> 1, callback |-> 0]]
    /\ UNCHANGED <<now, breached, created, registered, holder, last_fired, fired>>

\* A check that finds no alert leaves no trace.
Enter(c) ==
    /\ At(c, "idle")
    /\ holder = Nobody
    /\ created > 0
    /\ holder' = c
    /\ check' = [check EXCEPT ![c] =
                   [step |-> "evaluate", alert |-> 1, callback |-> 0]]
    /\ UNCHANGED <<now, breached, created, registered, last_fired, fired>>

Evaluate(c) ==
    /\ At(c, "evaluate")
    /\ IF check[c].alert \in breached
       THEN /\ check' = [check EXCEPT ![c].step = "suppress"]
            /\ UNCHANGED holder
       ELSE GoTo(c, check[c].alert + 1)
    /\ UNCHANGED <<now, breached, created, registered, last_fired, fired>>

\* Mutant of Suppressed: the names that never fired are suppressed too.
SuppressedUnlessFired(n) ==
    n \in DOMAIN last_fired => now - last_fired[n] < Cooldown

Suppressed(n) ==
    n \in DOMAIN last_fired /\ now - last_fired[n] < Cooldown

shouldSuppressAlert(c) ==
    /\ At(c, "suppress")
    /\ IF Suppressed(Name(c))
       THEN GoTo(c, check[c].alert + 1)
       ELSE /\ check' = [check EXCEPT ![c].step = "record"]
            /\ UNCHANGED holder
    /\ UNCHANGED <<now, breached, created, registered, last_fired, fired>>

recordAlertFired(c) ==
    /\ At(c, "record")
    /\ last_fired' = [n \in DOMAIN last_fired \cup {Name(c)} |->
                        IF n = Name(c) THEN now ELSE last_fired[n]]
    /\ fired' = Append(fired, [name |-> Name(c), at |-> now, due |-> registered,
                               told |-> 0, aborted |-> FALSE])
    /\ check' = [check EXCEPT ![c].step = "call", ![c].callback = 1]
    /\ UNCHANGED <<now, breached, created, registered, holder>>

Last == Len(fired)

\* Mutant of Call: the last callback is left out.
CallAllButLast(c) ==
    /\ At(c, "call")
    /\ IF check[c].callback < registered
       THEN /\ fired' = [fired EXCEPT ![Last].told = @ + 1]
            /\ check' = [check EXCEPT ![c].callback = @ + 1]
            /\ UNCHANGED holder
       ELSE GoTo(c, check[c].alert + 1) /\ UNCHANGED fired
    /\ UNCHANGED <<now, breached, created, registered, last_fired>>

\* The next callback, or the next alert when all have been called.
Call(c) ==
    /\ At(c, "call")
    /\ IF check[c].callback <= registered
       THEN /\ fired' = [fired EXCEPT ![Last].told = @ + 1]
            /\ check' = [check EXCEPT ![c].callback = @ + 1]
            /\ UNCHANGED holder
       ELSE GoTo(c, check[c].alert + 1) /\ UNCHANGED fired
    /\ UNCHANGED <<now, breached, created, registered, last_fired>>

\* Mutant of Throw: the firing is taken back, for the alert to be tried again.
ThrowForgetting(c) ==
    /\ At(c, "call") /\ check[c].callback <= registered
    /\ Callbacks[check[c].callback] \in Throwing
    /\ fired' = SubSeq(fired, 1, Last - 1)
    /\ check' = [check EXCEPT ![c] = Idle]
    /\ holder' = Nobody
    /\ last_fired' = [n \in DOMAIN last_fired \ {Name(c)} |-> last_fired[n]]
    /\ UNCHANGED <<now, breached, created, registered>>

\* A callback throws: the lock is released, the rest of the check is skipped,
\* and the pool's packaged_task keeps the exception to itself.
Throw(c) ==
    /\ At(c, "call")
    /\ check[c].callback <= registered
    /\ Callbacks[check[c].callback] \in Throwing
    /\ fired' = [fired EXCEPT ![Last].aborted = TRUE]
    /\ check' = [check EXCEPT ![c] = Idle]
    /\ holder' = Nobody
    /\ UNCHANGED <<now, breached, created, registered, last_fired>>

Running(c) ==
    Evaluate(c) \/ shouldSuppressAlert(c) \/ recordAlertFired(c) \/ Call(c) \/ Throw(c)

-----------------------------------------------------------------------------
(* The world *)

Tick ==
    /\ now < MaxTime
    /\ now' = now + 1
    /\ UNCHANGED <<breached, created, registered, holder, check, last_fired, fired>>

\* A metric crosses a threshold, either way.
MetricChanges ==
    /\ breached' \in SUBSET DOMAIN Names
    /\ UNCHANGED <<now, created, registered, holder, check, last_fired, fired>>

Next ==
    \/ createAlert \/ registerCallback
    \/ \E c \in Checkers : Enter(c) \/ Running(c)
    \/ Tick \/ MetricChanges

Spec == Init /\ [][Next]_vars

\* main enqueues a check every second and the pool runs it; nothing else has to
\* happen.
FairSpec ==
    /\ Spec
    /\ \A c \in Checkers : WF_vars(Running(c))
    /\ WF_vars(\E c \in Checkers : Enter(c))

-----------------------------------------------------------------------------
(* Properties *)

Steps == {"idle", "evaluate", "suppress", "record", "call"}

Places == [step : Steps, alert : Nat, callback : Nat]

Firings == [name : Range(Names), at : Nat, due : Nat, told : Nat, aborted : BOOLEAN]

\* The shape of the manager and of the checks under way.
TypeOK ==
    /\ now \in 0 .. MaxTime
    /\ breached \subseteq DOMAIN Names
    /\ created \in 0 .. Len(Names)
    /\ registered \in 0 .. Len(Callbacks)
    /\ holder \in Checkers \cup {Nobody}
    /\ check \in [Checkers -> Places]
    /\ \A c \in Checkers :
          /\ check[c].alert \in IF At(c, "idle") THEN {0} ELSE 1 .. created
          /\ ~At(c, "idle") <=> holder = c
    /\ last_fired \in [DOMAIN last_fired -> 0 .. now]
    /\ fired \in Seq(Firings)

ApartBy(d) ==
    \A i, j \in DOMAIN fired :
        i < j /\ fired[i].name = fired[j].name => fired[j].at - fired[i].at >= d

\* Alerts of one name fire at least a cooldown apart, however many checks
\* overlap and whatever their callbacks do (alert_manager.cpp 24-36,
\* alert_rule.cpp 73-90).
CooldownRespected == ApartBy(Cooldown)

\* A firing that is over was told to every callback registered when it began,
\* once, unless one of them threw (alert_manager.cpp 31-33).
EveryFiringIsTold ==
    \A i \in DOMAIN fired :
        LET over == i < Last \/ holder = Nobody
        IN  over /\ ~fired[i].aborted => fired[i].told = fired[i].due

\* A check passes over a breached alert only if one of its name fired less than
\* a cooldown ago (alert_rule.cpp 73-85).
NoSilentBreach ==
    [][\A c \in Checkers :
          At(c, "suppress") /\ check'[c] # check[c] /\ check'[c].step # "record" =>
              \E i \in DOMAIN fired :
                  fired[i].name = Name(c) /\ now - fired[i].at < Cooldown]_vars

\* A breach that lasts is reported, also when callbacks throw for other alerts:
\* those are in their cooldown when the next check comes (alert_manager.cpp
\* 28-33: a firing is recorded before its callbacks are called).
BreachIsReported ==
    \A i \in DOMAIN Names :
        <>[](i \in breached /\ i <= created) =>
            <>(\E j \in DOMAIN fired : fired[j].name = Names[i])

=============================================================================
