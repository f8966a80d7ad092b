----------------------------- MODULE TimerQueue -----------------------------
(***************************************************************************)
(* The timers of one EventLoop: the ordered set timers_ and the timerfd    *)
(* that is armed for the earliest of them.                                 *)
(*                                                                         *)
(* A timer is identified by its address, a natural number: std::set orders *)
(* entries by time and then by address. The wall clock (gettimeofday), by  *)
(* which timers are due, and the monotonic clock, by which the timerfd     *)
(* counts down, tick together, but the wall clock may be set. A tick is    *)
(* the least delay the timerfd is armed with. Time goes on while callbacks *)
(* run. Once epoll_wait has put timerfd_channel_ in active_channels_,      *)
(* HandleRead is called whatever the handlers before it in the round did.  *)
(* A failing assert, or begin() dereferenced on an empty set, sets fault   *)
(* and ends the behaviour.                                                 *)
(***************************************************************************)
EXTENDS Integers, FiniteSets

CONSTANTS Timers,      \* the timers that may be added: their addresses
          Repeating,   \* those with an interval
          Interval,    \* that interval
          MaxTime,     \* bound: the wall clock stops there
          MaxSets      \* bound: how often the wall clock is set

ASSUME TimersAssumption == Timers \subseteq Nat
ASSUME RepeatingAssumption == Repeating \subseteq Timers
ASSUME TimeAssumption == /\ Interval \in Nat \ {0}
                         /\ MaxTime \in Nat \ {0}
                         /\ MaxSets \in Nat

VARIABLES wall,        \* the wall clock
          sets,        \* how often it was set
          timers,      \* timers_: entries [when, timer]
          added,       \* the timers that were inserted so far
          fuse,        \* ticks until the timerfd expires, 0 when disarmed
          readable,    \* the timerfd has expired and was not read
          phase,       \* "listed" while timerfd_channel_ is in the round's
                       \* active_channels_ and not handled yet, "running"
                       \* inside HandleRead, "idle" otherwise
          retracted,   \* history: the last read of the timerfd failed, its
                       \* expiration had been taken back
          now,         \* HandleRead's now
          expired,     \* HandleRead's list
          torun,       \* the part of it still to be run
          done,        \* history: the timers that were run to the end
          fault

clockVars == <<wall, sets>>
fdVars == <<fuse, readable>>
readVars == <<phase, retracted, now, expired, torun>>
vars == <<clockVars, timers, added, fdVars, readVars, done, fault>>

Entry(w, t) == [when |-> w, timer |-> t]
Before(a, b) == a.when < b.when \/ (a.when = b.when /\ a.timer < b.timer)

\* begin() of a set of entries that is not empty.
First(es) == CHOOSE e \in es : \A d \in es \ {e} : Before(e, d)

Init == /\ wall = 1
        /\ sets = 0
        /\ timers = {}
        /\ added = {}
        /\ fuse = 0
        /\ readable = FALSE
        /\ phase = "idle"
        /\ retracted = FALSE
        /\ now = 0
        /\ expired = {}
        /\ torun = {}
        /\ done = {}
        /\ fault = "none"
-----------------------------------------------------------------------------
\* Mutant: the difference as it is.
HowMuchTimeSigned(when) == when - wall

\* Mutant: no least delay; a zero it_value disarms the timerfd.
HowMuchTimeZero(when) == IF when > wall THEN when - wall ELSE 0

\* HowMuchTimeFormNow: what is due already gets the least delay.
HowMuchTimeFormNow(when) == IF when > wall THEN when - wall ELSE 1

\* timerfd_settime also takes back an expiration that was not read.
ResetTimerfd(when) == /\ fuse' = HowMuchTimeFormNow(when)
                      /\ readable' = FALSE

\* What Insert returns.
EarliestChanged(when) == timers = {} \/ when < First(timers).when

\* Mutant: the timerfd is armed for the first timer of an empty set only.
AddTimerLate(t, when) ==
    /\ t \notin added
    /\ added' = added \cup {t}
    /\ timers' = timers \cup {Entry(when, t)}
    /\ IF timers = {} THEN ResetTimerfd(when) ELSE UNCHANGED fdVars
    /\ UNCHANGED <<clockVars, readVars, done, fault>>

\* AddTimerInLoop with Insert: in a functor or a callback of the loop. A timer
\* that comes from another thread, through RunInLoop, may be due on arrival.
AddTimer(t, when) ==
    /\ t \notin added
    /\ added' = added \cup {t}
    /\ timers' = timers \cup {Entry(when, t)}
    /\ IF EarliestChanged(when)
       THEN ResetTimerfd(when)
       ELSE UNCHANGED fdVars
    /\ UNCHANGED <<clockVars, readVars, done, fault>>

\* lower_bound looks for the first entry not before <<now, begin()->second>>.
Sentry == Entry(wall, First(timers).timer)
Expired == {e \in timers : Before(e, Sentry)}

\* Mutant: the timerfd is not read.
ReadTimerfdNot == retracted' = ~readable /\ UNCHANGED readable

\* A read that fails only prints a line.
ReadTimerfd == retracted' = ~readable /\ readable' = FALSE

\* epoll_wait reports the timerfd, and the handlers of the round begin.
Poll ==
    /\ phase = "idle"
    /\ readable
    /\ phase' = "listed"
    /\ UNCHANGED <<clockVars, timers, added, fdVars, retracted, now, expired,
                   torun, done, fault>>

\* HandleRead up to the end of GetExpired, and its assert.
HandleRead ==
    /\ phase = "listed"
    /\ phase' = "running"
    /\ ReadTimerfd
    /\ now' = wall
    /\ IF timers = {}
       THEN fault' = "empty" /\ UNCHANGED <<expired, torun, timers>>
       ELSE /\ fault' = IF \A e \in timers \ Expired : wall < e.when
                        THEN fault ELSE "assert"
            /\ expired' = Expired
            /\ torun' = Expired
            /\ timers' = timers \ Expired
    /\ UNCHANGED <<clockVars, added, fuse, done>>

\* Timer::Run of the next expired timer.
RunTimer ==
    /\ phase = "running"
    /\ torun # {}
    /\ torun' = torun \ {First(torun)}
    /\ done' = done \cup {First(torun).timer}
    /\ UNCHANGED <<clockVars, timers, added, fdVars, phase, retracted, now,
                   expired, fault>>

\* Mutant: the interval counts from when the timer was due.
RestartedFromDue == {Entry(e.when + Interval, e.timer) :
                        e \in {x \in expired : x.timer \in Repeating}}

\* TimerQueue::Reset with Timer::Restart.
Restarted == {Entry(now + Interval, e.timer) :
                 e \in {x \in expired : x.timer \in Repeating}}

Reset ==
    /\ phase = "running"
    /\ torun = {}
    /\ timers' = timers \cup Restarted
    /\ IF timers' = {} THEN UNCHANGED fdVars
                       ELSE ResetTimerfd(First(timers').when)
    /\ expired' = {}
    /\ phase' = "idle"
    /\ UNCHANGED <<clockVars, added, retracted, now, torun, done, fault>>

\* Time passes for both clocks; at MaxTime the wall clock stands still.
Tick ==
    /\ wall' = IF wall < MaxTime THEN wall + 1 ELSE wall
    /\ fuse' = IF fuse > 0 THEN fuse - 1 ELSE 0
    /\ readable' = (readable \/ fuse = 1)
    /\ UNCHANGED <<sets, timers, added, readVars, done, fault>>

\* Somebody sets the wall clock.
SetClock ==
    /\ sets < MaxSets
    /\ sets' = sets + 1
    /\ wall' \in 1 .. MaxTime
    /\ UNCHANGED <<timers, added, fdVars, readVars, done, fault>>
-----------------------------------------------------------------------------
LoopStep == Poll \/ HandleRead \/ RunTimer \/ Reset

Next == /\ fault = "none"
        /\ \/ \E t \in Timers, when \in 1 .. MaxTime - 1 : AddTimer(t, when)
           \/ LoopStep
           \/ Tick
           \/ SetClock

\* Time goes on, a readable timerfd is read, and callbacks return.
Fairness == /\ WF_vars(fault = "none" /\ Tick)
            /\ WF_vars(fault = "none" /\ LoopStep)

Spec == Init /\ [][Next]_vars /\ Fairness
-----------------------------------------------------------------------------
Entries == [when : Nat, timer : Timers]

TypeOK == /\ wall \in Nat
          /\ sets \in Nat
          /\ timers \in SUBSET Entries
          /\ added \in SUBSET Timers
          /\ fuse \in Nat
          /\ readable \in BOOLEAN
          /\ phase \in {"idle", "listed", "running"}
          /\ retracted \in BOOLEAN
          /\ now \in Nat
          /\ expired \in SUBSET Entries
          /\ torun \in SUBSET expired
          /\ done \in SUBSET Timers
          /\ fault \in {"none", "assert", "empty"}

\* The timerfd of a set without timers is armed, or has expired, exactly when
\* HandleRead last ran for an expiration that had been taken back: a handler of
\* an earlier channel had put a timer before all others and armed the timerfd
\* for it, HandleRead ran that timer too, and Reset, which finds none left, does
\* not disarm it. Nothing else leaves it armed when the last timer has run.
SpentWhenEmpty == timers = {} => (fuse > 0 \/ readable <=> retracted)

\* Whenever the loop is about to wait with timers in the set, the timerfd is
\* armed, and, as long as nobody sets the wall clock, it expires by the time
\* the earliest timer is due, or after the least delay: no order of insertions,
\* expirations and restarts leaves it disarmed or armed for a later timer.
ArmedForFirst ==
    phase = "idle" /\ timers # {} =>
        \/ readable
        \/ fuse > 0 /\ (sets = 0 => fuse <= HowMuchTimeFormNow(First(timers).when))

\* The timerfd expires in time for the earliest timer and, with the one
\* exception, not without one.
ArmedInTime == ArmedForFirst /\ SpentWhenEmpty

Pending(t) == {e \in timers \cup torun : e.timer = t}

\* Every timer is accounted for: it is queued, or about to be run, exactly once
\* until it has run; a repeating one comes back after it has.
Accounted == \A t \in added :
    /\ Cardinality(Pending(t)) <= 1
    /\ Pending(t) = {} => t \in done
    /\ t \in done /\ Pending(t) # {} => t \in Repeating
    /\ t \in Repeating => Pending(t) # {} \/ \E e \in expired : e.timer = t

\* Every timer that is added is run in the end, unless an assert fails first,
\* though the wall clock be set while the timerfd counts down.
TimersRun == \A t \in Timers : (t \in added) ~> (t \in done \/ fault # "none")

\* GetExpired's assert(it == timers_.end() || now < it->first).
NoAssertFails == fault # "assert"

\* A timer is due at this very instant and its address is not below that of the
\* earliest one, with which GetExpired looks for it.
Tie == \E e \in timers : e.when = wall /\ First(timers).timer <= e.timer

\* The two ways in which HandleRead goes wrong, whenever timers are inserted,
\* the timerfd expires and the clock is set: the assert fails on a tie, always
\* and on nothing else; and begin() is one of an empty set only when the
\* HandleRead before this one came for an expiration that had been taken back.
FailsAsForeseen == [][/\ (fault' = "assert") <=> HandleRead /\ Tie
                      /\ fault' = "empty" => retracted]_vars

\* What has become of a timer, and when it is due if it is to be run.
Became(t) ==
    IF t \notin added THEN "none"
    ELSE IF \E e \in timers : e.timer = t THEN "waiting"
    ELSE IF \E e \in torun : e.timer = t THEN "taken"
    ELSE IF t \in Repeating THEN "back"
    ELSE "over"

DueAt(t) == IF Pending(t) = {} THEN 0 ELSE (CHOOSE e \in Pending(t) : TRUE).when

TT == INSTANCE Timetable WITH Times <- 1 .. MaxTime - 1,
                              clock <- wall,
                              state <- [t \in Timers |-> Became(t)],
                              due <- [t \in Timers |-> DueAt(t)]

\* The set ordered by time and address, the sentry that GetExpired looks for in
\* it, and the order in which Run, Restart and Insert are called, keep the
\* timetable, whatever callbacks add and however the clock is set: no timer is
\* run early, or twice, or after one that was due later and taken with it, and
\* none that is overdue is left behind.
ImplementsTimetable == TT!Spec
=============================================================================
