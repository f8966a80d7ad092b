----------------------------- MODULE Timetable -----------------------------
(***************************************************************************)
(* What the users of RunAt, RunAfter and RunEvery are promised: when the   *)
(* loop looks at the clock it takes every timer that is overdue and none   *)
(* that is not due, it runs what it took once each and in the order of     *)
(* their times, and those with an interval are due again that long after   *)
(* the loop looked. How the timers are ordered, and what wakes the loop,   *)
(* is left out; how soon it looks is not promised here.                    *)
(***************************************************************************)
EXTENDS Naturals

CONSTANTS Timers, Repeating, Interval,
          Times   \* when a timer may be due first

VARIABLES clock,   \* the wall clock, which may be set
          state,   \* "none", "waiting", "taken"; then "over", or "back" for
                   \* those that will wait again
          due,     \* when a timer that waits or was taken is due
          now      \* when the loop looked at the clock last

vars == <<clock, state, due, now>>

Init == /\ clock \in Nat
        /\ state = [t \in Timers |-> "none"]
        /\ due = [t \in Timers |-> 0]
        /\ now = 0

Those(s) == {t \in Timers : state[t] = s}

Add(t, when) == /\ state[t] = "none"
                /\ state' = [state EXCEPT ![t] = "waiting"]
                /\ due' = [due EXCEPT ![t] = when]
                /\ UNCHANGED <<clock, now>>

\* A timer that is due at this very instant may be taken or have to wait.
Look == /\ Those("taken") = {} /\ Those("back") = {}
        /\ \E T \in SUBSET Those("waiting") :
              /\ \A t \in T : due[t] <= clock
              /\ \A t \in Those("waiting") \ T : due[t] >= clock
              /\ state' = [t \in Timers |-> IF t \in T THEN "taken" ELSE state[t]]
        /\ now' = clock
        /\ UNCHANGED <<clock, due>>

Run(t) == /\ state[t] = "taken"
          /\ \A u \in Those("taken") : due[t] <= due[u]
          /\ state' = [state EXCEPT ![t] = IF t \in Repeating THEN "back" ELSE "over"]
          /\ due' = [due EXCEPT ![t] = 0]
          /\ UNCHANGED <<clock, now>>

\* The timers with an interval, when all that were taken have run.
Return == /\ Those("taken") = {}
          /\ state' = [t \in Timers |-> IF state[t] = "back" THEN "waiting"
                                                             ELSE state[t]]
          /\ due' = [t \in Timers |-> IF state[t] = "back" THEN now + Interval
                                                           ELSE due[t]]
          /\ UNCHANGED <<clock, now>>

Clock == clock' \in Nat /\ UNCHANGED <<state, due, now>>

Next == \/ \E t \in Timers : Run(t) \/ \E when \in Times : Add(t, when)
        \/ Look
        \/ Return
        \/ Clock

Spec == Init /\ [][Next]_vars
=============================================================================
