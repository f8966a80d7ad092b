-------------------------- MODULE TimerQueueProofs --------------------------
(***************************************************************************)
(* Proofs about module TimerQueue, for any timers, any interval and any    *)
(* number of times the wall clock is set.                                  *)
(***************************************************************************)
EXTENDS TimerQueue, FiniteSetTheorems, WellFoundedInduction, TLAPS

\* An expiration that was not read has stopped the timerfd; one that HandleRead
\* will come for was only taken back by arming it again; and what is armed is
\* for a timer in the set, with the one exception.
FdInv == /\ readable => fuse = 0
         /\ phase = "listed" => fuse > 0 \/ readable
         /\ SpentWhenEmpty

\* A timer has one entry at most in timers_ and in HandleRead's list together,
\* which is what keeps an entry from being run twice or inserted beside itself.
OneEntry == \A e, d \in timers \cup expired : e.timer = d.timer => e = d
Apart == timers \cap expired = {}
OnlyAdded == /\ \A e \in timers \cup expired : e.timer \in added
             /\ done \subseteq added

\* Who has run, and who comes back.
Has(es, t) == \E e \in es : e.timer = t

RunAndDone == \A e \in expired \ torun : e.timer \in done
OnceDone == \A t \in added \ Repeating : t \in done <=> ~Has(timers \cup torun, t)
ComesBack == \A t \in added \cap Repeating : /\ Has(timers \cup expired, t)
                                             /\ t \in done \/ Has(timers \cup torun, t)
IdleEmpty == phase # "running" => expired = {}

BookInv == /\ OneEntry /\ Apart /\ OnlyAdded
           /\ RunAndDone /\ OnceDone /\ ComesBack /\ IdleEmpty

Inv == TypeOK /\ FdInv /\ ArmedForFirst /\ BookInv
-----------------------------------------------------------------------------
(* begin().                                                                *)

LEMMA FiniteHasLeast ==
    ASSUME NEW S \in SUBSET Nat, S # {}, IsFiniteSet(S)
    PROVE  \E m \in S : \A n \in S : m <= n
  <1> DEFINE UpTo(x) == {y \in S : y <= x}
             T == {U \in SUBSET S : \E x \in S : U = UpTo(x)}
  <1>1. \A x \in S : UpTo(x) \in T
    OBVIOUS
  <1>2. T \subseteq FiniteSubsetsOf(S)
    <2>1. FiniteSubsetsOf(S) = SUBSET S
      BY FS_FiniteSubsetsOfFinite
    <2>2. QED BY <2>1
  <1>3. IsWellFoundedOn(StrictSubsetOrdering(S), FiniteSubsetsOf(S))
    BY FS_StrictSubsetOrderingWellFounded
  <1>4. PICK X \in T : \A Y \in T : <<Y, X>> \notin StrictSubsetOrdering(S)
    <2> HIDE DEF T, UpTo
    <2>1. T # {}
      BY <1>1
    <2>2. QED BY <1>2, <1>3, <2>1, WFMin
  <1>5. PICK m \in S : X = UpTo(m)
    OBVIOUS
  <1>6. ASSUME NEW n \in S, ~(m <= n)
        PROVE  FALSE
    <2>1. m \in Nat /\ n \in Nat /\ n < m
      BY <1>6
    <2>2. \A y \in S : y <= n => y <= m
      <3>1. \A y \in S : y \in Nat
        OBVIOUS
      <3>2. QED BY <2>1, <3>1
    <2>3. UpTo(n) \subseteq UpTo(m)
      BY <2>2
    <2>4. m \in UpTo(m)
      BY <2>1
    <2>5. m \notin UpTo(n)
      BY <1>6
    <2>6. UpTo(n) \in SUBSET S /\ UpTo(m) \in SUBSET S
      OBVIOUS
    <2> HIDE DEF UpTo, T
    <2>7. <<UpTo(n), UpTo(m)>> \in StrictSubsetOrdering(S)
      BY <2>3, <2>4, <2>5, <2>6 DEF StrictSubsetOrdering
    <2>8. QED BY <1>1, <1>4, <1>5, <2>7
  <1>7. QED BY <1>6

LEMMA HasLeast ==
    ASSUME NEW S \in SUBSET Nat, S # {}
    PROVE  \E m \in S : \A n \in S : m <= n
  <1>1. PICK x \in S : TRUE
    OBVIOUS
  <1>2. x \in Nat
    OBVIOUS
  <1> DEFINE R == {n \in S : n <= x}
  <1>3. R \in SUBSET Nat /\ \A n \in R : n <= x
    OBVIOUS
  <1>4. x \in R
    BY <1>2
  <1>5. IsFiniteSet(R)
    <2> HIDE DEF R
    <2>1. QED BY <1>2, <1>3, FS_BoundedSetOfNaturals
  <1>6. PICK m \in R : \A n \in R : m <= n
    <2> HIDE DEF R
    <2>1. QED BY <1>3, <1>4, <1>5, FiniteHasLeast
  <1>7. ASSUME NEW n \in S
        PROVE  m <= n
    <2>1. m <= x /\ m \in Nat /\ n \in Nat
      BY <1>3
    <2>2. QED BY <1>2, <1>6, <2>1
  <1>8. QED BY <1>7

\* begin() is an entry of the set, and none is earlier.
LEMMA FirstIsEarliest ==
    ASSUME NEW es \in SUBSET Entries, es # {}
    PROVE  /\ First(es) \in es
           /\ \A d \in es : First(es).when <= d.when
  <1>1. /\ {e.when : e \in es} \in SUBSET Nat
        /\ {e.when : e \in es} # {}
    BY DEF Entries
  <1>2. PICK w \in {e.when : e \in es} : \A v \in {e.when : e \in es} : w <= v
    BY <1>1, HasLeast
  <1>3. /\ {e.timer : e \in {d \in es : d.when = w}} \in SUBSET Nat
        /\ {e.timer : e \in {d \in es : d.when = w}} # {}
    BY TimersAssumption DEF Entries
  <1>4. PICK t \in {e.timer : e \in {d \in es : d.when = w}} :
            \A u \in {e.timer : e \in {d \in es : d.when = w}} : t <= u
    BY <1>3, HasLeast
  <1>5. PICK e \in es : e.when = w /\ e.timer = t
    OBVIOUS
  <1>6. ASSUME NEW d \in es \ {e}
        PROVE  Before(e, d)
    <2>1. d.when \in Nat /\ d.timer \in Nat /\ w \in Nat /\ t \in Nat
      BY <1>1, <1>3, TimersAssumption DEF Entries
    <2>2. w <= d.when /\ (d.when = w => t <= d.timer)
      BY <1>2, <1>4
    <2>3. d.when # w \/ d.timer # t
      BY <1>5 DEF Entries
    <2>4. QED BY <1>5, <2>1, <2>2, <2>3 DEF Before
  <1>7. /\ First(es) \in es
        /\ \A d \in es \ {First(es)} : Before(First(es), d)
    BY <1>6 DEF First
  <1>8. QED BY <1>7 DEF Before, Entries
-----------------------------------------------------------------------------
LEMMA DelayIsPositive ==
    ASSUME wall \in Nat, NEW w \in Nat
    PROVE  HowMuchTimeFormNow(w) \in Nat \ {0}
  BY DEF HowMuchTimeFormNow

LEMMA TypeInitially ==
    ASSUME Init
    PROVE  TypeOK
  BY DEF Init, TypeOK

LEMMA AddTimerTypes ==
    ASSUME TypeOK, NEW t \in Timers, NEW w \in 1 .. MaxTime - 1, AddTimer(t, w)
    PROVE  TypeOK'
  <1>1. w \in Nat
    BY TimeAssumption
  <1>2. timers' \in SUBSET Entries
    BY <1>1 DEF AddTimer, TypeOK, Entry, Entries
  <1>3. fuse' \in Nat /\ readable' \in BOOLEAN
    BY <1>1, DelayIsPositive DEF AddTimer, ResetTimerfd, TypeOK, fdVars
  <1>4. QED BY <1>2, <1>3 DEF AddTimer, TypeOK, clockVars, readVars

LEMMA RestartedTypes ==
    ASSUME TypeOK
    PROVE  Restarted \in SUBSET Entries
  BY TimeAssumption DEF TypeOK, Restarted, Entry, Entries

LEMMA ResetTypes ==
    ASSUME TypeOK, Reset
    PROVE  TypeOK'
  <1>1. timers' \in SUBSET Entries
    BY RestartedTypes DEF Reset, TypeOK
  <1>2. fuse' \in Nat /\ readable' \in BOOLEAN
    <2>1. CASE timers' = {}
      BY <2>1 DEF Reset, TypeOK, fdVars
    <2>2. CASE timers' # {}
      <3>1. First(timers').when \in Nat
        BY <1>1, <2>2, FirstIsEarliest DEF Entries
      <3>2. QED BY <2>2, <3>1, DelayIsPositive DEF Reset, ResetTimerfd, TypeOK
    <2>3. QED BY <2>1, <2>2
  <1>3. QED BY <1>1, <1>2 DEF Reset, TypeOK, clockVars

LEMMA TypeKept ==
    ASSUME TypeOK, [Next]_vars
    PROVE  TypeOK'
  <1>1. ASSUME NEW t \in Timers, NEW w \in 1 .. MaxTime - 1, AddTimer(t, w)
        PROVE  TypeOK'
    BY <1>1, AddTimerTypes
  <1>2. CASE Poll \/ HandleRead
    BY <1>2 DEF Poll, HandleRead, ReadTimerfd, TypeOK, Expired, clockVars, fdVars
  <1>3. CASE RunTimer
    <2>1. First(torun) \in torun /\ torun \in SUBSET Entries
      BY <1>3, FirstIsEarliest DEF RunTimer, TypeOK
    <2>2. First(torun).timer \in Timers
      BY <2>1 DEF Entries
    <2>3. QED BY <1>3, <2>2 DEF RunTimer, TypeOK, clockVars, fdVars
  <1>4. CASE Reset
    BY <1>4, ResetTypes
  <1>5. CASE Tick
    BY <1>5 DEF Tick, TypeOK, readVars
  <1>6. CASE SetClock
    BY <1>6, TimeAssumption DEF SetClock, TypeOK, readVars, fdVars
  <1>7. CASE UNCHANGED vars
    BY <1>7 DEF TypeOK, vars, clockVars, fdVars, readVars
  <1>8. QED BY <1>1, <1>2, <1>3, <1>4, <1>5, <1>6, <1>7 DEF Next, LoopStep
-----------------------------------------------------------------------------
(* The timerfd.                                                            *)

LEMMA FdKept ==
    ASSUME TypeOK, TypeOK', FdInv, [Next]_vars
    PROVE  FdInv'
  <1>1. ASSUME NEW t \in Timers, NEW w \in 1 .. MaxTime - 1, AddTimer(t, w)
        PROVE  FdInv'
    <2>1. timers' # {} /\ UNCHANGED phase
      BY <1>1 DEF AddTimer, readVars
    <2>2. CASE UNCHANGED fdVars
      BY <2>1, <2>2 DEF FdInv, SpentWhenEmpty, fdVars
    <2>3. CASE ResetTimerfd(w)
      <3>1. fuse' \in Nat \ {0} /\ ~readable'
        BY <2>3, DelayIsPositive, TimeAssumption DEF ResetTimerfd, TypeOK
      <3>2. QED BY <2>1, <3>1 DEF FdInv, SpentWhenEmpty
    <2>4. QED BY <1>1, <2>2, <2>3 DEF AddTimer
  <1>2. CASE Poll
    BY <1>2 DEF Poll, FdInv, SpentWhenEmpty, fdVars
  <1>3. CASE HandleRead
    <2>1. /\ phase = "listed" /\ phase' = "running"
          /\ retracted' = ~readable /\ ~readable' /\ UNCHANGED fuse
      BY <1>3 DEF HandleRead, ReadTimerfd
    <2>2. fuse > 0 <=> ~readable
      BY <2>1 DEF FdInv, TypeOK
    <2>3. QED BY <2>1, <2>2 DEF FdInv, SpentWhenEmpty
  <1>4. CASE RunTimer
    BY <1>4 DEF RunTimer, FdInv, SpentWhenEmpty, fdVars
  <1>5. CASE Reset
    <2>1. CASE timers' = {}
      <3>1. timers = {} /\ UNCHANGED <<fdVars, retracted>>
        BY <1>5, <2>1 DEF Reset
      <3>2. QED BY <1>5, <2>1, <3>1 DEF Reset, FdInv, SpentWhenEmpty, fdVars
    <2>2. CASE timers' # {}
      BY <1>5, <2>2 DEF Reset, ResetTimerfd, FdInv, SpentWhenEmpty
    <2>3. QED BY <2>1, <2>2
  <1>6. CASE Tick
    <2>1. UNCHANGED <<timers, phase, retracted>>
      BY <1>6 DEF Tick, readVars
    <2>2. (fuse' > 0 \/ readable') <=> (fuse > 0 \/ readable)
      <3>1. CASE fuse = 1
        <4>1. readable' = TRUE
          BY <1>6, <3>1 DEF Tick
        <4>2. QED BY <3>1, <4>1
      <3>2. CASE fuse # 1
        <4>1. readable' <=> readable
          BY <1>6, <3>2 DEF Tick, TypeOK
        <4>2. fuse' > 0 <=> fuse > 0
          BY <1>6, <3>2 DEF Tick, TypeOK
        <4>3. QED BY <4>1, <4>2
      <3>3. QED BY <3>1, <3>2
    <2>3. readable' => fuse' = 0
      BY <1>6 DEF Tick, FdInv, TypeOK
    <2>4. QED BY <2>1, <2>2, <2>3 DEF FdInv, SpentWhenEmpty
  <1>7. CASE SetClock
    BY <1>7 DEF SetClock, FdInv, SpentWhenEmpty, fdVars, readVars
  <1>8. CASE UNCHANGED vars
    BY <1>8 DEF FdInv, SpentWhenEmpty, vars, fdVars, readVars
  <1>9. QED BY <1>1, <1>2, <1>3, <1>4, <1>5, <1>6, <1>7, <1>8 DEF Next, LoopStep

\* Insert only leaves the timerfd alone when begin() stays as early as it was.
LEMMA AddTimerArms ==
    ASSUME TypeOK, TypeOK', ArmedForFirst,
           NEW t \in Timers, NEW w \in 1 .. MaxTime - 1, AddTimer(t, w)
    PROVE  ArmedForFirst'
  <1> DEFINE f == First(timers')
  <1>1. /\ w \in Nat /\ timers' = timers \cup {Entry(w, t)}
        /\ timers' \in SUBSET Entries /\ timers \in SUBSET Entries
        /\ Entry(w, t).when = w
        /\ UNCHANGED <<wall, sets, phase>>
    BY TimeAssumption DEF AddTimer, TypeOK, Entry, clockVars, readVars
  <1>2. f \in timers' /\ \A d \in timers' : f.when <= d.when
    BY <1>1, FirstIsEarliest
  <1>3. HowMuchTimeFormNow(w)' = HowMuchTimeFormNow(w) /\ f.when \in Nat
    BY <1>1, <1>2 DEF HowMuchTimeFormNow, Entries
  <1>4. CASE timers = {}
    <2>1. f.when = w /\ fuse' = HowMuchTimeFormNow(w)
      BY <1>1, <1>2, <1>4 DEF AddTimer, EarliestChanged, ResetTimerfd
    <2>2. fuse' \in Nat \ {0}
      BY <1>1, <2>1, DelayIsPositive DEF TypeOK
    <2>3. HowMuchTimeFormNow(First(timers).when)' = fuse'
      BY <1>1, <2>1 DEF HowMuchTimeFormNow
    <2>4. QED BY <2>2, <2>3 DEF ArmedForFirst
  <1>5. CASE timers # {}
    <2>1. /\ First(timers) \in timers /\ First(timers).when \in Nat
          /\ \A d \in timers : First(timers).when <= d.when /\ d.when \in Nat
      BY <1>1, <1>5, FirstIsEarliest DEF Entries
    <2>2. CASE w < First(timers).when
      <3>1. f.when = w
        <4>1. f.when <= w
          BY <1>1, <1>2
        <4>2. f \in timers => FALSE
          BY <1>1, <1>3, <2>1, <2>2, <4>1
        <4>3. QED BY <1>1, <1>2, <4>2
      <3>2. fuse' = HowMuchTimeFormNow(w)
        BY <2>2 DEF AddTimer, EarliestChanged, ResetTimerfd
      <3>3. fuse' \in Nat \ {0}
        BY <1>1, <3>2, DelayIsPositive DEF TypeOK
      <3>4. HowMuchTimeFormNow(First(timers).when)' = fuse'
        BY <1>1, <3>1, <3>2 DEF HowMuchTimeFormNow
      <3>5. QED BY <3>3, <3>4 DEF ArmedForFirst
    <2>3. CASE ~(w < First(timers).when)
      <3>1. f.when = First(timers).when
        <4> HIDE DEF f
        <4>1. f.when <= First(timers).when
          BY <1>1, <1>2, <2>1
        <4>2. f \in timers => First(timers).when <= f.when
          BY <2>1
        <4>3. f = Entry(w, t) => First(timers).when <= f.when
          BY <1>1, <2>1, <2>3
        <4>4. QED BY <1>1, <1>2, <1>3, <2>1, <4>1, <4>2, <4>3
      <3>2. UNCHANGED <<fuse, readable>>
        BY <1>5, <2>3 DEF AddTimer, EarliestChanged, fdVars
      <3>3. HowMuchTimeFormNow(First(timers).when)' = HowMuchTimeFormNow(First(timers).when)
        BY <1>1, <3>1 DEF HowMuchTimeFormNow
      <3>4. QED BY <1>1, <1>5, <3>2, <3>3 DEF ArmedForFirst
    <2>4. QED BY <2>2, <2>3
  <1>6. QED BY <1>4, <1>5

LEMMA ArmedKept ==
    ASSUME TypeOK, TypeOK', ArmedForFirst, [Next]_vars
    PROVE  ArmedForFirst'
  <1>1. ASSUME NEW t \in Timers, NEW w \in 1 .. MaxTime - 1, AddTimer(t, w)
        PROVE  ArmedForFirst'
    BY <1>1, AddTimerArms
  <1>2. CASE Poll \/ HandleRead
    BY <1>2 DEF Poll, HandleRead, ArmedForFirst
  <1>3. CASE RunTimer
    BY <1>3 DEF RunTimer, ArmedForFirst
  <1>4. CASE Reset
    <2>1. CASE timers' = {}
      BY <2>1 DEF ArmedForFirst
    <2>2. CASE timers' # {}
      <3>1. First(timers').when \in Nat
        BY <2>2, FirstIsEarliest DEF TypeOK, Entries
      <3>2. fuse' = HowMuchTimeFormNow(First(timers').when) /\ UNCHANGED wall
        BY <1>4, <2>2 DEF Reset, ResetTimerfd, clockVars
      <3>3. fuse' \in Nat \ {0}
        BY <3>1, <3>2, DelayIsPositive DEF TypeOK
      <3>4. HowMuchTimeFormNow(First(timers').when) =
                HowMuchTimeFormNow(First(timers).when)'
        BY <3>2 DEF HowMuchTimeFormNow
      <3>5. QED BY <3>2, <3>3, <3>4 DEF ArmedForFirst
    <2>3. QED BY <2>1, <2>2
  <1>5. CASE Tick
    <2>1. UNCHANGED <<timers, sets, phase>>
      BY <1>5 DEF Tick, readVars
    <2>2. SUFFICES ASSUME phase = "idle", timers # {}, ~readable'
                   PROVE  fuse' > 0 /\ (sets = 0 =>
                              fuse' <= HowMuchTimeFormNow(First(timers).when)')
      BY <2>1 DEF ArmedForFirst
    <2>3. /\ First(timers).when \in Nat
      BY <2>2, FirstIsEarliest DEF TypeOK, Entries
    <2>4. fuse > 1 /\ fuse' = fuse - 1 /\ fuse \in Nat
      <3>1. ~readable /\ fuse # 1
        BY <1>5, <2>2 DEF Tick
      <3>2. fuse > 0 /\ fuse \in Nat
        BY <2>2, <3>1 DEF ArmedForFirst, TypeOK
      <3>3. QED BY <1>5, <3>1, <3>2 DEF Tick
    <2>5. ASSUME sets = 0
          PROVE  fuse' <= HowMuchTimeFormNow(First(timers).when)'
      <3>1. fuse <= HowMuchTimeFormNow(First(timers).when)
        <4>1. ~readable
          BY <1>5, <2>2 DEF Tick
        <4>2. QED BY <2>2, <2>5, <4>1 DEF ArmedForFirst
      <3>2. wall \in Nat /\ (wall' = wall \/ wall' = wall + 1)
        BY <1>5 DEF Tick, TypeOK
      <3>3. First(timers)' = First(timers)
        BY <2>1
      <3> DEFINE v == First(timers).when
      <3>4. fuse <= IF v > wall THEN v - wall ELSE 1
        BY <3>1 DEF HowMuchTimeFormNow
      <3>5. HowMuchTimeFormNow(v)' = IF v > wall' THEN v - wall' ELSE 1
        BY <3>3 DEF HowMuchTimeFormNow
      <3>6. v \in Nat
        BY <2>3
      <3> HIDE DEF v
      <3>7. fuse - 1 <= IF v > wall' THEN v - wall' ELSE 1
        BY <2>4, <3>2, <3>4, <3>6
      <3>8. QED BY <2>4, <3>5, <3>7 DEF v
    <2>6. QED BY <2>4, <2>5
  <1>6. CASE SetClock
    BY <1>6 DEF SetClock, ArmedForFirst, TypeOK, fdVars, readVars
  <1>7. CASE UNCHANGED vars
    BY <1>7 DEF ArmedForFirst, HowMuchTimeFormNow, vars, clockVars, fdVars, readVars
  <1>8. QED BY <1>1, <1>2, <1>3, <1>4, <1>5, <1>6, <1>7 DEF Next, LoopStep
-----------------------------------------------------------------------------
(* The books.                                                              *)

LEMMA AddTimerKeepsBooks ==
    ASSUME TypeOK, BookInv,
           NEW t \in Timers, NEW w \in 1 .. MaxTime - 1, AddTimer(t, w)
    PROVE  BookInv'
  <1> DEFINE x == Entry(w, t)
  <1>1. /\ x.timer = t /\ t \notin added
        /\ timers' = timers \cup {x} /\ added' = added \cup {t}
        /\ UNCHANGED <<phase, expired, torun, done>>
    BY DEF AddTimer, Entry, readVars
  <1> HIDE DEF x
  <1>2. \A e \in timers \cup expired : e.timer # t
    BY <1>1 DEF BookInv, OnlyAdded
  <1>3. OneEntry' /\ Apart' /\ OnlyAdded'
    BY <1>1, <1>2 DEF BookInv, OneEntry, Apart, OnlyAdded
  <1>4. RunAndDone' /\ IdleEmpty'
    BY <1>1 DEF BookInv, RunAndDone, IdleEmpty
  <1>5. t \notin done /\ Has(timers' \cup torun', t) /\ Has(timers' \cup expired', t)
    BY <1>1 DEF BookInv, OnlyAdded, Has
  <1>6. \A u \in added : /\ Has(timers' \cup torun', u) <=> Has(timers \cup torun, u)
                         /\ Has(timers' \cup expired', u) <=> Has(timers \cup expired, u)
    BY <1>1 DEF Has
  <1>7. OnceDone' /\ ComesBack'
    BY <1>1, <1>5, <1>6 DEF BookInv, OnceDone, ComesBack
  <1>8. QED BY <1>3, <1>4, <1>7 DEF BookInv

LEMMA HandleReadKeepsBooks ==
    ASSUME TypeOK, BookInv, HandleRead
    PROVE  BookInv'
  <1>1. /\ phase = "listed" /\ expired = {} /\ torun = {}
        /\ UNCHANGED <<added, done>>
    BY DEF HandleRead, BookInv, IdleEmpty, TypeOK
  <1>2. CASE timers = {}
    <2>1. phase' = "running" /\ UNCHANGED <<expired, torun, timers>>
      BY <1>2 DEF HandleRead
    <2>2. QED BY <1>1, <2>1 DEF BookInv, OneEntry, Apart, OnlyAdded, RunAndDone,
                                OnceDone, ComesBack, IdleEmpty
  <1>3. CASE timers # {}
    <2>1. /\ phase' = "running" /\ torun' = expired'
          /\ timers' \cup expired' = timers /\ timers' \cap expired' = {}
      BY <1>3 DEF HandleRead, Expired
    <2>2. timers' \cup expired' = timers \cup expired
          /\ timers' \cup torun' = timers \cup torun
      BY <1>1, <2>1
    <2>3. QED BY <1>1, <2>1, <2>2 DEF BookInv, OneEntry, Apart, OnlyAdded, RunAndDone,
                                      OnceDone, ComesBack, IdleEmpty
  <1>4. QED BY <1>2, <1>3

LEMMA RunTimerKeepsBooks ==
    ASSUME TypeOK, BookInv, RunTimer
    PROVE  BookInv'
  <1> DEFINE x == First(torun)
  <1>1. /\ x \in torun /\ torun' = torun \ {x} /\ done' = done \cup {x.timer}
        /\ torun \subseteq expired
        /\ UNCHANGED <<timers, added, phase, expired>>
    BY FirstIsEarliest DEF RunTimer, TypeOK
  <1> HIDE DEF x
  <1>2. OneEntry' /\ Apart' /\ IdleEmpty'
    BY <1>1 DEF BookInv, OneEntry, Apart, IdleEmpty
  <1>3. OnlyAdded'
    BY <1>1 DEF BookInv, OnlyAdded
  <1>4. RunAndDone'
    BY <1>1 DEF BookInv, RunAndDone
  <1>5. ~Has(timers' \cup torun', x.timer)
    <2>1. x \in expired /\ x \notin timers
      BY <1>1 DEF BookInv, Apart
    <2>2. \A e \in timers \cup expired : e.timer = x.timer => e = x
      BY <2>1 DEF BookInv, OneEntry
    <2>3. QED BY <1>1, <2>1, <2>2 DEF Has
  <1>6. \A t \in added : t # x.timer =>
            (Has(timers' \cup torun', t) <=> Has(timers \cup torun, t))
    BY <1>1 DEF Has
  <1>7. OnceDone'
    BY <1>1, <1>5, <1>6 DEF BookInv, OnceDone
  <1>8. ComesBack'
    BY <1>1, <1>6 DEF BookInv, ComesBack
  <1>9. QED BY <1>2, <1>3, <1>4, <1>7, <1>8 DEF BookInv

LEMMA ResetKeepsBooks ==
    ASSUME TypeOK, BookInv, Reset
    PROVE  BookInv'
  <1>1. /\ torun = {} /\ timers' = timers \cup Restarted /\ expired' = {}
        /\ UNCHANGED <<added, torun, done>>
    BY DEF Reset
  <1>2. \A e \in Restarted : \E x \in expired :
            /\ x.timer \in Repeating /\ e = Entry(now + Interval, x.timer)
    BY DEF Restarted
  <1>3. \A x \in expired : x.timer \in Repeating =>
            Entry(now + Interval, x.timer) \in Restarted
    BY DEF Restarted
  <1>4. \A t : Entry(now + Interval, t).timer = t
    BY DEF Entry
  <1>5. OneEntry'
    <2>1. ASSUME NEW e \in timers', NEW d \in timers', e.timer = d.timer
          PROVE  e = d
      <3>1. CASE e \in timers /\ d \in timers
        BY <2>1, <3>1 DEF BookInv, OneEntry
      <3>2. CASE e \in Restarted /\ d \in Restarted
        BY <1>2, <1>4, <2>1, <3>2
      <3>3. ASSUME NEW y \in timers, NEW z \in Restarted, y.timer = z.timer
            PROVE  FALSE
        BY <1>2, <1>4, <3>3 DEF BookInv, OneEntry, Apart
      <3>4. QED BY <1>1, <2>1, <3>1, <3>2, <3>3
    <2>2. QED BY <1>1, <2>1 DEF OneEntry
  <1>6. OnlyAdded'
    BY <1>1, <1>2, <1>4 DEF BookInv, OnlyAdded
  <1>7. ASSUME NEW t \in added \ Repeating
        PROVE  Has(timers' \cup torun', t) <=> Has(timers \cup torun, t)
    BY <1>1, <1>2, <1>4 DEF Has
  <1>8. OnceDone'
    BY <1>1, <1>7 DEF BookInv, OnceDone
  <1>9. ASSUME NEW t \in added \cap Repeating
        PROVE  Has(timers', t)
    <2>1. PICK e \in timers \cup expired : e.timer = t
      BY DEF BookInv, ComesBack, Has
    <2>2. CASE e \in timers
      BY <1>1, <2>1, <2>2 DEF Has
    <2>3. CASE e \in expired
      <3>1. Entry(now + Interval, t) \in timers'
        BY <1>1, <1>3, <2>1, <2>3
      <3>2. QED BY <1>4, <3>1 DEF Has
    <2>4. QED BY <2>2, <2>3
  <1>10. ComesBack'
    <2>1. timers' \cup expired' = timers' /\ timers' \cup torun' = timers'
      BY <1>1
    <2>2. QED BY <1>1, <1>9, <2>1 DEF ComesBack
  <1>11. Apart' /\ RunAndDone' /\ IdleEmpty'
    BY <1>1 DEF Apart, RunAndDone, IdleEmpty
  <1>12. QED BY <1>5, <1>6, <1>8, <1>10, <1>11 DEF BookInv

LEMMA BooksKept ==
    ASSUME TypeOK, BookInv, [Next]_vars
    PROVE  BookInv'
  <1>1. ASSUME NEW t \in Timers, NEW w \in 1 .. MaxTime - 1, AddTimer(t, w)
        PROVE  BookInv'
    BY <1>1, AddTimerKeepsBooks
  <1>2. ASSUME UNCHANGED <<timers, added, phase, expired, torun, done>>
        PROVE  BookInv'
    BY <1>2 DEF BookInv, OneEntry, Apart, OnlyAdded, RunAndDone, OnceDone, ComesBack,
                IdleEmpty
  <1>3. CASE Poll
    BY <1>3 DEF Poll, BookInv, OneEntry, Apart, OnlyAdded, RunAndDone, OnceDone,
                ComesBack, IdleEmpty
  <1>4. QED BY <1>1, <1>2, <1>3, HandleReadKeepsBooks, RunTimerKeepsBooks,
               ResetKeepsBooks
            DEF Next, LoopStep, Tick, SetClock, vars, readVars
-----------------------------------------------------------------------------
LEMMA InvInitially ==
    ASSUME Init
    PROVE  Inv
  <1>1. FdInv /\ ArmedForFirst
    BY DEF Init, FdInv, SpentWhenEmpty, ArmedForFirst
  <1>2. BookInv
    BY DEF Init, BookInv, OneEntry, Apart, OnlyAdded, RunAndDone, OnceDone, ComesBack,
           IdleEmpty
  <1>3. QED BY <1>1, <1>2, TypeInitially DEF Inv

LEMMA InvHolds == Spec => []Inv
  <1>1. Init => Inv
    BY InvInitially
  <1>2. Inv /\ [Next]_vars => Inv'
    BY TypeKept, FdKept, ArmedKept, BooksKept DEF Inv
  <1>3. QED BY <1>1, <1>2, PTL DEF Spec

\* Type correctness of TimerQueue: what is armed, queued and listed is of its
\* type, begin() included.
THEOREM TimerTypeCorrect == Spec => []TypeOK
  <1>1. Inv => TypeOK
    BY DEF Inv
  <1>2. QED BY <1>1, InvHolds, PTL

\* The timerfd of TimerQueue expires in time for the earliest timer, whatever was
\* inserted, expired, restarted and run before; and it is armed for an empty set
\* after a HandleRead whose expiration an insertion had taken back, always then
\* and at no other time.
THEOREM TimerfdInTime == Spec => []ArmedInTime
  <1>1. Inv => ArmedInTime
    BY DEF Inv, FdInv, ArmedInTime
  <1>2. QED BY <1>1, InvHolds, PTL

\* TimerQueue loses no timer, runs none twice and restarts those that repeat.
THEOREM TimersAccounted == Spec => []Accounted
  <1>1. ASSUME Inv
        PROVE  Accounted
    <2>1. SUFFICES ASSUME NEW t \in added
                   PROVE  /\ Cardinality(Pending(t)) <= 1
                          /\ Pending(t) = {} => t \in done
                          /\ t \in done /\ Pending(t) # {} => t \in Repeating
                          /\ t \in Repeating => \/ Pending(t) # {}
                                                \/ \E e \in expired : e.timer = t
      BY DEF Accounted
    <2>2. \A e, d \in Pending(t) : e = d
      BY <1>1 DEF Inv, TypeOK, BookInv, OneEntry, Pending
    <2>3. Cardinality(Pending(t)) <= 1
      <3>1. CASE Pending(t) = {}
        BY <3>1, FS_EmptySet
      <3>2. CASE Pending(t) # {}
        <4>1. PICK e \in Pending(t) : Pending(t) = {e}
          BY <2>2, <3>2
        <4>2. QED BY <4>1, FS_Singleton
      <3>3. QED BY <3>1, <3>2
    <2>4. Pending(t) = {} <=> ~Has(timers \cup torun, t)
      BY DEF Pending, Has
    <2>5. t \in Repeating => /\ Has(timers \cup expired, t)
                             /\ t \in done \/ Has(timers \cup torun, t)
      BY <1>1 DEF Inv, BookInv, ComesBack
    <2>6. t \notin Repeating => (t \in done <=> ~Has(timers \cup torun, t))
      BY <1>1 DEF Inv, BookInv, OnceDone
    <2>7. Has(timers \cup expired, t) =>
              Pending(t) # {} \/ \E e \in expired : e.timer = t
      BY DEF Has, Pending
    <2>8. QED BY <2>3, <2>4, <2>5, <2>6, <2>7
  <1>2. Inv => Accounted
    BY <1>1
  <1>3. QED BY <1>2, InvHolds, PTL

\* The assert of GetExpired fails exactly on ties.
LEMMA AssertFailsOnTies ==
    ASSUME Inv, HandleRead, fault = "none"
    PROVE  fault' = "assert" <=> Tie
  <1>1. CASE timers = {}
    BY <1>1 DEF HandleRead, Tie
  <1>2. CASE timers # {}
    <2>1. fault' = IF \A e \in timers \ Expired : wall < e.when THEN fault ELSE "assert"
      BY <1>2 DEF HandleRead
    <2>2. wall \in Nat /\ \A e \in timers : e.when \in Nat /\ e.timer \in Nat
      BY TimersAssumption DEF Inv, TypeOK, Entries
    <2>3. First(timers) \in timers
      BY <1>2, FirstIsEarliest DEF Inv, TypeOK
    <2>4. ASSUME NEW e \in timers
          PROVE  e \notin Expired /\ ~(wall < e.when)
                     <=> e.when = wall /\ First(timers).timer <= e.timer
      BY <2>2, <2>3 DEF Expired, Sentry, Before, Entry
    <2>5. (\A e \in timers \ Expired : wall < e.when) <=> ~Tie
      BY <2>4 DEF Tie
    <2>6. QED BY <2>1, <2>5
  <1>3. QED BY <1>1, <1>2

\* HandleRead finds an empty set only if the one before it had its expiration
\* taken back: it is called for a timerfd that expired, or was armed again.
LEMMA EmptyWhenRetracted ==
    ASSUME Inv, HandleRead, timers = {}
    PROVE  retracted
  BY DEF HandleRead, Inv, FdInv, SpentWhenEmpty

\* TimerQueue::GetExpired fails its assert when a timer is due at the very instant
\* of now and lies at or behind the sentry, always then and on nothing else. It
\* dereferences begin() of an empty set only after a HandleRead that a handler
\* earlier in the round had overtaken with a timer of its own.
THEOREM FailuresForeseen == Spec => FailsAsForeseen
  <1> DEFINE Foreseen == /\ (fault' = "assert") <=> HandleRead /\ Tie
                         /\ fault' = "empty" => retracted
  <1>1. ASSUME Inv, Next
        PROVE  Foreseen
    <2>1. fault = "none"
      BY <1>1 DEF Next
    <2>2. CASE HandleRead
      <3>1. fault' = "empty" => timers = {}
        BY <2>1, <2>2 DEF HandleRead
      <3>2. QED BY <1>1, <2>1, <2>2, <3>1, AssertFailsOnTies, EmptyWhenRetracted
    <2>3. CASE ~HandleRead
      <3>1. fault' = fault
        BY <1>1, <2>3 DEF Next, LoopStep, AddTimer, Poll, RunTimer, Reset, Tick, SetClock
      <3>2. QED BY <2>1, <2>3, <3>1
    <2>4. QED BY <2>2, <2>3
  <1>2. Inv /\ [Next]_vars => [Foreseen]_vars
    <2> HIDE DEF Foreseen
    <2>1. QED BY <1>1
  <1>3. QED BY <1>2, InvHolds, PTL DEF Spec, FailsAsForeseen

-----------------------------------------------------------------------------
(* The timers keep the timetable.                                          *)

\* What the books say of an entry of timers_ or of HandleRead's list.
BooksRead == /\ \A e \in timers : Became(e.timer) = "waiting"
             /\ \A e \in torun : Became(e.timer) = "taken"
             /\ \A e \in timers \cup torun : DueAt(e.timer) = e.when

LEMMA BooksReadRight == Inv => BooksRead
  <1> SUFFICES ASSUME Inv
               PROVE  BooksRead
    OBVIOUS
  <1>1. timers \cup torun \subseteq timers \cup expired
    BY DEF Inv, TypeOK
  <1>2. \A e \in timers \cup torun : e.timer \in added
    BY <1>1 DEF Inv, BookInv, OnlyAdded
  <1>3. \A e \in torun, d \in timers : e.timer # d.timer
    BY DEF Inv, TypeOK, BookInv, OneEntry, Apart
  <1>4. ASSUME NEW e \in timers \cup torun
        PROVE  DueAt(e.timer) = e.when
    <2>1. Pending(e.timer) = {e}
      BY <1>1 DEF Pending, Inv, BookInv, OneEntry
    <2>2. QED BY <2>1 DEF DueAt
  <1>5. QED BY <1>2, <1>3, <1>4 DEF BooksRead, Became

\* Steps that do not touch a timer leave its line of the timetable alone.
LEMMA BecameKept ==
    ASSUME NEW t, t \in added' <=> t \in added,
           Has(timers, t)' <=> Has(timers, t), Has(torun, t)' <=> Has(torun, t)
    PROVE  Became(t)' = Became(t)
  BY DEF Became, Has

LEMMA DueKept ==
    ASSUME NEW t, Pending(t)' = Pending(t)
    PROVE  DueAt(t)' = DueAt(t)
  BY DEF DueAt

LEMMA LinesKept ==
    ASSUME UNCHANGED <<timers, torun, added>>
    PROVE  UNCHANGED <<[t \in Timers |-> Became(t)], [t \in Timers |-> DueAt(t)]>>
  BY DEF Became, DueAt, Pending

LEMMA AddTimerAdds ==
    ASSUME Inv, BooksRead', NEW t \in Timers, NEW w \in 1 .. MaxTime - 1,
           AddTimer(t, w)
    PROVE  TT!Add(t, w)
  <1> DEFINE x == Entry(w, t)
  <1>1. /\ t \notin added /\ added' = added \cup {t} /\ timers' = timers \cup {x}
        /\ UNCHANGED <<wall, torun, now>>
    BY DEF AddTimer, clockVars, readVars
  <1>2. x.timer = t /\ x.when = w
    BY DEF Entry
  <1>3. Became(t) = "none"
    BY <1>1 DEF Became
  <1>4. Became(t)' = "waiting" /\ DueAt(t)' = w
    <2>1. x \in timers'
      BY <1>1
    <2>2. Became(x.timer)' = "waiting" /\ DueAt(x.timer)' = x.when
      BY <2>1 DEF BooksRead
    <2>3. QED BY <1>2, <2>2
  <1>5. ASSUME NEW u \in Timers, u # t
        PROVE  Became(u)' = Became(u) /\ DueAt(u)' = DueAt(u)
    <2>1. Has(timers, u)' <=> Has(timers, u)
      BY <1>1, <1>2, <1>5 DEF Has
    <2>2. Pending(u)' = Pending(u)
      BY <1>1, <1>2, <1>5 DEF Pending
    <2>3. u \in added' <=> u \in added
      BY <1>1, <1>5
    <2>4. Has(torun, u)' <=> Has(torun, u)
      BY <1>1 DEF Has
    <2>5. QED BY <2>1, <2>2, <2>3, <2>4, BecameKept, DueKept
  <1>6. [u \in Timers |-> Became(u)]' =
            [[u \in Timers |-> Became(u)] EXCEPT ![t] = "waiting"]
    BY <1>4, <1>5
  <1>7. [u \in Timers |-> DueAt(u)]' = [[u \in Timers |-> DueAt(u)] EXCEPT ![t] = w]
    BY <1>4, <1>5
  <1>8. QED BY <1>1, <1>3, <1>6, <1>7 DEF TT!Add

\* Whom the sentry of GetExpired parts from whom.
LEMMA SentryParts ==
    ASSUME TypeOK, timers # {}, NEW e \in timers
    PROVE  /\ e \in Expired => e.when <= wall
           /\ e \notin Expired => e.when >= wall
  <1>1. e.when \in Nat /\ wall \in Nat
    BY DEF TypeOK, Entries
  <1>2. QED BY <1>1 DEF Expired, Sentry, Before, Entry

\* HandleRead that finds no timer looks in vain.
LEMMA HandleReadFindsNone ==
    ASSUME Inv, HandleRead, timers = {}
    PROVE  TT!Look
  <1>1. /\ phase = "listed" /\ now' = wall
        /\ UNCHANGED <<wall, timers, torun, added>>
    BY DEF HandleRead, clockVars
  <1>2. expired = {} /\ torun = {}
    BY <1>1 DEF Inv, TypeOK, BookInv, IdleEmpty
  <1>3. \A t \in Timers : Became(t) \notin {"waiting", "taken", "back"}
    BY <1>2 DEF Became, Inv, BookInv, ComesBack, Has
  <1>4. \A s \in {"waiting", "taken", "back"} : TT!Those(s) = {}
    BY <1>3 DEF TT!Those
  <1>5. [t \in Timers |-> Became(t)]' =
            [t \in Timers |-> IF t \in {} THEN "taken"
                                          ELSE [u \in Timers |-> Became(u)][t]]
    BY <1>1, LinesKept
  <1>6. UNCHANGED [t \in Timers |-> DueAt(t)]
    BY <1>1, LinesKept
  <1>7. {} \in SUBSET TT!Those("waiting")
    OBVIOUS
  <1>8. QED BY <1>1, <1>4, <1>5, <1>6, <1>7 DEF TT!Look

LEMMA HandleReadLooks ==
    ASSUME Inv, Inv', BooksRead, BooksRead', HandleRead, timers # {}
    PROVE  TT!Look
  <1>1. timers # {}
    OBVIOUS
  <1>2. /\ phase = "listed" /\ now' = wall /\ UNCHANGED <<wall, added>>
        /\ torun' = Expired /\ timers' = timers \ Expired
        /\ Expired \subseteq timers
    BY <1>1 DEF HandleRead, clockVars, Expired
  <1>3. expired = {} /\ torun = {}
    BY <1>2 DEF Inv, TypeOK, BookInv, IdleEmpty
  <1>4. \A t \in Timers : Became(t) # "taken" /\ Became(t) # "back"
    BY <1>3 DEF Became, Inv, BookInv, ComesBack, Has
  <1> DEFINE S == {e.timer : e \in Expired}
  <1>5. S \in SUBSET TT!Those("waiting")
    BY <1>2 DEF TT!Those, BooksRead, Inv, TypeOK, Entries
  <1>6. ASSUME NEW t \in S
        PROVE  DueAt(t) <= wall /\ Became(t)' = "taken"
    <2>1. PICK e \in Expired : e.timer = t
      OBVIOUS
    <2>2. DueAt(t) <= wall
      BY <1>1, <1>2, <2>1, SentryParts DEF BooksRead, Inv
    <2>3. Became(t)' = "taken"
      BY <1>2, <2>1 DEF BooksRead
    <2>4. QED BY <2>2, <2>3
  <1>7. ASSUME NEW t \in Timers, t \notin S
        PROVE  Became(t)' = Became(t) /\ (Became(t) = "waiting" => DueAt(t) >= wall)
    <2>1. \A e \in timers : e.timer = t => e \notin Expired
      BY <1>7
    <2>2. Became(t)' = Became(t)
      <3>1. Has(timers, t)' <=> Has(timers, t)
        BY <1>2, <2>1 DEF Has
      <3>2. Has(torun, t)' <=> Has(torun, t)
        BY <1>2, <1>3, <1>7 DEF Has
      <3>3. QED BY <1>2, <3>1, <3>2, BecameKept
    <2>3. ASSUME Became(t) = "waiting"
          PROVE  DueAt(t) >= wall
      <3>1. PICK e \in timers : e.timer = t
        BY <2>3 DEF Became
      <3>2. QED BY <1>1, <2>1, <3>1, SentryParts DEF BooksRead, Inv
    <2>4. QED BY <2>2, <2>3
  <1>8. [t \in Timers |-> Became(t)]' =
            [t \in Timers |-> IF t \in S THEN "taken" ELSE Became(t)]
    BY <1>6, <1>7
  <1>9. [t \in Timers |-> DueAt(t)]' = [t \in Timers |-> DueAt(t)]
    <2>1. \A t \in Timers : Pending(t)' = Pending(t)
      BY <1>2, <1>3 DEF Pending
    <2>2. QED BY <2>1, DueKept
  <1>10. TT!Those("taken") = {} /\ TT!Those("back") = {}
    BY <1>4 DEF TT!Those
  <1>11. (\A t \in S : [u \in Timers |-> DueAt(u)][t] <= wall)
    BY <1>5, <1>6 DEF TT!Those
  <1>12. \A t \in TT!Those("waiting") \ S : [u \in Timers |-> DueAt(u)][t] >= wall
    BY <1>7 DEF TT!Those
  <1>13. [t \in Timers |-> Became(t)]' =
            [t \in Timers |-> IF t \in S THEN "taken"
                                         ELSE [u \in Timers |-> Became(u)][t]]
    BY <1>8
  <1> HIDE DEF S
  <1>14. QED BY <1>2, <1>5, <1>9, <1>10, <1>11, <1>12, <1>13 DEF TT!Look

LEMMA RunTimerRuns ==
    ASSUME Inv, BooksRead, BooksRead', RunTimer
    PROVE  \E t \in Timers : TT!Run(t)
  <1>1. torun # {} /\ torun \in SUBSET Entries
    BY DEF RunTimer, Inv, TypeOK
  <1>2. PICK x \in torun : /\ torun' = torun \ {x}
                           /\ \A e \in torun : x.when <= e.when
    BY <1>1, FirstIsEarliest DEF RunTimer
  <1>3. UNCHANGED <<wall, timers, added, now>>
    BY DEF RunTimer, clockVars
  <1>4. PICK t \in Timers : t = x.timer /\ t \in added
    BY <1>1, <1>2 DEF Entries, Inv, TypeOK, BookInv, OnlyAdded
  <1>5. Became(t) = "taken"
    BY <1>2, <1>4 DEF BooksRead
  <1>6. ~Has(timers, t) /\ ~Has(torun \ {x}, t)
    BY <1>2, <1>4 DEF Has, Inv, TypeOK, BookInv, OneEntry, Apart
  <1>7. Became(t)' = IF t \in Repeating THEN "back" ELSE "over"
    BY <1>2, <1>3, <1>4, <1>6 DEF Became, Has
  <1>8. DueAt(t)' = 0
    <2>1. Pending(t)' = {}
      BY <1>2, <1>3, <1>6 DEF Pending, Has
    <2>2. QED BY <2>1 DEF DueAt
  <1>9. ASSUME NEW u \in Timers, u # t
        PROVE  Became(u)' = Became(u) /\ DueAt(u)' = DueAt(u)
    <2>1. Has(torun, u)' <=> Has(torun, u)
      BY <1>2, <1>4, <1>9 DEF Has
    <2>2. Has(timers, u)' <=> Has(timers, u)
      BY <1>3 DEF Has
    <2>3. Pending(u)' = Pending(u)
      BY <1>2, <1>3, <1>4, <1>9 DEF Pending
    <2>4. QED BY <1>3, <2>1, <2>2, <2>3, BecameKept, DueKept
  <1>10. ASSUME NEW u \in TT!Those("taken")
         PROVE  DueAt(t) <= DueAt(u) /\ u \in Timers
    <2>1. u \in Timers /\ Became(u) = "taken"
      BY DEF TT!Those
    <2>2. PICK e \in torun : e.timer = u
      BY <2>1 DEF Became
    <2>3. QED BY <1>2, <1>4, <2>1, <2>2 DEF BooksRead
  <1>11. [u \in Timers |-> Became(u)]' =
            [[u \in Timers |-> Became(u)] EXCEPT
                 ![t] = IF t \in Repeating THEN "back" ELSE "over"]
    BY <1>7, <1>9
  <1>12. [u \in Timers |-> DueAt(u)]' = [[u \in Timers |-> DueAt(u)] EXCEPT ![t] = 0]
    BY <1>8, <1>9
  <1>13. \A u \in TT!Those("taken") :
             [v \in Timers |-> DueAt(v)][t] <= [v \in Timers |-> DueAt(v)][u]
    BY <1>4, <1>10
  <1>14. TT!Run(t)
    BY <1>3, <1>4, <1>5, <1>11, <1>12, <1>13 DEF TT!Run
  <1>15. QED BY <1>4, <1>14

LEMMA ResetReturns ==
    ASSUME Inv, BooksRead, BooksRead', Reset
    PROVE  TT!Return
  <1>1. /\ torun = {} /\ torun' = {} /\ timers' = timers \cup Restarted
        /\ UNCHANGED <<wall, added, now>>
    BY DEF Reset, clockVars
  <1>2. ASSUME NEW e \in Restarted
        PROVE  /\ e.when = now + Interval /\ e.timer \in Repeating
               /\ e.timer \in added /\ ~Has(timers, e.timer)
    <2>1. PICK d \in expired : d.timer \in Repeating /\ e = Entry(now + Interval, d.timer)
      BY DEF Restarted
    <2>2. e.when = now + Interval /\ e.timer = d.timer
      BY <2>1 DEF Entry
    <2>3. d.timer \in added
      BY DEF Inv, BookInv, OnlyAdded
    <2>4. ~Has(timers, d.timer)
      BY DEF Has, Inv, BookInv, OneEntry, Apart
    <2>5. QED BY <2>1, <2>2, <2>3, <2>4
  <1>3. ASSUME NEW t \in Timers, Became(t) = "back"
        PROVE  Became(t)' = "waiting" /\ DueAt(t)' = now + Interval
    <2>1. t \in added /\ t \in Repeating /\ ~Has(timers, t)
      BY <1>3 DEF Became, Has
    <2>2. PICK d \in expired : d.timer = t
      BY <2>1 DEF Has, Inv, BookInv, ComesBack
    <2>3. Entry(now + Interval, t) \in Restarted
      BY <2>1, <2>2 DEF Restarted
    <2>4. Entry(now + Interval, t) \in timers'
      BY <1>1, <2>3
    <2>5. Entry(now + Interval, t).timer = t /\ Entry(now + Interval, t).when = now + Interval
      BY DEF Entry
    <2>6. QED BY <2>4, <2>5 DEF BooksRead
  <1>4. ASSUME NEW t \in Timers, Became(t) # "back"
        PROVE  Became(t)' = Became(t) /\ DueAt(t)' = DueAt(t)
    <2>1. ASSUME NEW e \in Restarted
          PROVE  e.timer # t
      BY <1>1, <1>2, <1>4 DEF Became, Has
    <2>2. Has(timers, t)' <=> Has(timers, t)
      BY <1>1, <2>1 DEF Has
    <2>3. Has(torun, t)' <=> Has(torun, t)
      BY <1>1 DEF Has
    <2>4. Pending(t)' = Pending(t)
      BY <1>1, <2>1 DEF Pending
    <2>5. QED BY <1>1, <2>2, <2>3, <2>4, BecameKept, DueKept
  <1>5. [t \in Timers |-> Became(t)]' =
            [t \in Timers |-> IF [u \in Timers |-> Became(u)][t] = "back" THEN "waiting"
                              ELSE [u \in Timers |-> Became(u)][t]]
    BY <1>3, <1>4
  <1>6. [t \in Timers |-> DueAt(t)]' =
            [t \in Timers |-> IF [u \in Timers |-> Became(u)][t] = "back"
                              THEN now + Interval
                              ELSE [u \in Timers |-> DueAt(u)][t]]
    BY <1>3, <1>4
  <1>7. TT!Those("taken") = {}
    BY <1>1 DEF TT!Those, Became
  <1>8. QED BY <1>1, <1>5, <1>6, <1>7 DEF TT!Return

LEMMA StepKeepsTimetable ==
    ASSUME Inv, Inv', BooksRead, BooksRead', [Next]_vars
    PROVE  [TT!Next]_TT!vars
  <1>1. ASSUME NEW t \in Timers, NEW w \in 1 .. MaxTime - 1, AddTimer(t, w)
        PROVE  TT!Next
    BY <1>1, AddTimerAdds DEF TT!Next
  <1>2. CASE HandleRead
    BY <1>2, HandleReadLooks, HandleReadFindsNone DEF TT!Next
  <1>3. CASE RunTimer
    BY <1>3, RunTimerRuns DEF TT!Next
  <1>4. CASE Reset
    BY <1>4, ResetReturns DEF TT!Next
  <1>5. CASE Tick \/ SetClock
    <2>1. UNCHANGED <<timers, torun, added, now>> /\ wall' \in Nat
      BY <1>5 DEF Tick, SetClock, readVars, Inv, TypeOK
    <2>2. QED BY <2>1, LinesKept DEF TT!Next, TT!Clock
  <1>6. CASE Poll \/ UNCHANGED vars
    <2>1. UNCHANGED <<timers, torun, added, now, wall>>
      BY <1>6 DEF Poll, vars, clockVars, readVars
    <2>2. QED BY <2>1, LinesKept DEF TT!vars
  <1>7. QED BY <1>1, <1>2, <1>3, <1>4, <1>5, <1>6 DEF Next, LoopStep

LEMMA InitIsTimetable ==
    ASSUME Init
    PROVE  TT!Init
  <1>1. \A t \in Timers : Became(t) = "none" /\ DueAt(t) = 0
    BY DEF Init, Became, DueAt, Pending
  <1>2. QED BY <1>1 DEF Init, TT!Init

\* TimerQueue keeps the timetable, for any timers and any interval, whatever is
\* added while callbacks run and whenever the wall clock is set: GetExpired takes
\* all that is overdue and nothing that is not due, each is run once and in the
\* order of time, and Reset brings the repeating ones back an interval later.
THEOREM TimerRefinement == Spec => ImplementsTimetable
  <1>1. Init => TT!Init
    BY InitIsTimetable
  <1>2. Inv /\ Inv' /\ BooksRead /\ BooksRead' /\ [Next]_vars => [TT!Next]_TT!vars
    BY StepKeepsTimetable
  <1>3. QED BY <1>1, <1>2, InvHolds, BooksReadRight, PTL
            DEF Spec, ImplementsTimetable, TT!Spec
==============================================================================
