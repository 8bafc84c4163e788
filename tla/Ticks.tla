------------------------------- MODULE Ticks -------------------------------
(***************************************************************************)
(* The ticks an application reports and the controller collects.           *)
(*                                                                         *)
(* The application (setTickStartTime, addTick, autosleep) and the          *)
(* controller (App::readTicks, which calls AppData::getCurrTicks) work on  *)
(* the same app_data in shared memory.  No call takes a lock: App::lock    *)
(* posts the semaphore, and the client has no counterpart.  A step is one  *)
(* access to a field that the other side accesses too; a call makes its    *)
(* accesses in any order its own data dependencies allow, since neither    *)
(* the compiler nor the hardware is told otherwise.                        *)
(***************************************************************************)
EXTENDS Semaphore, Sequences, FiniteSets, Functions

CONSTANTS
  App, Controller, \* the two processes, as the semaphore knows them
  TicksSWMaxSize,  \* ticksSWMaxSize, the most periods the App remembers
  RefPeriod,       \* 1 / ref_thr of autosleep
  TickCounts,      \* the values of n_ticks
  SemMax,          \* SEMVMX, the largest value of a semaphore
  MaxTime,         \* bound: the last instant of the clock
  MaxTicks         \* bound: how many ticks are ever added

ASSUME TicksAssumption ==
  /\ App # Controller
  /\ TicksSWMaxSize \in Nat \ {0}
  /\ RefPeriod \in Nat
  /\ TickCounts \subseteq Nat \ {0}
  /\ SemMax \in Nat \ {0}
  /\ MaxTime \in Nat
  /\ MaxTicks \in Nat

VARIABLES
  clock,     \* gettimeofday
  total,     \* app_data::from_start
  curr,      \* app_data::curr_period
  app,       \* the application's call in progress, and its locals
  ctl,       \* the controller's getCurrTicks in progress, and its copy
  window,    \* App::ticksSlidingWindow
  dataSem,   \* the semaphore of the app_data
  added,     \* history: how many ticks addTick was called with
  reported,  \* history: how many of them in the last call
  taken,     \* history: how many of them at each instant
  raced      \* history: client calls that have overlapped a getCurrTicks

vars == <<clock, total, curr, app, ctl, window, dataSem,
          added, reported, taken, raced>>

history == <<added, reported, taken>>

Time == 0 .. MaxTime

TicksRecord == [value : Nat, start : Time, end : Time]

NoTicks(t) == [value |-> 0, start |-> t, end |-> t]

Fields == {"value", "start", "end"}

(* No call in progress.                                                    *)
AppIdle == [call |-> "none", todo |-> {}, now |-> 0, n |-> 0, v |-> 0]

CtlIdle == [busy |-> FALSE, load |-> {}, store |-> {}, copy |-> NoTicks(0)]

(* registerAttach has returned at instant 0; shmget zeroes the values.     *)
Init ==
  /\ clock = 0
  /\ total = NoTicks(0)
  /\ curr = NoTicks(0)
  /\ app = AppIdle
  /\ ctl = CtlIdle
  /\ window = <<>>
  /\ dataSem = SetToOne(Created({App, Controller}))
  /\ added = 0
  /\ reported = 0
  /\ taken = [t \in Time |-> 0]
  /\ raced = {}

(* The clock goes on (external).  gettimeofday is wall-clock time, which   *)
(* an administrator may set back: here nobody does.                        *)
Tick ==
  /\ clock < MaxTime
  /\ clock' = clock + 1
  /\ UNCHANGED <<total, curr, app, ctl, window, dataSem, history, raced>>

-----------------------------------------------------------------------------
(* The application.                                                        *)

(* A call begins by reading the clock.                                     *)
AppCalls(call, todo, n) ==
  /\ app.call = "none"
  /\ app' = [call |-> call, todo |-> todo, now |-> clock, n |-> n, v |-> 0]
  /\ raced' = raced \cup IF ctl.busy THEN {call} ELSE {}
  /\ UNCHANGED <<clock, total, curr, ctl, window, dataSem>>

(* Access a of the call is made; the call returns with its last access.    *)
AppAccess(a) ==
  /\ a \in app.todo
  /\ app' = IF app.todo = {a} THEN AppIdle ELSE [app EXCEPT !.todo = @ \ {a}]
  /\ UNCHANGED <<clock, ctl, window, dataSem, history, raced>>

(* Mutant: the end of the current period is left as it was.                *)
setTickStartTimeKeepEnd ==
  /\ added = 0
  /\ AppCalls("setTickStartTime", {"total", "start"}, 0)
  /\ UNCHANGED history

(* setTickStartTime, called before the first tick as its comment ("Set app *)
(* start time") has it: both timestamps of both records become now.        *)
setTickStartTime ==
  /\ added = 0
  /\ AppCalls("setTickStartTime", {"total", "start", "end"}, 0)
  /\ UNCHANGED history

StoreTotal ==
  /\ app.call = "setTickStartTime"
  /\ AppAccess("total")
  /\ total' = [total EXCEPT !.start = app.now, !.end = app.now]
  /\ UNCHANGED curr

(* curr_period.start or .end = now, of setTickStartTime or of addTick.     *)
StoreTime(f) ==
  /\ AppAccess(f)
  /\ curr' = [curr EXCEPT ![f] = app.now]
  /\ UNCHANGED total

(* addTick(n): "value += n" is a load and a store, "end = now" a store.    *)
addTick(n) ==
  /\ added + n <= MaxTicks
  /\ AppCalls("addTick", {"load", "value", "end"}, n)
  /\ added' = added + n
  /\ reported' = n
  /\ taken' = [taken EXCEPT ![clock] = @ + n]

LoadValue ==
  /\ "load" \in app.todo
  /\ app' = [app EXCEPT !.todo = @ \ {"load"}, !.v = curr.value]
  /\ UNCHANGED <<clock, total, curr, ctl, window, dataSem, history, raced>>

(* Mutant: "value = n", the ticks of the period so far are overwritten.    *)
StoreValueOnly ==
  /\ "load" \notin app.todo
  /\ AppAccess("value")
  /\ curr' = [curr EXCEPT !.value = app.n]
  /\ UNCHANGED total

StoreValue ==
  /\ "load" \notin app.todo
  /\ AppAccess("value")
  /\ curr' = [curr EXCEPT !.value = app.v + app.n]
  /\ UNCHANGED total

(* Mutant: the time slept for counts from the end of the total.            *)
autosleepTotal ==
  /\ app.call = "none"
  /\ app' = [AppIdle EXCEPT !.call = "autosleep", !.now = total.end + RefPeriod]
  /\ UNCHANGED <<clock, total, curr, ctl, window, dataSem, history, raced>>

(* autosleep: sleep until RefPeriod after the end of the current period,   *)
(* or return at once when that has passed.                                 *)
autosleep ==
  /\ app.call = "none"
  /\ app' = [AppIdle EXCEPT !.call = "autosleep", !.now = curr.end + RefPeriod]
  /\ UNCHANGED <<clock, total, curr, ctl, window, dataSem, history, raced>>

Wake ==
  /\ app.call = "autosleep"
  /\ clock >= app.now
  /\ app' = AppIdle
  /\ UNCHANGED <<clock, total, curr, ctl, window, dataSem, history, raced>>

-----------------------------------------------------------------------------
(* The controller.                                                         *)

(* App::readTicks begins: getCurrTicks copies curr_period, adds the copy   *)
(* to from_start and starts a new period where the copy ends.              *)
ReadTicks ==
  /\ ~ctl.busy
  /\ ctl' = [CtlIdle EXCEPT !.busy = TRUE, !.load = Fields, !.store = Fields \cup {"total"}]
  /\ raced' = raced \cup IF app.call \in {"addTick", "setTickStartTime"} THEN {app.call} ELSE {}
  /\ UNCHANGED <<clock, total, curr, app, window, dataSem, history>>

CopyField(f) ==
  /\ f \in ctl.load
  /\ ctl' = [ctl EXCEPT !.load = @ \ {f}, !.copy[f] = curr[f]]
  /\ UNCHANGED <<clock, total, curr, app, window, dataSem, history, raced>>

(* A store follows the loads it depends on.                                *)
CtlStores(a, loads) ==
  /\ a \in ctl.store
  /\ ctl.load \cap loads = {}
  /\ ctl' = [ctl EXCEPT !.store = @ \ {a}]
  /\ UNCHANGED <<clock, app, window, dataSem, history, raced>>

Accumulate ==
  /\ CtlStores("total", {"value", "end"})
  /\ total' = [total EXCEPT !.value = @ + ctl.copy.value, !.end = ctl.copy.end]
  /\ UNCHANGED curr

(* Mutant: the value is not reset.                                         *)
ResetValueMissing ==
  /\ CtlStores("value", {"value"})
  /\ UNCHANGED <<curr, total>>

ResetValue ==
  /\ CtlStores("value", {"value"})
  /\ curr' = [curr EXCEPT !.value = 0]
  /\ UNCHANGED total

ResetTime(f) ==
  /\ CtlStores(f, {f, "end"})
  /\ curr' = [curr EXCEPT ![f] = ctl.copy.end]
  /\ UNCHANGED total

(* Mutant: the oldest period is not dropped.                               *)
PushedAll(ticks) == Append(window, ticks)

(* The oldest period makes room for the new one.                           *)
Pushed(ticks) ==
  Append(IF Len(window) = TicksSWMaxSize THEN Tail(window) ELSE window, ticks)

ReadTicksReturns ==
  /\ ctl.busy
  /\ ctl.load = {} /\ ctl.store = {}
  /\ window' = Pushed(ctl.copy)
  /\ ctl' = CtlIdle
  /\ UNCHANGED <<clock, total, curr, app, dataSem, history, raced>>

(* App::lock and App::unlock both post; semop refuses a post beyond        *)
(* SEMVMX, which nobody looks at.                                          *)
PostData ==
  dataSem' = IF dataSem.val < SemMax THEN Given(dataSem, Controller) ELSE dataSem

LockCall ==
  /\ ~ctl.busy
  /\ PostData
  /\ UNCHANGED <<clock, total, curr, app, ctl, window, history, raced>>

lock == LockCall

unlock == LockCall

-----------------------------------------------------------------------------
Next ==
  \/ Tick
  \/ setTickStartTime \/ StoreTotal
  \/ \E n \in TickCounts : addTick(n)
  \/ LoadValue \/ StoreValue
  \/ \E f \in {"start", "end"} : StoreTime(f)
  \/ autosleep \/ Wake
  \/ ReadTicks
  \/ \E f \in Fields : CopyField(f)
  \/ Accumulate \/ ResetValue
  \/ \E f \in {"start", "end"} : ResetTime(f)
  \/ ReadTicksReturns
  \/ lock \/ unlock

Spec == Init /\ [][Next]_vars

-----------------------------------------------------------------------------
(* What the controller computes from the window.                           *)

(* Mutant: the start of the second period of the window is taken.          *)
getWindowTicksLate(sampleWindow) ==
  LET size == Len(window)
      n == IF sampleWindow < size THEN sampleWindow ELSE size
      last == size - n + 1 .. size
  IN  {[value |-> SumFunctionOnSet([i \in last |-> window[i].value], last),
        start |-> window[IF n > 1 THEN size - n + 2 ELSE size - n + 1].start,
        end |-> window[size].end]}

(* Elements read from an empty deque; -1 stands for what is no timestamp.  *)
NotThere == {[value |-> 0, start |-> s, end |-> e] : s, e \in Time \cup {-1}}

(* The results getWindowTicks(sampleWindow) can have, for a window size    *)
(* that it does not reject.                                                *)
getWindowTicks(sampleWindow) ==
  LET size == Len(window)
      n == IF sampleWindow < size THEN sampleWindow ELSE size
      last == size - n + 1 .. size
  IN  IF size = 0
        THEN NotThere
        ELSE {[value |-> SumFunctionOnSet([i \in last |-> window[i].value], last),
               start |-> window[size - n + 1].start,
               end |-> window[size].end]}

(* Mutant: the times are subtracted the other way round.                   *)
getWindowThroughputSwapped(ticks) ==
  IF ticks.end = ticks.start
    THEN [ticks |-> 0, time |-> 1]
    ELSE [ticks |-> ticks.value, time |-> ticks.start - ticks.end]

(* getWindowThroughput: ticks and the time they are divided by.            *)
getWindowThroughput(ticks) ==
  IF ticks.end = ticks.start
    THEN [ticks |-> 0, time |-> 1]
    ELSE [ticks |-> ticks.value, time |-> ticks.end - ticks.start]

-----------------------------------------------------------------------------
(* Properties.                                                             *)

Calls ==
  [call : {"none", "addTick", "setTickStartTime", "autosleep"},
   todo : SUBSET {"load", "value", "start", "end", "total"},
   now : Nat, n : Nat, v : Nat]

Reads ==
  [busy : BOOLEAN, load : SUBSET Fields, store : SUBSET (Fields \cup {"total"}),
   copy : TicksRecord]

(* Every variable has its type, and the window never outgrows the size the *)
(* App was given.                                                          *)
TypeOK ==
  /\ clock \in Time
  /\ total \in TicksRecord
  /\ curr \in TicksRecord
  /\ app \in Calls
  /\ app.call \in {"addTick", "setTickStartTime"} => app.now \in Time
  /\ ctl \in Reads
  /\ window \in Seq(TicksRecord) /\ Len(window) <= TicksSWMaxSize
  /\ dataSem \in Semaphores({App, Controller})
  /\ added \in Nat /\ reported \in 0 .. added
  /\ taken \in [Time -> Nat]
  /\ raced \in SUBSET {"addTick", "setTickStartTime"}

Quiet == app.call # "addTick" /\ ~ctl.busy

(* The ticks since the start and those of the current period, which        *)
(* getCurrTicks moves from one record to the other, are together what the  *)
(* application added, whatever calls overlap.                              *)
TicksConserved == Quiet => total.value + curr.value = added

(* No tick is lost or counted twice by addTick and getCurrTicks, as long   *)
(* as no addTick has overlapped a getCurrTicks.                            *)
ConservedUnlessRaced == "addTick" \notin raced => TicksConserved

(* The periods the App remembers run forward and do not overlap, even when *)
(* addTick races with getCurrTicks: a period never ends before it starts,  *)
(* and a later one starts no earlier than it ends.   setTickStartTime      *)
(* racing with getCurrTicks is the only exception.                         *)
PeriodsOrdered ==
  "setTickStartTime" \notin raced =>
    /\ ~ctl.busy /\ app.call # "setTickStartTime" => curr.start <= curr.end
    /\ \A i \in 1 .. Len(window) : window[i].start <= window[i].end
    /\ \A i, j \in 1 .. Len(window) : i < j => window[i].end <= window[j].start

(* A window reports the ticks that were taken in it: all those between its *)
(* timestamps and none outside, unless an addTick overlapped.              *)
Covers(ticks) ==
  LET within == {t \in Time : ticks.start <= t /\ t <= ticks.end}
  IN  /\ SumFunctionOnSet(taken, within \ {ticks.start, ticks.end}) <= ticks.value
      /\ ticks.value <= SumFunctionOnSet(taken, within)

WindowCovers ==
  ~ctl.busy /\ window # <<>> /\ raced = {} =>
    \A w \in 1 .. TicksSWMaxSize : \A ticks \in getWindowTicks(w) : Covers(ticks)

LastTick == CHOOSE t \in Time : taken[t] > 0 /\ \A s \in t + 1 .. MaxTime : taken[s] = 0

(* An application that reports its ticks one by one sleeps until RefPeriod *)
(* after the last tick: autosleep returns no earlier when the last addTick *)
(* was one of a single tick, unless a getCurrTicks that overlapped it wrote*)
(* an older end of the period.                                             *)
SleepPaced ==
  [][Wake /\ reported = 1 /\ raced = {} => clock >= LastTick + RefPeriod]_vars

(* "Sleep as to not overshoot the reference throughput" (AppRegister.h of  *)
(* the client): autosleep returns no earlier than the ticks of the last    *)
(* addTick allow, each of which takes RefPeriod.                           *)
NoOvershoot ==
  [][Wake /\ reported > 0 /\ raced = {} => clock >= LastTick + reported * RefPeriod]_vars

(* The throughput of a window is not negative: getWindowThroughput divides *)
(* by a time that is positive, whatever addTick races with, unless         *)
(* setTickStartTime has overlapped a getCurrTicks.                         *)
ThroughputNotNegative ==
  "setTickStartTime" \notin raced /\ window # <<>> =>
    \A w \in 1 .. TicksSWMaxSize :
      \A ticks \in getWindowTicks(w) : getWindowThroughput(ticks).time > 0

-----------------------------------------------------------------------------
(* Why ConservedUnlessRaced and PeriodsOrdered hold.                       *)

(* What the calls in progress have still to do, and that the history knows *)
(* of the calls that overlap now.                                          *)
CallsInv ==
  /\ app.call \in {"none", "autosleep"} => app.todo = {}
  /\ app.call = "addTick" =>
       app.todo \subseteq {"load", "value", "end"} /\ app.todo # {}
  /\ app.call = "setTickStartTime" =>
       app.todo \subseteq {"total", "start", "end"} /\ app.todo # {}
  /\ "load" \in app.todo => "value" \in app.todo
  /\ ~ctl.busy => ctl.load = {} /\ ctl.store = {}
  /\ ctl.busy /\ app.call \in {"addTick", "setTickStartTime"} => app.call \in raced
  /\ "value" \in ctl.load => {"value", "total"} \subseteq ctl.store
  /\ "start" \in ctl.load => "start" \in ctl.store
  /\ "end" \in ctl.load => {"start", "end", "total"} \subseteq ctl.store

(* Where the ticks are while one call works on them.                       *)
Pending == IF app.call = "addTick" /\ "value" \in app.todo THEN app.n ELSE 0

Accounting ==
  "addTick" \notin raced =>
    /\ "value" \in app.todo /\ "load" \notin app.todo => app.v = curr.value
    /\ IF ctl.busy /\ "value" \notin ctl.load
         THEN /\ curr.value = IF "value" \in ctl.store THEN ctl.copy.value ELSE 0
              /\ total.value + (IF "total" \in ctl.store THEN ctl.copy.value ELSE 0) = added
         ELSE total.value + curr.value + Pending = added

(* No timestamp lies in the future, nor after the start of the             *)
(* application's call in progress.                                         *)
NoneAfter(t) ==
  /\ curr.start <= t /\ curr.end <= t
  /\ ctl.copy.start <= t /\ ctl.copy.end <= t
  /\ \A i \in 1 .. Len(window) : window[i].end <= t

TimesInv ==
  /\ NoneAfter(clock)
  /\ app.call \in {"addTick", "setTickStartTime"} => NoneAfter(app.now) /\ app.now <= clock

(* How the timestamps of the current period, of the controller's copy and  *)
(* of the periods of the window relate in the course of the calls.         *)
CurrInv ==
  /\ app.call = "setTickStartTime" =>
       /\ "start" \notin app.todo => curr.start = app.now
       /\ "end" \notin app.todo => curr.end = app.now
  /\ app.call # "setTickStartTime" => curr.start <= curr.end

CopyInv ==
  ctl.busy =>
    /\ "end" \notin ctl.load => curr.start <= ctl.copy.end /\ ctl.copy.end <= curr.end
    /\ "start" \notin ctl.load =>
         ctl.copy.start <= IF "end" \in ctl.load THEN curr.end ELSE ctl.copy.end
    /\ "start" \notin ctl.store => curr.start = ctl.copy.end

WindowBehind ==
  \A i \in 1 .. Len(window) :
    /\ ~ctl.busy /\ app.call # "setTickStartTime" => window[i].end <= curr.start
    /\ "start" \in ctl.store => window[i].end <= curr.start
    /\ ctl.busy /\ "start" \notin ctl.load => window[i].end <= ctl.copy.start

WindowInv ==
  /\ \A i \in 1 .. Len(window) : window[i].start <= window[i].end
  /\ \A i, j \in 1 .. Len(window) : i < j => window[i].end <= window[j].start

PeriodsInv ==
  "setTickStartTime" \notin raced => CurrInv /\ CopyInv /\ WindowBehind /\ WindowInv

-----------------------------------------------------------------------------
(* Why WindowCovers and SleepPaced hold.                                   *)

(* v is the number of ticks since s, but for some of those taken at s.     *)
TicksSince(s, v) ==
  /\ SumFunctionOnSet(taken, {t \in Time : t > s}) <= v
  /\ v <= SumFunctionOnSet(taken, {t \in Time : t >= s})

(* When the current period began and how many ticks it has, which may be   *)
(* in the controller's copy or not be stored yet.                          *)
PeriodStart == IF ctl.busy /\ "start" \notin ctl.load THEN ctl.copy.start ELSE curr.start

PeriodTicks ==
  IF ctl.busy /\ "value" \notin ctl.load THEN ctl.copy.value ELSE curr.value + Pending

(* The ticks of the periods of the window from the i-th on.                *)
WindowTicks(i) ==
  SumFunctionOnSet([k \in i .. Len(window) |-> window[k].value], i .. Len(window))

NoneYet == \A i \in 1 .. Len(window) : window[i].value = 0

EndInv ==
  /\ \A t \in Time :
       taken[t] > 0 =>
         t <= curr.end \/ (app.call = "addTick" /\ "end" \in app.todo /\ t = app.now)
  /\ ctl.busy /\ "end" \notin ctl.load => ctl.copy.end = curr.end
  /\ app.call = "autosleep" => app.now = curr.end + RefPeriod

HistoryInv ==
  /\ added = 0 => PeriodTicks = 0 /\ NoneYet /\ \A t \in Time : taken[t] = 0
  /\ added > 0 => \E t \in Time : taken[t] > 0
  /\ app.call = "setTickStartTime" => added = 0

(* The window ends where the current period begins, unless that has been   *)
(* moved before the first tick.                                            *)
GapInv ==
  window # <<>> =>
    \/ window[Len(window)].end = PeriodStart
    \/ NoneYet /\ \A t \in Time : t < PeriodStart => taken[t] = 0

(* From the start of each period on, nothing is missing and nothing is     *)
(* counted twice, as long as no two calls overlap.                         *)
CoverInv ==
  raced = {} =>
    /\ EndInv /\ HistoryInv /\ GapInv
    /\ TicksSince(PeriodStart, PeriodTicks)
    /\ \A i \in 1 .. Len(window) :
         TicksSince(window[i].start, WindowTicks(i) + PeriodTicks)
=============================================================================
