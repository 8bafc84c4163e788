---------------------------- MODULE Ticks_proofs ----------------------------
(***************************************************************************)
(* Proofs about Ticks, for every size of the window, every period of       *)
(* autosleep, every set of tick counts and every bound of the clock and of *)
(* the ticks.                                                              *)
(***************************************************************************)
EXTENDS Ticks, SumTheorems, TLAPS

-----------------------------------------------------------------------------
(* Types.                                                                  *)

(* What a post of the data semaphore, whose undo may grow without bound,   *)
(* makes of it.                                                            *)
LEMMA GivenType ==
  ASSUME NEW s \in Semaphores({App, Controller})
  PROVE  Given(s, Controller) \in Semaphores({App, Controller})
<1>1. s.val + 1 \in Nat /\ [s.adj EXCEPT ![Controller] = @ - 1] \in [{App, Controller} -> Int]
  BY DEF Semaphores
<1>2. \A v \in Nat : \A a \in [{App, Controller} -> Int] :
        [s EXCEPT !.val = v, !.adj = a] \in Semaphores({App, Controller})
  BY DEF Semaphores
<1> QED
  BY <1>1, <1>2 DEF Given

(* readTicks drops at most one period, the oldest, and appends the new one *)
(* after those it keeps.                                                   *)
LEMMA PushedElements ==
  ASSUME TypeOK, NEW ticks \in TicksRecord
  PROVE  /\ Pushed(ticks) \in Seq(TicksRecord)
         /\ Len(Pushed(ticks)) <= TicksSWMaxSize
         /\ \E d \in {0, 1} :
              /\ d <= Len(window)
              /\ Len(Pushed(ticks)) = Len(window) - d + 1
              /\ Pushed(ticks)[Len(window) - d + 1] = ticks
              /\ \A i \in 1 .. Len(window) - d : Pushed(ticks)[i] = window[i + d]
<1>1. window \in Seq(TicksRecord) /\ Len(window) <= TicksSWMaxSize /\ TicksSWMaxSize \in Nat \ {0}
  BY TicksAssumption DEF TypeOK
<1>2. CASE Len(window) = TicksSWMaxSize
  <2>1. window # <<>>
    BY <1>1, <1>2
  <2>2. /\ Tail(window) \in Seq(TicksRecord)
        /\ Len(Tail(window)) = Len(window) - 1
        /\ \A i \in 1 .. Len(window) - 1 : Tail(window)[i] = window[i + 1]
    BY <1>1, <2>1
  <2>3. Pushed(ticks) = Append(Tail(window), ticks)
    BY <1>2 DEF Pushed
  <2> QED
    BY <1>1, <1>2, <2>1, <2>2, <2>3
<1>3. CASE Len(window) # TicksSWMaxSize
  <2>1. Pushed(ticks) = Append(window, ticks)
    BY <1>3 DEF Pushed
  <2> QED
    BY <1>1, <1>3, <2>1
<1> QED
  BY <1>2, <1>3

(* The initial state has its type.                                         *)
LEMMA TypeInit ==
  Init => TypeOK
<1> SUFFICES ASSUME Init
             PROVE  TypeOK
  OBVIOUS
<1>1. 0 \in Time
  BY TicksAssumption DEF Time
<1>2. dataSem \in Semaphores({App, Controller})
  <2>1. Created({App, Controller}) \in Semaphores({App, Controller})
    BY DEF Created, Semaphores
  <2>2. ASSUME NEW s \in Semaphores({App, Controller})
        PROVE  SetToOne(s) \in Semaphores({App, Controller})
    <3>1. [x \in DOMAIN s.adj |-> 0] \in [{App, Controller} -> Int]
      BY DEF Semaphores
    <3>2. \A a \in [{App, Controller} -> Int] :
            [s EXCEPT !.val = 1, !.adj = a] \in Semaphores({App, Controller})
      BY DEF Semaphores
    <3> QED
      BY <3>1, <3>2 DEF SetToOne
  <2> QED
    BY <2>1, <2>2 DEF Init
<1>3. NoTicks(0) \in TicksRecord
  BY <1>1 DEF NoTicks, TicksRecord
<1>4. AppIdle \in Calls /\ app = AppIdle
  BY DEF Init, AppIdle, Calls
<1>5. CtlIdle \in Reads /\ ctl = CtlIdle
  BY <1>3 DEF Init, CtlIdle, Reads
<1>6. window \in Seq(TicksRecord) /\ Len(window) <= TicksSWMaxSize
  BY TicksAssumption DEF Init
<1> QED
  BY <1>1, <1>2, <1>3, <1>4, <1>5, <1>6 DEF Init, TypeOK, AppIdle

(* Replacing one field of a record keeps its type.                         *)
LEMMA TicksReplaced ==
  ASSUME NEW r \in TicksRecord
  PROVE  /\ \A n \in Nat : [r EXCEPT !.value = n] \in TicksRecord
         /\ \A t \in Time : /\ [r EXCEPT !.start = t] \in TicksRecord
                            /\ [r EXCEPT !.end = t] \in TicksRecord
BY DEF TicksRecord

(* The fields of the copy, one at a time.                                  *)
LEMMA CopyReplaced ==
  ASSUME NEW r \in TicksRecord, NEW q \in TicksRecord, NEW f \in Fields
  PROVE  [r EXCEPT ![f] = q[f]] \in TicksRecord
<1>1. f = "value" \/ f = "start" \/ f = "end"
  BY DEF Fields
<1>2. [r EXCEPT !.value = q.value] \in TicksRecord
  BY DEF TicksRecord
<1>3. [r EXCEPT !.start = q.start] \in TicksRecord
  BY DEF TicksRecord
<1>4. [r EXCEPT !.end = q.end] \in TicksRecord
  BY DEF TicksRecord
<1> QED
  BY <1>1, <1>2, <1>3, <1>4

(* Every access and every call keeps the types.                            *)
LEMMA TypeNext ==
  TypeOK /\ CallsInv /\ [Next]_vars => TypeOK'
<1> SUFFICES ASSUME TypeOK, CallsInv, [Next]_vars
             PROVE  TypeOK'
  OBVIOUS
<1>a. /\ clock \in Nat /\ Time \subseteq Nat /\ 0 \in Time
      /\ app.todo \subseteq {"load", "value", "start", "end", "total"}
      /\ app.call \in {"none", "addTick", "setTickStartTime", "autosleep"}
      /\ app.now \in Nat /\ app.n \in Nat /\ app.v \in Nat
      /\ ctl.load \subseteq Fields /\ ctl.store \subseteq Fields \cup {"total"}
      /\ ctl.copy \in TicksRecord
  BY TicksAssumption DEF TypeOK, Time, Calls, Reads
<1>b. \A r \in TicksRecord : r.value \in Nat /\ r.start \in Time /\ r.end \in Time
  BY DEF TicksRecord
<1>c. AppIdle \in Calls /\ AppIdle.call = "none" /\ NoTicks(0) \in TicksRecord /\ CtlIdle \in Reads
  BY <1>a DEF AppIdle, Calls, NoTicks, TicksRecord, CtlIdle, Reads, NoTicks
<1>d. ASSUME NEW a, AppAccess(a)
      PROVE  app' \in Calls /\ (app'.call \in {"addTick", "setTickStartTime"} => app'.now \in Time)
  <2>1. [app EXCEPT !.todo = @ \ {a}] \in Calls
    BY DEF TypeOK, Calls
  <2> QED
    BY <1>c, <1>d, <2>1 DEF AppAccess, TypeOK, Calls
<1>e. ASSUME NEW a, NEW loads, CtlStores(a, loads)
      PROVE  ctl' \in Reads
  BY <1>e DEF CtlStores, TypeOK, Reads
<1>f. ASSUME NEW call \in {"addTick", "setTickStartTime"},
             NEW todo \in SUBSET {"load", "value", "start", "end", "total"},
             NEW n \in Nat, AppCalls(call, todo, n)
      PROVE  app' \in Calls /\ app'.now \in Time /\ raced' \subseteq {"addTick", "setTickStartTime"}
  BY <1>a, <1>f DEF AppCalls, TypeOK, Calls
<1>1. CASE Tick
  BY <1>1, TicksAssumption DEF Tick, TypeOK, Time, history
<1>2. CASE setTickStartTime
  BY <1>2, <1>f DEF setTickStartTime, AppCalls, TypeOK, history
<1>3. CASE StoreTotal
  <2>1. app.now \in Time
    BY <1>3 DEF StoreTotal, TypeOK
  <2>2. total' \in TicksRecord
    BY <1>3, <2>1, TicksReplaced DEF StoreTotal, TypeOK, TicksRecord
  <2> QED
    BY <1>3, <1>d, <2>2 DEF StoreTotal, AppAccess, TypeOK, history
<1>4. ASSUME NEW n \in TickCounts, addTick(n)
      PROVE  TypeOK'
  <2>1. n \in Nat
    BY TicksAssumption
  <2>2. added' \in Nat /\ taken' \in [Time -> Nat]
    BY <1>4, <2>1 DEF addTick, TypeOK
  <2>3. added' \in Nat /\ reported' \in 0 .. added'
    BY <1>4, <2>1 DEF addTick, TypeOK
  <2> QED
    BY <1>4, <1>f, <2>1, <2>2, <2>3 DEF addTick, AppCalls, TypeOK
<1>5. CASE LoadValue
  <2>1. app' \in Calls /\ app'.now = app.now /\ app'.call = app.call
    BY <1>5, <1>b DEF LoadValue, TypeOK, Calls
  <2> QED
    BY <1>5, <2>1 DEF LoadValue, TypeOK, history
<1>6. CASE StoreValue
  <2>1. curr' \in TicksRecord
    <3>1. app.v + app.n \in Nat
      BY <1>a
    <3> QED
      BY <1>6, <3>1, TicksReplaced DEF StoreValue, TypeOK
  <2> QED
    BY <1>6, <1>d, <2>1 DEF StoreValue, AppAccess, TypeOK, history
<1>7. ASSUME NEW f \in {"start", "end"}, StoreTime(f)
      PROVE  TypeOK'
  <2>1. app.now \in Time
    <3>1. app.todo # {}
      BY <1>7 DEF StoreTime, AppAccess
    <3> QED
      BY <1>a, <3>1 DEF TypeOK, CallsInv
  <2>2. curr' \in TicksRecord
    BY <1>7, <2>1, TicksReplaced DEF StoreTime, TypeOK
  <2> QED
    BY <1>7, <1>d, <2>2 DEF StoreTime, AppAccess, TypeOK, history
<1>9. CASE autosleep
  <2>1. curr.end + RefPeriod \in Nat
    <3>1. curr.end \in Nat
      BY <1>a, <1>b DEF TypeOK
    <3> QED
      BY <3>1, TicksAssumption
  <2>2. app' \in Calls /\ app'.call = "autosleep"
    BY <1>9, <2>1 DEF autosleep, AppIdle, Calls
  <2> QED
    BY <1>9, <2>2 DEF autosleep, TypeOK, history
<1>10. CASE Wake
  BY <1>10, <1>c DEF Wake, TypeOK, history
<1>11. CASE ReadTicks
  <2>1. ctl' \in Reads
    BY <1>11, <1>c DEF ReadTicks, CtlIdle, Reads
  <2> QED
    BY <1>11, <2>1 DEF ReadTicks, TypeOK, history
<1>12. ASSUME NEW f \in Fields, CopyField(f)
       PROVE  TypeOK'
  <2>1. [ctl.copy EXCEPT ![f] = curr[f]] \in TicksRecord
    BY <1>a, CopyReplaced DEF TypeOK
  <2>2. ctl' \in Reads
    BY <1>12, <2>1 DEF CopyField, TypeOK, Reads
  <2> QED
    BY <1>12, <2>2 DEF CopyField, TypeOK, history
<1>13. CASE Accumulate
  <2>1. total' \in TicksRecord
    <3>1. total.value + ctl.copy.value \in Nat /\ ctl.copy.end \in Time
      BY <1>a, <1>b DEF TypeOK
    <3> QED
      BY <1>13, <3>1 DEF Accumulate, TypeOK, TicksRecord
  <2> QED
    BY <1>13, <1>e, <2>1 DEF Accumulate, CtlStores, TypeOK, history
<1>14. CASE ResetValue
  <2>1. curr' \in TicksRecord
    BY <1>14, TicksReplaced DEF ResetValue, TypeOK
  <2> QED
    BY <1>14, <1>e, <2>1 DEF ResetValue, CtlStores, TypeOK, history
<1>15. ASSUME NEW f \in {"start", "end"}, ResetTime(f)
       PROVE  TypeOK'
  <2>1. curr' \in TicksRecord
    BY <1>15, <1>a, <1>b, TicksReplaced DEF ResetTime, TypeOK
  <2> QED
    BY <1>15, <1>e, <2>1 DEF ResetTime, CtlStores, TypeOK, history
<1>17. CASE ReadTicksReturns
  BY <1>17, <1>a, <1>c, PushedElements DEF ReadTicksReturns, TypeOK, history
<1>18. CASE lock \/ unlock
  <2>1. dataSem' \in Semaphores({App, Controller})
    BY <1>18, GivenType DEF lock, unlock, LockCall, PostData, TypeOK
  <2> QED
    BY <1>18, <2>1 DEF lock, unlock, LockCall, TypeOK, history
<1>19. CASE UNCHANGED vars
  BY <1>19 DEF vars, TypeOK, history
<1> QED
  BY <1>1, <1>2, <1>3, <1>4, <1>5, <1>6, <1>7, <1>9, <1>10, <1>11, <1>12, <1>13,
     <1>14, <1>15, <1>17, <1>18, <1>19 DEF Next

(* What a call has still to do is consistent, and the history knows of     *)
(* every overlap of a client call with a getCurrTicks.                     *)
LEMMA CallsNext ==
  TypeOK /\ CallsInv /\ [Next]_vars => CallsInv'
<1> SUFFICES ASSUME TypeOK, CallsInv, [Next]_vars
             PROVE  CallsInv'
  OBVIOUS
<1>1. CASE Tick
  BY <1>1 DEF Tick, TypeOK, Calls, Reads, Fields, CallsInv
<1>2. CASE setTickStartTime
  BY <1>2 DEF setTickStartTime, AppCalls, TypeOK, Calls, Reads, Fields, CallsInv
<1>3. CASE StoreTotal
  BY <1>3 DEF StoreTotal, AppAccess, AppIdle, TypeOK, Calls, Reads, Fields, CallsInv
<1>4. ASSUME NEW n \in TickCounts, addTick(n)
      PROVE  CallsInv'
  BY <1>4 DEF addTick, AppCalls, TypeOK, Calls, Reads, Fields, CallsInv
<1>5. CASE LoadValue
  BY <1>5 DEF LoadValue, TypeOK, Calls, Reads, Fields, CallsInv
<1>6. CASE StoreValue
  BY <1>6 DEF StoreValue, AppAccess, AppIdle, TypeOK, Calls, Reads, Fields, CallsInv
<1>7. ASSUME NEW f \in {"start", "end"}, StoreTime(f)
      PROVE  CallsInv'
  BY <1>7 DEF StoreTime, AppAccess, AppIdle, TypeOK, Calls, Reads, Fields, CallsInv
<1>8. CASE autosleep
  BY <1>8 DEF autosleep, AppIdle, TypeOK, Calls, Reads, Fields, CallsInv
<1>9. CASE Wake
  BY <1>9 DEF Wake, AppIdle, TypeOK, Calls, Reads, Fields, CallsInv
<1>10. CASE ReadTicks
  BY <1>10 DEF ReadTicks, CtlIdle, Fields, TypeOK, Calls, Reads, Fields, CallsInv
<1>11. ASSUME NEW f \in Fields, CopyField(f)
      PROVE  CallsInv'
  BY <1>11 DEF CopyField, Fields, TypeOK, Calls, Reads, Fields, CallsInv
<1>12. CASE Accumulate
  BY <1>12 DEF Accumulate, CtlStores, TypeOK, Calls, Reads, Fields, CallsInv
<1>13. CASE ResetValue
  BY <1>13 DEF ResetValue, CtlStores, TypeOK, Calls, Reads, Fields, CallsInv
<1>14. ASSUME NEW f \in {"start", "end"}, ResetTime(f)
      PROVE  CallsInv'
  BY <1>14 DEF ResetTime, CtlStores, TypeOK, Calls, Reads, Fields, CallsInv
<1>15. CASE ReadTicksReturns
  BY <1>15 DEF ReadTicksReturns, CtlIdle, TypeOK, Calls, Reads, Fields, CallsInv
<1>16. CASE lock \/ unlock
  BY <1>16 DEF lock, unlock, LockCall, TypeOK, Calls, Reads, Fields, CallsInv
<1>17. CASE UNCHANGED vars
  BY <1>17 DEF vars, TypeOK, Calls, Reads, Fields, CallsInv
<1> QED
  BY <1>1, <1>2, <1>3, <1>4, <1>5, <1>6, <1>7, <1>8, <1>9, <1>10, <1>11, <1>12, <1>13,
     <1>14, <1>15, <1>16, <1>17 DEF Next

(* Every variable always has its type, and the window never outgrows       *)
(* ticksSWMaxSize, however the calls overlap.                              *)
THEOREM TypeCorrect == Spec => []TypeOK
<1>1. Init => TypeOK /\ CallsInv
  BY TypeInit DEF Init, CallsInv, AppIdle, CtlIdle
<1> QED
  BY <1>1, TypeNext, CallsNext, PTL DEF Spec

-----------------------------------------------------------------------------
(* Ticks.                                                                  *)

LEMMA AccountingNext ==
  TypeOK /\ CallsInv /\ Accounting /\ [Next]_vars => Accounting'
<1> SUFFICES ASSUME TypeOK, CallsInv, Accounting, [Next]_vars
             PROVE  Accounting'
  OBVIOUS
<1>1. CASE Tick
  BY <1>1 DEF Tick, TypeOK, Calls, Reads, TicksRecord, CallsInv, Accounting, Pending,
              history
<1>2. CASE setTickStartTime
  BY <1>2 DEF setTickStartTime, AppCalls, TypeOK, Calls, Reads, TicksRecord,
              CallsInv, Accounting, Pending, history
<1>3. CASE StoreTotal
  BY <1>3 DEF StoreTotal, AppAccess, AppIdle, TypeOK, Calls, Reads, TicksRecord,
              CallsInv, Accounting, Pending, history
<1>4. ASSUME NEW n \in TickCounts, addTick(n)
      PROVE  Accounting'
  BY <1>4 DEF addTick, AppCalls, TypeOK, Calls, Reads, TicksRecord, CallsInv,
              Accounting, Pending, history
<1>5. CASE LoadValue
  BY <1>5 DEF LoadValue, TypeOK, Calls, Reads, TicksRecord, CallsInv, Accounting,
              Pending, history
<1>6. CASE StoreValue
  <2>1. app.call = "addTick" /\ "value" \in app.todo /\ "load" \notin app.todo
    BY <1>6 DEF StoreValue, AppAccess, TypeOK, Calls, CallsInv
  <2>2. "value" \notin app'.todo
    BY <1>6 DEF StoreValue, AppAccess, AppIdle, TypeOK, Calls
  <2>3. ctl' = ctl /\ raced' = raced /\ added' = added /\ total' = total
    BY <1>6 DEF StoreValue, AppAccess, history
  <2>4. curr'.value = app.v + app.n
    BY <1>6 DEF StoreValue, TypeOK, TicksRecord
  <2>5. "addTick" \notin raced => ~ctl.busy
    BY <2>1 DEF CallsInv
  <2>6. app.v \in Nat /\ app.n \in Nat /\ total.value \in Nat /\ curr.value \in Nat
    BY DEF TypeOK, Calls, TicksRecord
  <2> SUFFICES ASSUME "addTick" \notin raced
               PROVE  Accounting'
    BY <2>3 DEF Accounting
  <2>7. Pending = app.n /\ Pending' = 0
    BY <2>1, <2>2 DEF Pending
  <2>8. app.v = curr.value /\ total.value + curr.value + app.n = added
    BY <2>1, <2>5, <2>7 DEF Accounting
  <2>9. total'.value + curr'.value + Pending' = added'
    BY <2>3, <2>4, <2>6, <2>7, <2>8
  <2> QED
    BY <2>2, <2>3, <2>5, <2>9 DEF Accounting
<1>7. ASSUME NEW f \in {"start", "end"}, StoreTime(f)
      PROVE  Accounting'
  <2>1. UNCHANGED <<total, ctl, added, raced>> /\ curr'.value = curr.value
    BY <1>7 DEF StoreTime, AppAccess, TypeOK, TicksRecord, history
  <2>2. "value" \in app'.todo => /\ "value" \in app.todo
                                /\ app' = [app EXCEPT !.todo = @ \ {f}]
    BY <1>7 DEF StoreTime, AppAccess, AppIdle
  <2>3. "value" \in app.todo => app' = [app EXCEPT !.todo = @ \ {f}]
    BY <1>7 DEF StoreTime, AppAccess
  <2>4. Pending' = Pending
    BY <1>7, <2>2, <2>3 DEF Pending, TypeOK, Calls
  <2>5. "value" \in app'.todo /\ "load" \notin app'.todo =>
          "value" \in app.todo /\ "load" \notin app.todo /\ app'.v = app.v
    BY <1>7, <2>2 DEF TypeOK, Calls
  <2> QED
    BY <2>1, <2>4, <2>5 DEF Accounting
<1>8. CASE autosleep
  BY <1>8 DEF autosleep, AppIdle, TypeOK, Calls, Reads, TicksRecord, CallsInv,
              Accounting, Pending, history
<1>9. CASE Wake
  BY <1>9 DEF Wake, AppIdle, TypeOK, Calls, Reads, TicksRecord, CallsInv, Accounting,
              Pending, history
<1>10. CASE ReadTicks
  BY <1>10 DEF ReadTicks, CtlIdle, Fields, TypeOK, Calls, Reads, TicksRecord,
               CallsInv, Accounting, Pending, history
<1>11. ASSUME NEW f \in Fields, CopyField(f)
      PROVE  Accounting'
  BY <1>11, SMTT(30) DEF CopyField, Fields, TypeOK, Calls, Reads, TicksRecord, CallsInv,
                         Accounting, Pending, history
<1>12. CASE Accumulate
  BY <1>12, SMTT(30) DEF Accumulate, CtlStores, TypeOK, Calls, Reads, TicksRecord, CallsInv,
                         Accounting, Pending, history
<1>13. CASE ResetValue
  BY <1>13 DEF ResetValue, CtlStores, TypeOK, Calls, Reads, TicksRecord, CallsInv,
               Accounting, Pending, history
<1>14. ASSUME NEW f \in {"start", "end"}, ResetTime(f)
      PROVE  Accounting'
  BY <1>14 DEF ResetTime, CtlStores, TypeOK, Calls, Reads, TicksRecord, CallsInv,
               Accounting, Pending, history
<1>15. CASE ReadTicksReturns
  BY <1>15 DEF ReadTicksReturns, CtlIdle, TypeOK, Calls, Reads, TicksRecord,
               CallsInv, Accounting, Pending, history
<1>16. CASE lock \/ unlock
  BY <1>16 DEF lock, unlock, LockCall, TypeOK, Calls, Reads, TicksRecord, CallsInv,
               Accounting, Pending, history
<1>17. CASE UNCHANGED vars
  BY <1>17 DEF vars, TypeOK, Calls, Reads, TicksRecord, CallsInv, Accounting,
               Pending, history
<1> QED
  BY <1>1, <1>2, <1>3, <1>4, <1>5, <1>6, <1>7, <1>8, <1>9, <1>10, <1>11, <1>12, <1>13,
     <1>14, <1>15, <1>16, <1>17 DEF Next

(* No tick is lost or counted twice, whatever the clock does and however   *)
(* many calls there are, as long as no addTick overlapped a getCurrTicks.  *)
(* What the calls in progress hold, Accounting, makes it inductive.        *)
THEOREM Conserved == Spec => []ConservedUnlessRaced
<1>1. Init => TypeOK /\ CallsInv /\ Accounting
  BY TypeInit DEF Init, CallsInv, AppIdle, CtlIdle, NoTicks, Accounting, Pending
<1>2. TypeOK /\ CallsInv /\ Accounting => ConservedUnlessRaced
  <2> SUFFICES ASSUME TypeOK, CallsInv, Accounting, "addTick" \notin raced, Quiet
               PROVE  total.value + curr.value = added
    BY DEF ConservedUnlessRaced, TicksConserved
  <2>1. Pending = 0 /\ ~ctl.busy
    BY DEF Quiet, Pending
  <2>2. total.value \in Nat /\ curr.value \in Nat
    BY DEF TypeOK, TicksRecord
  <2> QED
    BY <2>1, <2>2 DEF Accounting
<1> QED
  BY <1>1, <1>2, TypeNext, CallsNext, AccountingNext, PTL DEF Spec

-----------------------------------------------------------------------------
(* Times.                                                                  *)

(* The times of a well-typed state are natural numbers.                    *)
LEMMA TimesAreNat ==
  ASSUME TypeOK
  PROVE  /\ clock \in Nat /\ app.now \in Nat
         /\ curr.start \in Nat /\ curr.end \in Nat
         /\ ctl.copy.start \in Nat /\ ctl.copy.end \in Nat
         /\ \A i \in 1 .. Len(window) : window[i].start \in Nat /\ window[i].end \in Nat
<1>1. \A r \in TicksRecord : r.start \in Nat /\ r.end \in Nat
  BY TicksAssumption DEF TicksRecord, Time
<1>2. \A i \in 1 .. Len(window) : window[i] \in TicksRecord
  BY DEF TypeOK
<1>3. clock \in Nat /\ app.now \in Nat /\ ctl.copy \in TicksRecord
  BY TicksAssumption DEF TypeOK, Calls, Reads, Time
<1> QED
  BY <1>1, <1>2, <1>3 DEF TypeOK

(* A call of autosleep or its return leaves no timestamp of a tick behind. *)
LEMMA SleepCalls ==
  ASSUME autosleep \/ Wake
  PROVE  app'.call \in {"none", "autosleep"} /\ app.call \in {"none", "autosleep"}
<1>1. CASE autosleep
  <2>1. \A t : [AppIdle EXCEPT !.call = "autosleep", !.now = t].call = "autosleep"
    BY DEF AppIdle
  <2> QED
    BY <1>1, <2>1 DEF autosleep
<1>2. CASE Wake
  BY <1>2 DEF Wake, AppIdle
<1> QED
  BY <1>1, <1>2

(* What the stores of a timestamp make of the current period.              *)
LEMMA StartOrEnd ==
  ASSUME TypeOK, NEW f \in {"start", "end"}, NEW t \in Nat,
         curr' = [curr EXCEPT ![f] = t]
  PROVE  /\ curr'.start = IF f = "start" THEN t ELSE curr.start
         /\ curr'.end = IF f = "end" THEN t ELSE curr.end
<1>1. CASE f = "start"
  BY <1>1 DEF TypeOK, TicksRecord
<1>2. CASE f = "end"
  BY <1>2 DEF TypeOK, TicksRecord
<1> QED
  BY <1>1, <1>2

(* What a load makes of the controller's copy.                             *)
LEMMA CopiedFields ==
  ASSUME TypeOK, NEW f \in Fields, CopyField(f)
  PROVE  /\ ctl'.busy = ctl.busy /\ ctl'.load = ctl.load \ {f} /\ ctl'.store = ctl.store
         /\ ctl'.copy.start = IF f = "start" THEN curr.start ELSE ctl.copy.start
         /\ ctl'.copy.end = IF f = "end" THEN curr.end ELSE ctl.copy.end
<1>1. ctl'.copy = [ctl.copy EXCEPT ![f] = curr[f]]
  BY DEF TypeOK, Reads, CopyField
<1>2. f = "value" \/ f = "start" \/ f = "end"
  BY DEF Fields
<1>3. ctl'.busy = ctl.busy /\ ctl'.load = ctl.load \ {f} /\ ctl'.store = ctl.store
  BY DEF TypeOK, Reads, CopyField
<1>4. CASE f = "value"
  BY <1>1, <1>3, <1>4 DEF TypeOK, Reads, TicksRecord
<1>5. CASE f = "start"
  BY <1>1, <1>3, <1>5 DEF TypeOK, Reads, TicksRecord
<1>6. CASE f = "end"
  BY <1>1, <1>3, <1>6 DEF TypeOK, Reads, TicksRecord
<1> QED
  BY <1>2, <1>4, <1>5, <1>6

(* No timestamp lies in the future, nor after the start of the client's    *)
(* call.                                                                   *)
LEMMA TimesNext ==
  TypeOK /\ CallsInv /\ TimesInv /\ [Next]_vars => TimesInv'
<1> SUFFICES ASSUME TypeOK, CallsInv, TimesInv, [Next]_vars
             PROVE  TimesInv'
  OBVIOUS
<1> USE TimesAreNat
<1>a. \A s, t \in Nat : NoneAfter(s) /\ s <= t => NoneAfter(t)
  BY DEF NoneAfter
<1>b. ASSUME UNCHANGED <<clock, curr, ctl, window>>,
             \/ app' = app
             \/ app'.call \in {"none", "autosleep"}
             \/ app'.call = app.call /\ app'.now = app.now
      PROVE  TimesInv'
  BY <1>b DEF TimesInv, NoneAfter
<1>c. ASSUME NEW a, AppAccess(a)
      PROVE  /\ app'.call = "none" \/ (app'.call = app.call /\ app'.now = app.now)
             /\ app.call \in {"addTick", "setTickStartTime"}
             /\ UNCHANGED <<clock, ctl, window>>
  BY <1>c DEF AppAccess, AppIdle, TypeOK, Calls, CallsInv
<1>1. CASE Tick
  <2>1. UNCHANGED <<app, curr, ctl, window>> /\ clock' = clock + 1
    BY <1>1 DEF Tick
  <2> QED
    BY <2>1 DEF TimesInv, NoneAfter
<1>2. ASSUME NEW call, NEW todo, NEW n, AppCalls(call, todo, n)
      PROVE  TimesInv'
  <2>1. app'.now = clock /\ UNCHANGED <<clock, curr, ctl, window>>
    BY <1>2 DEF AppCalls
  <2> QED
    BY <2>1 DEF TimesInv, NoneAfter
<1>3. CASE StoreTotal
  BY <1>3, <1>b, <1>c DEF StoreTotal
<1>4. CASE LoadValue
  <2>1. UNCHANGED <<clock, curr, ctl, window>>
    BY <1>4 DEF LoadValue
  <2>2. app'.call = app.call /\ app'.now = app.now
    BY <1>4 DEF LoadValue, TypeOK, Calls
  <2> QED
    BY <2>1, <2>2 DEF TimesInv, NoneAfter
<1>5. CASE StoreValue
  <2>1. curr'.start = curr.start /\ curr'.end = curr.end
    BY <1>5 DEF StoreValue, TypeOK, TicksRecord
  <2> QED
    BY <1>5, <1>c, <2>1 DEF StoreValue, TimesInv, NoneAfter
<1>6. ASSUME NEW f \in {"start", "end"}, StoreTime(f)
      PROVE  TimesInv'
  <2>1. /\ curr'.start = IF f = "start" THEN app.now ELSE curr.start
        /\ curr'.end = IF f = "end" THEN app.now ELSE curr.end
    BY <1>6, StartOrEnd DEF StoreTime
  <2> QED
    BY <1>6, <1>c, <2>1 DEF StoreTime, TimesInv, NoneAfter
<1>7. CASE autosleep \/ Wake
  <2>1. UNCHANGED <<clock, curr, ctl, window>>
    BY <1>7 DEF autosleep, Wake
  <2>2. app'.call \in {"none", "autosleep"}
    BY <1>7, SleepCalls
  <2> QED
    BY <2>1, <2>2 DEF TimesInv, NoneAfter
<1>8. CASE ReadTicks
  <2>1. ctl'.copy.start = 0 /\ ctl'.copy.end = 0 /\ UNCHANGED <<clock, app, curr, window>>
    BY <1>8 DEF ReadTicks, CtlIdle, NoTicks
  <2> QED
    BY <2>1 DEF TimesInv, NoneAfter
<1>9. ASSUME NEW f \in Fields, CopyField(f)
      PROVE  TimesInv'
  <2>1. UNCHANGED <<clock, app, curr, window>>
    BY <1>9 DEF CopyField
  <2> QED
    BY <1>9, <2>1, CopiedFields DEF TimesInv, NoneAfter
<1>d. ASSUME NEW a, NEW loads, CtlStores(a, loads)
      PROVE  ctl'.copy = ctl.copy /\ UNCHANGED <<clock, app, window>>
  BY <1>d DEF CtlStores, TypeOK, Reads
<1>10. CASE Accumulate
  BY <1>10, <1>d DEF Accumulate, TimesInv, NoneAfter
<1>11. CASE ResetValue
  <2>1. curr'.start = curr.start /\ curr'.end = curr.end
    BY <1>11 DEF ResetValue, TypeOK, TicksRecord
  <2> QED
    BY <1>11, <1>d, <2>1 DEF ResetValue, TimesInv, NoneAfter
<1>12. ASSUME NEW f \in {"start", "end"}, ResetTime(f)
       PROVE  TimesInv'
  <2>1. /\ curr'.start = IF f = "start" THEN ctl.copy.end ELSE curr.start
        /\ curr'.end = IF f = "end" THEN ctl.copy.end ELSE curr.end
    BY <1>12, StartOrEnd DEF ResetTime
  <2> QED
    BY <1>12, <1>d, <2>1 DEF ResetTime, TimesInv, NoneAfter
<1>13. CASE ReadTicksReturns
  <2>1. /\ ctl'.copy.start = 0 /\ ctl'.copy.end = 0 /\ UNCHANGED <<clock, app, curr>>
        /\ window' = Pushed(ctl.copy)
    BY <1>13 DEF ReadTicksReturns, CtlIdle, NoTicks
  <2>2. ctl.copy \in TicksRecord
    BY DEF TypeOK, Reads
  <2>3. PICK d \in {0, 1} :
          /\ d <= Len(window)
          /\ Len(window') = Len(window) - d + 1
          /\ window'[Len(window) - d + 1] = ctl.copy
          /\ \A i \in 1 .. Len(window) - d : window'[i] = window[i + d]
    BY <2>1, <2>2, PushedElements
  <2>4. Len(window) \in Nat
    BY DEF TypeOK
  <2>5. ASSUME NEW t \in Nat, NoneAfter(t), NEW i \in 1 .. Len(window')
        PROVE  window'[i].end <= t
    <3>1. CASE i = Len(window) - d + 1
      BY <2>3, <2>5, <3>1 DEF NoneAfter
    <3>2. CASE i # Len(window) - d + 1
      <4>1. i \in 1 .. Len(window) - d /\ i + d \in 1 .. Len(window)
        BY <2>3, <2>4, <3>2
      <4> QED
        BY <2>3, <2>5, <4>1 DEF NoneAfter
    <3> QED
      BY <3>1, <3>2
  <2>6. ASSUME NEW t \in Nat, NoneAfter(t)
        PROVE  /\ curr'.start <= t /\ curr'.end <= t
               /\ ctl'.copy.start <= t /\ ctl'.copy.end <= t
               /\ \A i \in 1 .. Len(window') : window'[i].end <= t
    <3>1. curr' = curr /\ ctl'.copy.start <= t /\ ctl'.copy.end <= t
      BY <2>1
    <3> QED
      BY <2>5, <2>6, <3>1 DEF NoneAfter
  <2> QED
    BY <2>1, <2>6 DEF TimesInv, NoneAfter
<1>14. CASE lock \/ unlock
  BY <1>14, <1>b DEF lock, unlock, LockCall
<1>15. CASE UNCHANGED vars
  BY <1>15, <1>b DEF vars
<1> QED
  BY <1>1, <1>2, <1>3, <1>4, <1>5, <1>6, <1>7, <1>8, <1>9, <1>10, <1>11, <1>12, <1>13,
     <1>14, <1>15 DEF Next, setTickStartTime, addTick

(* The timestamps stay in order unless setTickStartTime overlaps a         *)
(* getCurrTicks.                                                           *)
LEMMA PeriodsNext ==
  TypeOK /\ CallsInv /\ TimesInv /\ PeriodsInv /\ [Next]_vars => PeriodsInv'
<1> SUFFICES ASSUME TypeOK, CallsInv, TimesInv, PeriodsInv, [Next]_vars,
                    "setTickStartTime" \notin raced'
             PROVE  CurrInv' /\ CopyInv' /\ WindowBehind' /\ WindowInv'
  BY DEF PeriodsInv
<1> USE TimesAreNat
<1>a. "setTickStartTime" \notin raced
  BY DEF Next, vars, Tick, setTickStartTime, addTick, AppCalls, StoreTotal,
         AppAccess, LoadValue,
         StoreValue, StoreTime, autosleep, Wake, ReadTicks, CopyField, Accumulate,
         CtlStores,
         ResetValue, ResetTime, ReadTicksReturns, lock, unlock, LockCall
<1>b. CurrInv /\ CopyInv /\ WindowBehind /\ WindowInv
  BY <1>a DEF PeriodsInv
<1>c. ASSUME NEW a, AppAccess(a)
      PROVE  /\ app'.call = IF app.todo = {a} THEN "none" ELSE app.call
             /\ app'.todo = app.todo \ {a}
             /\ app'.now = IF app.todo = {a} THEN 0 ELSE app.now
             /\ app.call \in {"addTick", "setTickStartTime"}
             /\ UNCHANGED <<ctl, window>>
  BY <1>c DEF AppAccess, AppIdle, TypeOK, Calls, CallsInv
<1>d. ctl.busy => app.call # "setTickStartTime"
  BY <1>a DEF CallsInv
<1>e. ASSUME UNCHANGED <<ctl, window>>, curr'.start = curr.start, curr'.end = curr.end,
             app'.call # "setTickStartTime", app.call # "setTickStartTime"
      PROVE  CurrInv' /\ CopyInv' /\ WindowBehind' /\ WindowInv'
  BY <1>b, <1>e DEF CurrInv, CopyInv, WindowBehind, WindowInv
<1>f. ASSUME UNCHANGED <<app, ctl, window>>, curr'.start = curr.start, curr'.end = curr.end
      PROVE  CurrInv' /\ CopyInv' /\ WindowBehind' /\ WindowInv'
  BY <1>b, <1>f DEF CurrInv, CopyInv, WindowBehind, WindowInv
<1>1. CASE Tick
  BY <1>1, <1>f DEF Tick
<1>2. CASE setTickStartTime
  <2>1. /\ app'.call = "setTickStartTime" /\ app'.todo = {"total", "start", "end"}
        /\ UNCHANGED <<curr, ctl, window>>
    BY <1>2 DEF setTickStartTime, AppCalls
  <2>2. ~ctl.busy
    BY <1>2 DEF setTickStartTime, AppCalls
  <2> QED
    BY <1>b, <2>1, <2>2 DEF CurrInv, CopyInv, WindowBehind, WindowInv, CallsInv
<1>3. CASE StoreTotal
  <2>1. ~ctl.busy /\ app.call = "setTickStartTime" /\ curr' = curr
    BY <1>3, <1>d DEF StoreTotal
  <2>2. NoneAfter(app.now) /\ ctl.load = {} /\ ctl.store = {}
    BY <2>1 DEF TimesInv, CallsInv
  <2> QED
    BY <1>3, <1>b, <1>c, <2>1, <2>2 DEF StoreTotal, CurrInv, CopyInv, WindowBehind,
                                        WindowInv, NoneAfter
<1>4. ASSUME NEW n \in TickCounts, addTick(n)
      PROVE  CurrInv' /\ CopyInv' /\ WindowBehind' /\ WindowInv'
  <2>1. app'.call = "addTick" /\ app.call = "none" /\ UNCHANGED <<curr, ctl, window>>
    BY <1>4 DEF addTick, AppCalls
  <2> QED
    BY <1>e, <2>1
<1>5. CASE LoadValue
  <2>1. /\ app'.call = app.call /\ app.call # "setTickStartTime"
        /\ UNCHANGED <<curr, ctl, window>>
    BY <1>5 DEF LoadValue, TypeOK, Calls, CallsInv
  <2> QED
    BY <1>e, <2>1
<1>6. CASE StoreValue
  <2>1. curr'.start = curr.start /\ curr'.end = curr.end
    BY <1>6 DEF StoreValue, TypeOK, TicksRecord
  <2>2. app.call # "setTickStartTime"
    BY <1>6 DEF StoreValue, AppAccess, CallsInv
  <2> QED
    BY <1>6, <1>c, <1>e, <2>1, <2>2 DEF StoreValue
<1>7. ASSUME NEW f \in {"start", "end"}, StoreTime(f)
      PROVE  CurrInv' /\ CopyInv' /\ WindowBehind' /\ WindowInv'
  <2>1. /\ curr'.start = IF f = "start" THEN app.now ELSE curr.start
        /\ curr'.end = IF f = "end" THEN app.now ELSE curr.end
    BY <1>7, StartOrEnd DEF StoreTime
  <2>2. NoneAfter(app.now) /\ UNCHANGED <<ctl, window>>
    BY <1>7, <1>c DEF StoreTime, TimesInv
  <2>3. CASE app.call = "addTick"
    <3>1. f = "end"
      BY <1>7, <2>3 DEF StoreTime, AppAccess, CallsInv
    <3>2. app'.call # "setTickStartTime"
      BY <1>7, <1>c, <2>3 DEF StoreTime
    <3> QED
      BY <1>b, <2>1, <2>2, <2>3, <3>1, <3>2
      DEF CurrInv, CopyInv, WindowBehind, WindowInv, NoneAfter
  <2>4. CASE app.call = "setTickStartTime"
    <3>1. ~ctl.busy /\ ctl.load = {} /\ ctl.store = {}
      BY <1>d, <2>4 DEF CallsInv
    <3>2. app.todo = {f} => app'.call = "none" /\ app'.todo = {}
      BY <1>7, <1>c DEF StoreTime
    <3>3. app.todo # {f} => app'.call = app.call /\ app'.todo = app.todo \ {f} /\ app'.now = app.now
      BY <1>7, <1>c DEF StoreTime
    <3>4. CASE app.todo = {f}
      <4>1. curr'.start = app.now /\ curr'.end = app.now
        BY <1>b, <2>1, <2>4, <3>4 DEF CurrInv
      <4> QED
        BY <1>b, <2>2, <3>1, <3>2, <3>4, <4>1
        DEF CurrInv, CopyInv, WindowBehind, WindowInv, NoneAfter
    <3>5. CASE app.todo # {f}
      BY <1>b, <2>1, <2>2, <2>4, <3>1, <3>3, <3>5
      DEF CurrInv, CopyInv, WindowBehind, WindowInv
    <3> QED
      BY <3>4, <3>5
  <2> QED
    BY <1>7, <1>c, <2>3, <2>4 DEF StoreTime
<1>8. CASE autosleep \/ Wake
  <2>1. UNCHANGED <<curr, ctl, window>>
    BY <1>8 DEF autosleep, Wake
  <2>2. app'.call \in {"none", "autosleep"} /\ app.call \in {"none", "autosleep"}
    BY <1>8, SleepCalls
  <2> QED
    BY <1>e, <2>1, <2>2
<1>9. CASE ReadTicks
  <2>1. /\ ctl'.load = Fields /\ ctl'.store = Fields \cup {"total"} /\ ctl'.busy /\ ~ctl.busy
        /\ UNCHANGED <<app, curr, window>>
    BY <1>9 DEF ReadTicks, CtlIdle
  <2>2. app.call # "setTickStartTime"
    BY <1>9 DEF ReadTicks
  <2> QED
    BY <1>b, <2>1, <2>2 DEF CurrInv, CopyInv, WindowBehind, WindowInv, Fields
<1>10. ASSUME NEW f \in Fields, CopyField(f)
       PROVE  CurrInv' /\ CopyInv' /\ WindowBehind' /\ WindowInv'
  <2>1. UNCHANGED <<app, curr, window>> /\ f \in ctl.load /\ ctl.busy
    BY <1>10 DEF CopyField, CallsInv
  <2>2. /\ ctl'.busy = ctl.busy /\ ctl'.load = ctl.load \ {f} /\ ctl'.store = ctl.store
        /\ ctl'.copy.start = IF f = "start" THEN curr.start ELSE ctl.copy.start
        /\ ctl'.copy.end = IF f = "end" THEN curr.end ELSE ctl.copy.end
    BY <1>10, CopiedFields
  <2>3. curr.start <= curr.end
    BY <1>b, <1>d, <2>1 DEF CurrInv
  <2>4. CurrInv' /\ WindowInv'
    BY <1>b, <2>1 DEF CurrInv, WindowInv
  <2>5. CopyInv'
    BY <1>b, <2>1, <2>2, <2>3 DEF CopyInv, CallsInv
  <2>6. WindowBehind'
    BY <1>b, <2>1, <2>2 DEF WindowBehind, CallsInv
  <2> QED
    BY <2>4, <2>5, <2>6
<1>g. ASSUME NEW a, NEW loads, CtlStores(a, loads)
      PROVE  /\ ctl'.copy = ctl.copy /\ ctl'.busy = ctl.busy /\ ctl.busy
             /\ ctl'.load = ctl.load /\ ctl'.store = ctl.store \ {a} /\ a \in ctl.store
             /\ ctl.load \cap loads = {}
             /\ UNCHANGED <<app, window>>
  BY <1>g DEF CtlStores, TypeOK, Reads, CallsInv
<1>h. ASSUME NEW a, NEW loads, CtlStores(a, loads), a # "start",
             curr'.start = curr.start, curr'.end = curr.end
      PROVE  CurrInv' /\ CopyInv' /\ WindowBehind' /\ WindowInv'
  BY <1>b, <1>h, <1>g DEF CurrInv, CopyInv, WindowBehind, WindowInv
<1>11. CASE Accumulate
  BY <1>11, <1>h DEF Accumulate
<1>12. CASE ResetValue
  <2>1. curr'.start = curr.start /\ curr'.end = curr.end
    BY <1>12 DEF ResetValue, TypeOK, TicksRecord
  <2> QED
    BY <1>12, <1>h, <2>1 DEF ResetValue
<1>13. ASSUME NEW f \in {"start", "end"}, ResetTime(f)
       PROVE  CurrInv' /\ CopyInv' /\ WindowBehind' /\ WindowInv'
  <2>1. /\ curr'.start = IF f = "start" THEN ctl.copy.end ELSE curr.start
        /\ curr'.end = IF f = "end" THEN ctl.copy.end ELSE curr.end
    BY <1>13, StartOrEnd DEF ResetTime
  <2>2. /\ ctl'.copy = ctl.copy /\ ctl'.busy = ctl.busy /\ ctl.busy
        /\ ctl'.load = ctl.load /\ ctl'.store = ctl.store \ {f} /\ f \in ctl.store
        /\ ctl.load \cap {f, "end"} = {}
        /\ UNCHANGED <<app, window>>
    BY <1>13, <1>g DEF ResetTime
  <2>3. curr.start <= curr.end /\ curr.start <= ctl.copy.end /\ ctl.copy.end <= curr.end
    BY <1>b, <1>d, <2>2 DEF CurrInv, CopyInv
  <2>4. CurrInv' /\ WindowInv'
    BY <1>b, <1>d, <2>1, <2>2, <2>3 DEF CurrInv, WindowInv
  <2>5. CopyInv'
    BY <1>b, <2>1, <2>2, <2>3 DEF CopyInv
  <2>6. WindowBehind'
    BY <1>b, <2>1, <2>2, <2>3 DEF WindowBehind
  <2> QED
    BY <2>4, <2>5, <2>6
<1>14. CASE ReadTicksReturns
  <2>1. /\ ctl.busy /\ ctl.load = {} /\ ctl.store = {} /\ ~ctl'.busy /\ ctl'.store = {}
        /\ UNCHANGED <<app, curr>> /\ window' = Pushed(ctl.copy)
    BY <1>14 DEF ReadTicksReturns, CtlIdle
  <2>2. ctl.copy \in TicksRecord
    BY DEF TypeOK, Reads
  <2>3. PICK d \in {0, 1} :
          /\ d <= Len(window)
          /\ Len(window') = Len(window) - d + 1
          /\ window'[Len(window) - d + 1] = ctl.copy
          /\ \A i \in 1 .. Len(window) - d : window'[i] = window[i + d]
    BY <2>1, <2>2, PushedElements
  <2>4. Len(window) \in Nat
    BY DEF TypeOK
  <2>5. /\ curr.start = ctl.copy.end /\ ctl.copy.start <= ctl.copy.end
        /\ \A i \in 1 .. Len(window) : window[i].end <= ctl.copy.start
    BY <1>b, <2>1 DEF CopyInv, WindowBehind
  <2>6. ASSUME NEW i \in 1 .. Len(window')
        PROVE  \/ i = Len(window') /\ window'[i] = ctl.copy
               \/ /\ i < Len(window') /\ i + d \in 1 .. Len(window)
                  /\ window'[i] = window[i + d]
    <3>1. CASE i = Len(window) - d + 1
      BY <2>3, <3>1
    <3>2. CASE i # Len(window) - d + 1
      <4>1. i \in 1 .. Len(window) - d /\ i + d \in 1 .. Len(window) /\ i < Len(window')
        BY <2>3, <2>4, <3>2
      <4> QED
        BY <2>3, <4>1
    <3> QED
      BY <3>1, <3>2
  <2>7. CurrInv' /\ CopyInv'
    BY <1>b, <2>1 DEF CurrInv, CopyInv
  <2>8. WindowBehind'
    <3>1. \A i \in 1 .. Len(window') : window'[i].end <= curr.start
      <4> TAKE i \in 1 .. Len(window')
      <4>1. CASE window'[i] = ctl.copy
        BY <2>2, <2>5, <4>1 DEF TicksRecord
      <4>2. CASE i + d \in 1 .. Len(window) /\ window'[i] = window[i + d]
        <5>1. window[i + d].end <= ctl.copy.start /\ ctl.copy.start <= curr.start
          BY <2>5, <4>2
        <5>2. window[i + d].end \in Nat /\ ctl.copy.start \in Nat /\ curr.start \in Nat
          BY <2>2, <4>2, TimesAreNat DEF TypeOK, TicksRecord
        <5> QED
          BY <4>2, <5>1, <5>2
      <4> QED
        BY <2>6, <4>1, <4>2
    <3> QED
      BY <2>1, <3>1 DEF WindowBehind
  <2>9. \A i \in 1 .. Len(window') : window'[i].start <= window'[i].end
    BY <1>b, <2>5, <2>6 DEF WindowInv
  <2>10. ASSUME NEW i \in 1 .. Len(window'), NEW j \in 1 .. Len(window'), i < j
         PROVE  window'[i].end <= window'[j].start
    <3>1. i + d \in 1 .. Len(window) /\ window'[i] = window[i + d]
      <4>1. i # Len(window')
        BY <2>3, <2>4, <2>10
      <4> QED
        BY <2>6, <4>1
    <3>2. CASE j = Len(window')
      <4>1. window'[j] = ctl.copy
        BY <2>3, <3>2
      <4> QED
        BY <2>5, <3>1, <4>1
    <3>3. CASE j # Len(window')
      <4>1. j + d \in 1 .. Len(window) /\ window'[j] = window[j + d]
        BY <2>6, <3>3
      <4>2. i + d < j + d
        BY <2>3, <2>4, <2>10
      <4> QED
        BY <1>b, <3>1, <4>1, <4>2 DEF WindowInv
    <3> QED
      BY <3>2, <3>3
  <2> QED
    BY <2>7, <2>8, <2>9, <2>10 DEF WindowInv
<1>15. CASE lock \/ unlock
  BY <1>15, <1>f DEF lock, unlock, LockCall
<1>16. CASE UNCHANGED vars
  BY <1>16, <1>f DEF vars
<1> QED
  BY <1>1, <1>2, <1>3, <1>4, <1>5, <1>6, <1>7, <1>8, <1>9, <1>10, <1>11, <1>12, <1>13,
     <1>14, <1>15, <1>16 DEF Next

(* The initial state satisfies the invariant.                              *)
LEMMA PeriodsInit ==
  Init => TypeOK /\ CallsInv /\ TimesInv /\ PeriodsInv
<1> SUFFICES ASSUME Init
             PROVE  CallsInv /\ TimesInv /\ PeriodsInv
  BY TypeInit
<1>1. /\ clock = 0 /\ curr.start = 0 /\ curr.end = 0 /\ ctl.copy.start = 0 /\ ctl.copy.end = 0
      /\ app.call = "none" /\ app.todo = {} /\ ~ctl.busy /\ ctl.load = {} /\ ctl.store = {}
      /\ Len(window) = 0
  BY DEF Init, NoTicks, AppIdle, CtlIdle
<1> QED
  BY <1>1 DEF CallsInv, TimesInv, NoneAfter, PeriodsInv, CurrInv, CopyInv,
              WindowBehind, WindowInv

(* The periods the App remembers run forward and do not overlap, whatever  *)
(* addTick races with; only a setTickStartTime that overlapped a           *)
(* getCurrTicks can disturb them.  The inductive invariant follows the     *)
(* order of the timestamps through the loads and stores of both sides.     *)
THEOREM Ordered == Spec => []PeriodsOrdered
<1>1. TypeOK /\ PeriodsInv => PeriodsOrdered
  BY DEF PeriodsInv, PeriodsOrdered, CurrInv, WindowInv
<1> QED
  BY <1>1, PeriodsInit, TypeNext, CallsNext, TimesNext, PeriodsNext, PTL DEF Spec

(* The window reports the ticks from the start of its first period to the  *)
(* end of its last one.                                                    *)
LEMMA WindowSpan ==
  ASSUME TypeOK, WindowInv, window # <<>>,
         NEW w \in 1 .. TicksSWMaxSize, NEW ticks \in getWindowTicks(w)
  PROVE  \E i \in 1 .. Len(window) :
           /\ ticks.value = WindowTicks(i)
           /\ ticks.start = window[i].start /\ ticks.end = window[Len(window)].end
           /\ window[i].start <= window[Len(window)].end
<1>1. Len(window) \in Nat \ {0} /\ w \in Nat \ {0}
  BY TicksAssumption DEF TypeOK
<1> DEFINE n == IF w < Len(window) THEN w ELSE Len(window)
           first == Len(window) - n + 1
           last == first .. Len(window)
<1>2. first \in 1 .. Len(window) /\ Len(window) \in 1 .. Len(window)
  BY <1>1
<1>3. ticks = [value |-> SumFunctionOnSet([i \in last |-> window[i].value], last),
               start |-> window[first].start,
               end |-> window[Len(window)].end]
  BY <1>1 DEF getWindowTicks
<1>4. /\ ticks.value = SumFunctionOnSet([i \in last |-> window[i].value], last)
      /\ ticks.start = window[first].start /\ ticks.end = window[Len(window)].end
  BY <1>3, Zenon
<1> HIDE DEF first
<1>5. window[first].start <= window[Len(window)].end
  <2>1. /\ window[first].start <= window[first].end
        /\ window[Len(window)].start <= window[Len(window)].end
    BY <1>2 DEF WindowInv
  <2>2. first < Len(window) => window[first].end <= window[Len(window)].start
    BY <1>2 DEF WindowInv
  <2>3. first < Len(window) \/ first = Len(window)
    BY <1>2
  <2> QED
    BY <1>2, <2>1, <2>2, <2>3, TimesAreNat
<1>6. ticks.value = WindowTicks(first)
  BY <1>4 DEF WindowTicks
<1> QED
  BY <1>2, <1>4, <1>5, <1>6

(* The time the ticks of a window are divided by is positive, whatever     *)
(* addTick races with.                                                     *)
THEOREM Divisible == Spec => []ThroughputNotNegative
<1>1. TypeOK /\ PeriodsInv => ThroughputNotNegative
  <2> SUFFICES ASSUME TypeOK, PeriodsInv, "setTickStartTime" \notin raced, window # <<>>,
                      NEW w \in 1 .. TicksSWMaxSize, NEW ticks \in getWindowTicks(w)
               PROVE  getWindowThroughput(ticks).time > 0
    BY DEF ThroughputNotNegative
  <2>1. PICK i \in 1 .. Len(window) :
          /\ ticks.start = window[i].start /\ ticks.end = window[Len(window)].end
          /\ window[i].start <= window[Len(window)].end
    BY WindowSpan DEF PeriodsInv
  <2>2. Len(window) \in 1 .. Len(window)
    BY DEF TypeOK
  <2> QED
    BY <2>1, <2>2, TimesAreNat DEF getWindowThroughput
<1> QED
  BY <1>1, PeriodsInit, TypeNext, CallsNext, TimesNext, PeriodsNext, PTL DEF Spec

-----------------------------------------------------------------------------
(* The ticks of a window.                                                  *)

(* The history is a function to naturals on finitely many instants.        *)
LEMMA TakenFinite ==
  ASSUME TypeOK, NEW S \in SUBSET Time
  PROVE  /\ IsFiniteSet(S)
         /\ \A t \in S : taken[t] \in Nat
         /\ SumFunctionOnSet(taken, S) \in Nat
<1>1. IsFiniteSet(Time)
  BY TicksAssumption, FS_Interval DEF Time
<1>2. IsFiniteSet(S)
  BY <1>1, FS_Subset
<1>3. \A t \in S : taken[t] \in Nat
  BY DEF TypeOK
<1> QED
  BY <1>2, <1>3, SumNat

(* The ticks of the current period, and those of the window from its i-th  *)
(* period on, are natural numbers.                                         *)
LEMMA WindowTicksNat ==
  ASSUME TypeOK
  PROVE  /\ curr.value \in Nat /\ ctl.copy.value \in Nat /\ app.n \in Nat /\ app.v \in Nat
         /\ PeriodTicks \in Nat /\ PeriodStart \in Time
         /\ \A i \in 1 .. Len(window) :
              /\ window[i].value \in Nat /\ window[i].start \in Time /\ window[i].end \in Time
              /\ WindowTicks(i) \in Nat
<1>1. \A r \in TicksRecord : r.value \in Nat /\ r.start \in Time /\ r.end \in Time
  BY DEF TicksRecord
<1>2. ctl.copy \in TicksRecord /\ curr \in TicksRecord /\ app.n \in Nat /\ app.v \in Nat
  BY DEF TypeOK, Reads, Calls
<1>3. \A i \in 1 .. Len(window) : window[i] \in TicksRecord
  BY DEF TypeOK
<1>4. PeriodTicks \in Nat /\ PeriodStart \in Time
  BY <1>1, <1>2 DEF PeriodTicks, PeriodStart, Pending
<1>5. ASSUME NEW i \in 1 .. Len(window)
      PROVE  WindowTicks(i) \in Nat
  <2>1. IsFiniteSet(i .. Len(window))
    BY FS_Interval DEF TypeOK
  <2>2. \A k \in i .. Len(window) : window[k].value \in Nat
    BY <1>1, <1>3
  <2> QED
    BY <2>1, <2>2, SumNat DEF WindowTicks
<1> QED
  BY <1>1, <1>2, <1>3, <1>4, <1>5

(* A step that takes no tick and moves neither the window nor the current  *)
(* period, but for where its ticks are kept.                               *)
LEMMA CoverKept ==
  ASSUME CoverInv, raced = {}, UNCHANGED <<taken, added, window>>,
         PeriodStart' = PeriodStart, PeriodTicks' = PeriodTicks,
         EndInv', app'.call = "setTickStartTime" => added = 0
  PROVE  CoverInv'
<1>1. HistoryInv' /\ GapInv'
  BY DEF CoverInv, HistoryInv, GapInv, NoneYet
<1>2. TicksSince(PeriodStart, PeriodTicks)'
  BY DEF CoverInv, TicksSince
<1>3. \A i \in 1 .. Len(window') : TicksSince(window[i].start, WindowTicks(i) + PeriodTicks)'
  BY DEF CoverInv, TicksSince, WindowTicks
<1> QED
  BY <1>1, <1>2, <1>3 DEF CoverInv

(* Before the first tick any timestamps will do.                           *)
LEMMA CoverBefore ==
  ASSUME TypeOK, TypeOK', EndInv', HistoryInv', added' = 0
  PROVE  CoverInv'
<1>1. PeriodTicks' = 0 /\ NoneYet' /\ \A t \in Time : taken'[t] = 0
  BY DEF HistoryInv
<1>2. GapInv'
  BY <1>1 DEF GapInv
<1>3. ASSUME NEW S \in SUBSET Time
      PROVE  SumFunctionOnSet(taken', S) = 0
  <2>1. IsFiniteSet(S)
    BY TakenFinite
  <2> QED
    BY <1>1, <2>1, SumZero
<1>4. TicksSince(PeriodStart, PeriodTicks)'
  BY <1>1, <1>3 DEF TicksSince
<1>5. ASSUME NEW i \in 1 .. Len(window')
      PROVE  TicksSince(window[i].start, WindowTicks(i) + PeriodTicks)'
  <2>1. IsFiniteSet(i .. Len(window'))
    BY FS_Interval DEF TypeOK
  <2>2. \A k \in i .. Len(window') : window'[k].value = 0
    BY <1>1 DEF NoneYet, TypeOK
  <2>3. WindowTicks(i)' = 0
    BY <2>1, <2>2, SumZero DEF WindowTicks
  <2> QED
    BY <1>1, <1>3, <2>3 DEF TicksSince
<1> QED
  BY <1>2, <1>4, <1>5 DEF CoverInv

(* A tick is taken after everything that has a timestamp.                  *)
LEMMA SinceTaken ==
  ASSUME TypeOK, NEW n \in Nat, taken' = [taken EXCEPT ![clock] = @ + n],
         NEW s \in Time, s <= clock, NEW v \in Nat, TicksSince(s, v)
  PROVE  TicksSince(s, v + n)'
<1> DEFINE After == {t \in Time : t > s}
           From == {t \in Time : t >= s}
<1>1. clock \in Time /\ taken \in [Time -> Nat] /\ Time \subseteq Int
  BY TicksAssumption DEF TypeOK, Time
<1>2. ASSUME NEW S \in SUBSET Time
      PROVE  /\ clock \in S => SumFunctionOnSet(taken', S) = SumFunctionOnSet(taken, S) + n
             /\ clock \notin S => SumFunctionOnSet(taken', S) = SumFunctionOnSet(taken, S)
  <2>1. IsFiniteSet(S)
    BY TakenFinite
  <2>2. \A t \in S : taken[t] \in Int
    BY <1>1
  <2>3. taken'[clock] = taken[clock] + n
    BY <1>1
  <2>4. \A t \in S \ {clock} : taken'[t] = taken[t]
    BY <1>1
  <2> HIDE DEF After, From
  <2>5. ASSUME NEW f, NEW g, NEW c,
               \A t \in S : f[t] \in Int, g[c] = f[c] + n, \A t \in S \ {c} : g[t] = f[t]
        PROVE  /\ c \in S => SumFunctionOnSet(g, S) = SumFunctionOnSet(f, S) + n
               /\ c \notin S => SumFunctionOnSet(g, S) = SumFunctionOnSet(f, S)
    BY <2>1, <2>5, SumGrown
  <2> QED
    BY <2>2, <2>3, <2>4, <2>5
<1>3. clock \in From
  BY <1>1
<1>4. After \in SUBSET Time /\ From \in SUBSET Time
  OBVIOUS
<1>5. SumFunctionOnSet(taken, After) \in Nat /\ SumFunctionOnSet(taken, From) \in Nat
  BY <1>4, TakenFinite
<1>6. SumFunctionOnSet(taken, After) <= v /\ v <= SumFunctionOnSet(taken, From)
  BY DEF TicksSince
<1>7. SumFunctionOnSet(taken', From) = SumFunctionOnSet(taken, From) + n
  BY <1>2, <1>3, <1>4
<1> HIDE DEF After, From
<1>8. SumFunctionOnSet(taken', After)
        \in {SumFunctionOnSet(taken, After), SumFunctionOnSet(taken, After) + n}
  BY <1>2, <1>4
<1>9. SumFunctionOnSet(taken', After) <= v + n /\ v + n <= SumFunctionOnSet(taken', From)
  BY <1>5, <1>6, <1>7, <1>8
<1> QED
  BY <1>9 DEF TicksSince, After, From

(* An access of the application's call, and a store of the controller's.   *)
LEMMA Accessed ==
  ASSUME TypeOK, CallsInv, NEW a, AppAccess(a)
  PROVE  /\ app.call \in {"addTick", "setTickStartTime"} /\ a \in app.todo
         /\ app'.todo = app.todo \ {a}
         /\ app.todo = {a} => app'.call = "none"
         /\ app.todo # {a} =>
              app'.call = app.call /\ app'.now = app.now /\ app'.n = app.n /\ app'.v = app.v
         /\ UNCHANGED <<clock, ctl, window, added, taken, raced>>
BY DEF AppAccess, AppIdle, TypeOK, Calls, CallsInv, history

LEMMA Stored ==
  ASSUME TypeOK, CallsInv, NEW a, NEW loads, CtlStores(a, loads)
  PROVE  /\ ctl'.copy = ctl.copy /\ ctl'.busy = ctl.busy /\ ctl.busy
         /\ ctl'.load = ctl.load /\ ctl'.store = ctl.store \ {a} /\ a \in ctl.store
         /\ ctl.load \cap loads = {}
         /\ UNCHANGED <<clock, app, window, added, taken, raced>>
BY DEF CtlStores, TypeOK, Reads, CallsInv, history

(* No tick is later than the end of the current period, but for one whose  *)
(* addTick has still to store it; autosleep counts from that end.          *)
LEMMA EndNext ==
  ASSUME TypeOK, CallsInv, TimesInv, EndInv, HistoryInv, [Next]_vars,
         app.call \in {"addTick", "setTickStartTime"} => ~ctl.busy
  PROVE  EndInv'
<1> USE TimesAreNat
<1>a. ASSUME UNCHANGED <<taken, app>>, curr'.end = curr.end,
             ctl'.busy => "end" \in ctl'.load \/ ctl'.copy.end = curr.end
      PROVE  EndInv'
  BY <1>a DEF EndInv
<1>b. ASSUME UNCHANGED <<taken, ctl>>, curr'.end = curr.end, app'.call # "autosleep",
             app.call = "addTick" /\ "end" \in app.todo =>
               app'.call = "addTick" /\ "end" \in app'.todo /\ app'.now = app.now
      PROVE  EndInv'
  BY <1>b DEF EndInv
<1>1. CASE Tick
  BY <1>1, <1>a DEF Tick, history, EndInv
<1>2. CASE setTickStartTime
  BY <1>2, <1>b DEF setTickStartTime, AppCalls, history
<1>3. CASE StoreTotal
  <2>1. AppAccess("total") /\ curr' = curr /\ app.call = "setTickStartTime"
    BY <1>3 DEF StoreTotal
  <2> QED
    BY <1>b, <2>1, Accessed
<1>4. ASSUME NEW n \in TickCounts, addTick(n)
      PROVE  EndInv'
  <2>1. /\ app.call = "none" /\ app'.call = "addTick" /\ "end" \in app'.todo /\ app'.now = clock
        /\ UNCHANGED <<curr, ctl>> /\ taken' = [taken EXCEPT ![clock] = @ + n]
    BY <1>4 DEF addTick, AppCalls
  <2>2. \A t \in Time : t # clock => taken'[t] = taken[t]
    BY <2>1 DEF TypeOK
  <2> QED
    BY <2>1, <2>2 DEF EndInv
<1>5. CASE LoadValue
  <2>1. /\ app'.call = app.call /\ app'.now = app.now /\ app'.todo = app.todo \ {"load"}
        /\ app.call = "addTick"
        /\ UNCHANGED <<curr, ctl, taken>>
    BY <1>5 DEF LoadValue, TypeOK, Calls, CallsInv, history
  <2> QED
    BY <1>b, <2>1
<1>6. CASE StoreValue
  <2>1. AppAccess("value") /\ curr'.end = curr.end
    BY <1>6 DEF StoreValue, TypeOK, TicksRecord
  <2>2. UNCHANGED <<taken, ctl>> /\ app'.call # "autosleep"
    BY <2>1, Accessed
  <2>3. app.call = "addTick" /\ "end" \in app.todo =>
          app'.call = "addTick" /\ "end" \in app'.todo /\ app'.now = app.now
    BY <2>1, Accessed
  <2> QED
    BY <1>b, <2>1, <2>2, <2>3
<1>7. ASSUME NEW f \in {"start", "end"}, StoreTime(f)
      PROVE  EndInv'
  <2>1. AppAccess(f) /\ curr'.end = IF f = "end" THEN app.now ELSE curr.end
    BY <1>7, StartOrEnd DEF StoreTime
  <2>2. UNCHANGED <<taken, added, ctl>> /\ ~ctl.busy /\ app'.call # "autosleep"
    BY <2>1, Accessed
  <2>3. CASE app.call = "addTick"
    <3>1. f = "end"
      BY <2>1, <2>3 DEF AppAccess, CallsInv
    <3>2. curr.end <= app.now
      BY <2>3 DEF TimesInv, NoneAfter
    <3>3. \A t \in Time : taken[t] > 0 => t <= app.now
      BY <3>2, TicksAssumption DEF EndInv, Time
    <3> QED
      BY <2>1, <2>2, <3>1, <3>3 DEF EndInv
  <2>4. CASE app.call = "setTickStartTime"
    <3>1. \A t \in Time : taken'[t] = 0
      BY <2>2, <2>4 DEF HistoryInv
    <3> QED
      BY <2>2, <3>1 DEF EndInv
  <2> QED
    BY <2>1, <2>3, <2>4, Accessed
<1>8. CASE autosleep
  <2>1. app' = [AppIdle EXCEPT !.call = "autosleep", !.now = curr.end + RefPeriod]
    BY <1>8 DEF autosleep
  <2>2. app'.now = curr.end + RefPeriod
    BY <2>1 DEF AppIdle
  <2>3. app.call = "none" /\ UNCHANGED <<curr, ctl, taken>>
    BY <1>8 DEF autosleep, history
  <2> QED
    BY <2>2, <2>3 DEF EndInv
<1>9. CASE Wake
  <2>1. app.call = "autosleep" /\ app'.call = "none" /\ UNCHANGED <<curr, ctl, taken>>
    BY <1>9 DEF Wake, AppIdle, history
  <2> QED
    BY <1>b, <2>1
<1>10. CASE ReadTicks
  <2>1. ctl'.load = Fields /\ UNCHANGED <<app, curr, taken>>
    BY <1>10 DEF ReadTicks, CtlIdle, history
  <2> QED
    BY <1>a, <2>1 DEF Fields
<1>11. ASSUME NEW f \in Fields, CopyField(f)
       PROVE  EndInv'
  <2>1. UNCHANGED <<app, curr, taken>>
    BY <1>11 DEF CopyField, history
  <2>2. /\ ctl'.busy = ctl.busy /\ ctl'.load = ctl.load \ {f}
        /\ ctl'.copy.end = IF f = "end" THEN curr.end ELSE ctl.copy.end
    BY <1>11, CopiedFields
  <2> QED
    BY <1>a, <2>1, <2>2 DEF EndInv
<1>12. CASE Accumulate
  <2>1. CtlStores("total", {"value", "end"}) /\ curr' = curr
    BY <1>12 DEF Accumulate
  <2> QED
    BY <1>a, <2>1, Stored DEF EndInv
<1>13. CASE ResetValue
  <2>1. CtlStores("value", {"value"}) /\ curr'.end = curr.end
    BY <1>13 DEF ResetValue, TypeOK, TicksRecord
  <2> QED
    BY <1>a, <2>1, Stored DEF EndInv
<1>14. ASSUME NEW f \in {"start", "end"}, ResetTime(f)
       PROVE  EndInv'
  <2>1. /\ CtlStores(f, {f, "end"})
        /\ curr'.end = IF f = "end" THEN ctl.copy.end ELSE curr.end
    BY <1>14, StartOrEnd DEF ResetTime
  <2>2. ctl.busy /\ "end" \notin ctl.load
    BY <2>1, Stored
  <2>3. curr'.end = curr.end
    BY <2>1, <2>2 DEF EndInv
  <2> QED
    BY <1>a, <2>1, <2>3, Stored DEF EndInv
<1>15. CASE ReadTicksReturns
  <2>1. ~ctl'.busy /\ UNCHANGED <<app, curr, taken>>
    BY <1>15 DEF ReadTicksReturns, CtlIdle, history
  <2> QED
    BY <1>a, <2>1
<1>16. CASE lock \/ unlock
  BY <1>16, <1>a DEF lock, unlock, LockCall, history, EndInv
<1>17. CASE UNCHANGED vars
  BY <1>17, <1>a DEF vars, history, EndInv
<1> QED
  BY <1>1, <1>2, <1>3, <1>4, <1>5, <1>6, <1>7, <1>8, <1>9, <1>10, <1>11, <1>12, <1>13,
     <1>14, <1>15, <1>16, <1>17 DEF Next

(* readTicks appends one period and drops at most the oldest one.          *)
LEMMA WindowTicksPushed ==
  ASSUME TypeOK, NEW new \in Seq(TicksRecord), NEW d \in {0, 1}, NEW ticks \in TicksRecord,
         d <= Len(window), Len(new) = Len(window) - d + 1, new[Len(window) - d + 1] = ticks,
         \A i \in 1 .. Len(window) - d : new[i] = window[i + d],
         NEW i \in 1 .. Len(new)
  PROVE  SumFunctionOnSet([k \in i .. Len(new) |-> new[k].value], i .. Len(new))
           = WindowTicks(i + d) + ticks.value
<1> DEFINE f == [k \in i .. Len(new) |-> new[k].value]
           g == [k \in i + d .. Len(window) |-> window[k].value]
           n == Len(new)
<1>1. n \in Int /\ d \in Int /\ i \in Int /\ i <= n /\ n - 1 + d = Len(window)
  BY DEF TypeOK
<1>2. \A k \in i .. n : f[k] \in Int
  <2> TAKE k \in i .. n
  <2>1. new[k] \in TicksRecord
    OBVIOUS
  <2>2. new[k].value \in Nat
    BY <2>1 DEF TicksRecord
  <2> QED
    BY <2>2
<1>3. f[n] = ticks.value
  BY <1>1
<1>4. \A k \in i .. n - 1 : f[k] = g[k + d]
  <2> TAKE k \in i .. n - 1
  <2>1. k \in 1 .. Len(window) - d /\ k \in i .. Len(new) /\ k + d \in i + d .. Len(window)
    BY <1>1
  <2>2. f[k] = new[k].value /\ g[k + d] = window[k + d].value
    BY <2>1
  <2> QED
    BY <2>1, <2>2
<1>5. SumFunctionOnSet(g, i + d .. Len(window)) = WindowTicks(i + d)
  BY DEF WindowTicks
<1>6. SumFunctionOnSet(f, i .. n) = SumFunctionOnSet(g, i + d .. n - 1 + d) + f[n]
  <2> HIDE DEF f, g, n
  <2> QED
    BY <1>1, <1>2, <1>4, SumPushed
<1> QED
  BY <1>1, <1>3, <1>5, <1>6

(* readTicks returns: the period that ends joins the window, and the one   *)
(* that begins has no ticks yet.                                           *)
LEMMA CoverReturned ==
  ASSUME TypeOK, TypeOK', CallsInv, Accounting, PeriodsInv, CoverInv, EndInv', raced = {},
         ReadTicksReturns
  PROVE  CoverInv'
<1>1. /\ ctl.busy /\ ctl.load = {} /\ ctl.store = {} /\ ~ctl'.busy
      /\ window' = Pushed(ctl.copy)
      /\ UNCHANGED <<app, curr, added, taken, raced>>
  BY DEF ReadTicksReturns, CtlIdle, history
<1>2. app.call # "addTick" /\ app.call # "setTickStartTime"
  BY <1>1 DEF CallsInv
<1>3. ctl.copy \in TicksRecord /\ ctl.copy.value \in Nat /\ window' \in Seq(TicksRecord)
  BY DEF TypeOK, Reads, TicksRecord
<1>4. PICK d \in {0, 1} :
        /\ d <= Len(window)
        /\ Len(window') = Len(window) - d + 1
        /\ window'[Len(window) - d + 1] = ctl.copy
        /\ \A i \in 1 .. Len(window) - d : window'[i] = window[i + d]
  BY <1>1, <1>3, PushedElements
<1>5. \A i \in 1 .. Len(window') : WindowTicks(i)' = WindowTicks(i + d) + ctl.copy.value
  <2> TAKE i \in 1 .. Len(window')
  <2> DEFINE new == window'
  <2>1. new \in Seq(TicksRecord) /\ i \in 1 .. Len(new)
    BY <1>3
  <2>2. SumFunctionOnSet([k \in i .. Len(new) |-> new[k].value], i .. Len(new))
          = WindowTicks(i + d) + ctl.copy.value
    <3>1. /\ Len(new) = Len(window) - d + 1 /\ new[Len(window) - d + 1] = ctl.copy
          /\ \A j \in 1 .. Len(window) - d : new[j] = window[j + d]
      BY <1>4
    <3> HIDE DEF new
    <3> QED
      BY <1>3, <1>4, <2>1, <3>1, WindowTicksPushed
  <2> QED
    BY <2>2 DEF WindowTicks
<1>6. PeriodStart = ctl.copy.start /\ PeriodTicks = ctl.copy.value
  BY <1>1 DEF PeriodStart, PeriodTicks
<1>7. curr.value = 0 /\ PeriodTicks' = 0
  BY <1>1, <1>2 DEF Accounting, PeriodTicks, Pending
<1>8. PeriodStart' = curr.start /\ curr.start = ctl.copy.end /\ ctl.copy.end = curr.end
  BY <1>1 DEF PeriodStart, PeriodsInv, CopyInv, CoverInv, EndInv
<1>9. Len(window) \in Nat /\ Len(window') \in Nat /\ Len(window') # 0
  BY <1>4 DEF TypeOK
<1>10. HistoryInv'
  <2>1. ASSUME added = 0, NEW i \in 1 .. Len(window')
        PROVE  window'[i].value = 0
    <3>1. NoneYet /\ ctl.copy.value = 0
      BY <1>6, <2>1 DEF CoverInv, HistoryInv
    <3>2. i = Len(window) - d + 1 \/ (i \in 1 .. Len(window) - d /\ i + d \in 1 .. Len(window))
      BY <1>4, <1>9
    <3> QED
      BY <1>4, <3>1, <3>2 DEF NoneYet
  <2> QED
    BY <1>1, <1>2, <1>7, <2>1 DEF CoverInv, HistoryInv, NoneYet
<1>11. GapInv'
  BY <1>4, <1>8 DEF GapInv
<1>12. TicksSince(PeriodStart, PeriodTicks)'
  <2> DEFINE After == {t \in Time : t > curr.end}
             From == {t \in Time : t >= curr.end}
  <2>1. After \in SUBSET Time /\ From \in SUBSET Time
    OBVIOUS
  <2>2. SumFunctionOnSet(taken, From) \in Nat /\ IsFiniteSet(After)
    BY <2>1, TakenFinite
  <2>3. \A t \in After : taken[t] = 0
    <3>1. EndInv
      BY DEF CoverInv
    <3> SUFFICES ASSUME NEW t \in Time, t > curr.end PROVE taken[t] = 0
      OBVIOUS
    <3>2. ~(taken[t] > 0)
      BY <1>2, <3>1, TimesAreNat, TicksAssumption DEF EndInv, Time
    <3> QED
      BY <3>2 DEF TypeOK
  <2>4. SumFunctionOnSet(taken, After) = 0
    BY <2>2, <2>3, SumZero
  <2> QED
    BY <1>1, <1>7, <1>8, <2>2, <2>4 DEF TicksSince
<1>13. ASSUME NEW i \in 1 .. Len(window')
       PROVE  TicksSince(window[i].start, WindowTicks(i) + PeriodTicks)'
  <2>1. ASSUME WindowTicks(i + d) \in Nat,
               TicksSince(window'[i].start, WindowTicks(i + d) + ctl.copy.value)
        PROVE  TicksSince(window[i].start, WindowTicks(i) + PeriodTicks)'
    <3>1. WindowTicks(i)' + PeriodTicks' = WindowTicks(i + d) + ctl.copy.value
      BY <1>3, <1>5, <1>7, <2>1
    <3> QED
      BY <1>1, <2>1, <3>1 DEF TicksSince
  <2>2. CASE i = Len(window) - d + 1
    <3>1. i + d .. Len(window) = {}
      BY <1>9, <2>2
    <3>2. WindowTicks(i + d) = 0 /\ WindowTicks(i + d) + ctl.copy.value = ctl.copy.value
      BY <1>3, <3>1, SumEmpty DEF WindowTicks
    <3>3. TicksSince(ctl.copy.start, ctl.copy.value) /\ window'[i] = ctl.copy
      BY <1>4, <1>6, <2>2 DEF CoverInv
    <3> QED
      BY <2>1, <3>2, <3>3
  <2>3. CASE i # Len(window) - d + 1
    <3>1. i \in 1 .. Len(window) - d /\ i + d \in 1 .. Len(window)
      BY <1>4, <1>9, <2>3
    <3>2. TicksSince(window[i + d].start, WindowTicks(i + d) + ctl.copy.value)
      BY <1>6, <3>1 DEF CoverInv
    <3>3. WindowTicks(i + d) \in Nat
      BY <3>1, WindowTicksNat
    <3> QED
      BY <1>4, <2>1, <3>1, <3>2, <3>3
  <2> QED
    BY <2>2, <2>3
<1> QED
  BY <1>10, <1>11, <1>12, <1>13 DEF CoverInv

(* A tick is counted in every period that has begun.                       *)
LEMMA CoverTaken ==
  ASSUME TypeOK, CallsInv, TimesInv, PeriodsInv, CoverInv, EndInv', raced = {}, raced' = {},
         NEW n \in TickCounts, addTick(n)
  PROVE  CoverInv'
<1>1. /\ app.call = "none" /\ app'.call = "addTick" /\ "value" \in app'.todo /\ app'.n = n
      /\ UNCHANGED <<curr, ctl, window>> /\ ~ctl.busy
      /\ added' = added + n /\ taken' = [taken EXCEPT ![clock] = @ + n]
  BY DEF addTick, AppCalls
<1>2. n \in Nat \ {0} /\ added \in Nat /\ clock \in Time
  BY TicksAssumption DEF TypeOK
<1>3. /\ PeriodTicks \in Nat /\ PeriodStart \in Time /\ curr.value \in Nat
      /\ \A i \in 1 .. Len(window) :
           window[i].start \in Time /\ WindowTicks(i) \in Nat
  BY WindowTicksNat
<1>4. PeriodTicks' = PeriodTicks + n /\ PeriodStart' = PeriodStart /\ PeriodStart <= clock
  BY <1>1, <1>2, <1>3 DEF PeriodTicks, PeriodStart, Pending, TimesInv, NoneAfter
<1>5. \A i \in 1 .. Len(window) : window[i].start <= clock
  <2> TAKE i \in 1 .. Len(window)
  <2>1. window[i].start <= window[i].end /\ window[i].end <= clock
    BY DEF PeriodsInv, WindowInv, TimesInv, NoneAfter
  <2> QED
    BY <2>1, TimesAreNat
<1>6. HistoryInv'
  <2>1. taken'[clock] > 0
    BY <1>1, <1>2 DEF TypeOK
  <2> QED
    BY <1>1, <1>2, <2>1 DEF HistoryInv
<1>7. GapInv'
  <2>1. \A t \in Time : t < PeriodStart => taken'[t] = taken[t]
    BY <1>1, <1>2, <1>3, <1>4, TicksAssumption DEF TypeOK, Time
  <2> QED
    BY <1>1, <1>4, <2>1 DEF CoverInv, GapInv, NoneYet
<1>8. ASSUME NEW s \in Time, s <= clock, NEW v \in Nat, TicksSince(s, v)
      PROVE  TicksSince(s, v + n)'
  BY <1>1, <1>2, <1>8, SinceTaken
<1>9. TicksSince(PeriodStart, PeriodTicks)'
  <2>1. PICK s \in Time, v \in Nat : s = PeriodStart /\ v = PeriodTicks
    BY <1>3
  <2>2. TicksSince(s, v)
    BY <2>1 DEF CoverInv
  <2>3. TicksSince(s, v + n)'
    BY <1>4, <1>8, <2>1, <2>2
  <2>4. PeriodStart' = s /\ PeriodTicks' = v + n
    BY <1>4, <2>1
  <2> QED
    BY <2>3, <2>4 DEF TicksSince
<1>10. ASSUME NEW i \in 1 .. Len(window')
       PROVE  TicksSince(window[i].start, WindowTicks(i) + PeriodTicks)'
  <2>1. i \in 1 .. Len(window) /\ window'[i].start = window[i].start
    BY <1>1
  <2>2. WindowTicks(i)' = WindowTicks(i)
    BY <1>1 DEF WindowTicks
  <2>3. TicksSince(window[i].start, WindowTicks(i) + PeriodTicks)
    BY <2>1 DEF CoverInv
  <2>4. WindowTicks(i) + PeriodTicks \in Nat /\ window[i].start \in Time
    BY <1>3, <2>1
  <2>5. WindowTicks(i)' + PeriodTicks' = WindowTicks(i) + PeriodTicks + n
    BY <1>2, <1>3, <1>4, <2>1, <2>2
  <2> QED
    BY <1>5, <1>8, <2>1, <2>3, <2>4, <2>5 DEF TicksSince
<1> QED
  BY <1>6, <1>7, <1>9, <1>10 DEF CoverInv

(* The history of the calls that have overlapped only grows, and the other *)
(* invariants say what they say without a condition as long as it is empty.*)
LEMMA CoverNext ==
  /\ TypeOK /\ CallsInv /\ TimesInv /\ PeriodsInv /\ Accounting /\ CoverInv
  /\ TypeOK' /\ [Next]_vars
  => CoverInv'
<1> SUFFICES ASSUME TypeOK, CallsInv, TimesInv, PeriodsInv, Accounting, CoverInv,
                    TypeOK', [Next]_vars, raced' = {}
             PROVE  CoverInv'
  BY DEF CoverInv
<1>a. raced = {}
  BY DEF Next, vars, Tick, setTickStartTime, addTick, AppCalls, StoreTotal, AppAccess,
         LoadValue, StoreValue, StoreTime, autosleep, Wake, ReadTicks, CopyField,
         Accumulate, CtlStores, ResetValue, ResetTime, ReadTicksReturns, lock, unlock,
         LockCall
<1>b. app.call \in {"addTick", "setTickStartTime"} => ~ctl.busy
  BY <1>a DEF CallsInv
<1>c. EndInv /\ HistoryInv
  BY <1>a DEF CoverInv
<1>d. EndInv'
  BY <1>b, <1>c, EndNext
<1>e. ASSUME UNCHANGED <<taken, added, window>>,
             PeriodStart' = PeriodStart, PeriodTicks' = PeriodTicks,
             app'.call = "setTickStartTime" => added = 0
      PROVE  CoverInv'
  BY <1>a, <1>d, <1>e, CoverKept
<1>f. app.call = "setTickStartTime" => added = 0
  BY <1>c DEF HistoryInv
<1>1. CASE Tick
  <2>1. UNCHANGED <<app, curr, ctl, window, taken, added>>
    BY <1>1 DEF Tick, history
  <2> QED
    BY <1>e, <1>f, <2>1 DEF PeriodStart, PeriodTicks, Pending
<1>2. CASE setTickStartTime
  <2>1. /\ app.call = "none" /\ app'.call = "setTickStartTime" /\ added = 0
        /\ UNCHANGED <<curr, ctl, window, taken, added>>
    BY <1>2 DEF setTickStartTime, AppCalls, history
  <2> QED
    BY <1>e, <2>1 DEF PeriodStart, PeriodTicks, Pending
<1>3. CASE StoreTotal
  <2>1. AppAccess("total") /\ app.call = "setTickStartTime" /\ curr' = curr
    BY <1>3 DEF StoreTotal
  <2>2. UNCHANGED <<ctl, window, taken, added>> /\ app'.call # "addTick"
    BY <2>1, Accessed
  <2> QED
    BY <1>e, <1>f, <2>1, <2>2 DEF PeriodStart, PeriodTicks, Pending
<1>4. ASSUME NEW n \in TickCounts, addTick(n)
      PROVE  CoverInv'
  BY <1>4, <1>a, <1>d, CoverTaken
<1>5. CASE LoadValue
  <2>1. /\ app'.call = app.call /\ app'.n = app.n /\ app'.todo = app.todo \ {"load"}
        /\ UNCHANGED <<curr, ctl, window, taken, added>>
    BY <1>5 DEF LoadValue, TypeOK, Calls, history
  <2> QED
    BY <1>e, <1>f, <2>1 DEF PeriodStart, PeriodTicks, Pending
<1>6. CASE StoreValue
  <2>1. AppAccess("value") /\ "load" \notin app.todo
    BY <1>6 DEF StoreValue
  <2>2. curr'.value = app.v + app.n /\ curr'.start = curr.start
    BY <1>6 DEF StoreValue, TypeOK, TicksRecord
  <2>3. /\ app.call = "addTick" /\ "value" \in app.todo /\ "value" \notin app'.todo
        /\ UNCHANGED <<ctl, window, taken, added>>
    BY <2>1, Accessed DEF CallsInv
  <2>4. app.v = curr.value
    BY <1>a, <2>1, <2>3 DEF Accounting
  <2>5. app'.call # "setTickStartTime"
    BY <2>1, <2>3, Accessed
  <2>6. ~ctl.busy /\ ~ctl'.busy
    BY <1>b, <2>3
  <2>7. PeriodStart' = PeriodStart
    BY <2>2, <2>6 DEF PeriodStart
  <2>8. Pending = app.n /\ Pending' = 0
    BY <2>3 DEF Pending
  <2>9. PeriodTicks' = PeriodTicks
    BY <2>2, <2>4, <2>6, <2>8, WindowTicksNat DEF PeriodTicks
  <2> QED
    BY <1>e, <2>3, <2>5, <2>7, <2>9
<1>7. ASSUME NEW f \in {"start", "end"}, StoreTime(f)
      PROVE  CoverInv'
  <2>1. AppAccess(f) /\ curr'.start = IF f = "start" THEN app.now ELSE curr.start
    BY <1>7, StartOrEnd, TimesAreNat DEF StoreTime
  <2>2. curr'.value = curr.value
    BY <1>7 DEF StoreTime, TypeOK, TicksRecord
  <2>3. UNCHANGED <<ctl, window, taken, added>> /\ ~ctl.busy
    BY <1>b, <2>1, Accessed
  <2>4. Pending' = Pending
    BY <2>1, Accessed DEF Pending
  <2>5. PeriodTicks' = PeriodTicks
    BY <2>2, <2>3, <2>4 DEF PeriodTicks
  <2>6. CASE app.call = "addTick"
    <3>1. f # "start" /\ app'.call # "setTickStartTime"
      BY <2>1, <2>6, Accessed DEF CallsInv
    <3>2. PeriodStart' = PeriodStart
      BY <2>1, <2>3, <3>1 DEF PeriodStart
    <3> QED
      BY <1>e, <2>3, <2>5, <3>1, <3>2
  <2>7. CASE app.call = "setTickStartTime"
    <3>1. added' = 0
      BY <1>f, <2>3, <2>7
    <3>2. HistoryInv'
      BY <1>c, <2>3, <2>5, <3>1 DEF HistoryInv, NoneYet
    <3> QED
      BY <1>d, <3>1, <3>2, CoverBefore
  <2> QED
    BY <2>1, <2>6, <2>7, Accessed
<1>8. CASE autosleep \/ Wake
  <2>1. UNCHANGED <<curr, ctl, window, taken, added>>
    BY <1>8 DEF autosleep, Wake, history
  <2> QED
    BY <1>8, <1>e, <2>1, SleepCalls DEF PeriodStart, PeriodTicks, Pending
<1>9. CASE ReadTicks
  <2>1. /\ ctl'.load = Fields /\ UNCHANGED <<app, curr, window, taken, added>>
        /\ ~ctl.busy
    BY <1>9 DEF ReadTicks, CtlIdle, history
  <2> QED
    BY <1>e, <1>f, <2>1 DEF PeriodStart, PeriodTicks, Pending, Fields
<1>10. ASSUME NEW f \in Fields, CopyField(f)
       PROVE  CoverInv'
  <2>1. UNCHANGED <<app, curr, window, taken, added>> /\ f \in ctl.load /\ ctl.busy
    BY <1>10 DEF CopyField, CallsInv, history
  <2>2. /\ ctl'.busy = ctl.busy /\ ctl'.load = ctl.load \ {f}
        /\ ctl'.copy.start = IF f = "start" THEN curr.start ELSE ctl.copy.start
    BY <1>10, CopiedFields
  <2>3. ctl'.copy.value = IF f = "value" THEN curr.value ELSE ctl.copy.value
    <3>1. ctl'.copy = [ctl.copy EXCEPT ![f] = curr[f]]
      BY <1>10 DEF CopyField, TypeOK, Reads
    <3>2. f = "value" \/ f = "start" \/ f = "end"
      BY DEF Fields
    <3> QED
      BY <3>1, <3>2 DEF TypeOK, Reads, TicksRecord
  <2>4. Pending = 0 /\ Pending' = 0 /\ curr.value \in Nat
    BY <1>b, <2>1 DEF Pending, TypeOK, TicksRecord
  <2>5. PeriodStart' = PeriodStart
    BY <2>1, <2>2 DEF PeriodStart
  <2>6. PeriodTicks' = PeriodTicks
    BY <2>1, <2>2, <2>3, <2>4 DEF PeriodTicks
  <2> QED
    BY <1>e, <1>f, <2>1, <2>5, <2>6
<1>11. CASE Accumulate
  <2>1. CtlStores("total", {"value", "end"}) /\ curr' = curr
    BY <1>11 DEF Accumulate
  <2> QED
    BY <1>e, <1>f, <2>1, Stored DEF PeriodStart, PeriodTicks, Pending
<1>12. CASE ResetValue
  <2>1. CtlStores("value", {"value"}) /\ curr'.start = curr.start
    BY <1>12 DEF ResetValue, TypeOK, TicksRecord
  <2> QED
    BY <1>e, <1>f, <2>1, Stored DEF PeriodStart, PeriodTicks, Pending
<1>13. ASSUME NEW f \in {"start", "end"}, ResetTime(f)
       PROVE  CoverInv'
  <2>1. /\ CtlStores(f, {f, "end"}) /\ curr'.value = curr.value
        /\ curr'.start = IF f = "start" THEN ctl.copy.end ELSE curr.start
    BY <1>13, StartOrEnd, TimesAreNat DEF ResetTime, TypeOK, TicksRecord
  <2>2. /\ ctl.busy /\ ctl'.busy /\ ctl'.copy = ctl.copy /\ ctl'.load = ctl.load
        /\ f \notin ctl.load /\ UNCHANGED <<app, window, taken, added>>
    BY <2>1, Stored
  <2>3. PeriodStart' = PeriodStart /\ PeriodTicks' = PeriodTicks
    BY <2>1, <2>2 DEF PeriodStart, PeriodTicks, Pending
  <2> QED
    BY <1>e, <1>f, <2>2, <2>3
<1>14. CASE ReadTicksReturns
  BY <1>14, <1>a, <1>d, CoverReturned
<1>15. CASE lock \/ unlock
  <2>1. UNCHANGED <<app, curr, ctl, window, taken, added>>
    BY <1>15 DEF lock, unlock, LockCall, history
  <2> QED
    BY <1>e, <1>f, <2>1 DEF PeriodStart, PeriodTicks, Pending
<1>16. CASE UNCHANGED vars
  <2>1. UNCHANGED <<app, curr, ctl, window, taken, added>>
    BY <1>16 DEF vars, history
  <2> QED
    BY <1>e, <1>f, <2>1 DEF PeriodStart, PeriodTicks, Pending
<1> QED
  BY <1>1, <1>2, <1>3, <1>4, <1>5, <1>6, <1>7, <1>8, <1>9, <1>10, <1>11, <1>12, <1>13,
     <1>14, <1>15, <1>16 DEF Next

(* The ticks from s on, when those from e on are v, are those within s and *)
(* e and v, but for the instants s and e themselves.                       *)
LEMMA WithinSplit ==
  ASSUME TypeOK, NEW s \in Time, NEW e \in Time, s <= e, NEW v \in Nat, NEW p \in Nat,
         TicksSince(s, v + p), TicksSince(e, p)
  PROVE  /\ SumFunctionOnSet(taken, {t \in Time : s < t /\ t < e}) <= v
         /\ v <= SumFunctionOnSet(taken, {t \in Time : s <= t /\ t <= e})
<1> DEFINE Open == {t \in Time : s < t /\ t < e}
           Within == {t \in Time : s <= t /\ t <= e}
           After(x) == {t \in Time : t > x}
           From(x) == {t \in Time : t >= x}
<1>0. s \in Int /\ e \in Int /\ \A t \in Time : t \in Int
  BY TicksAssumption DEF Time
<1>1. /\ Open \in SUBSET Time /\ Within \in SUBSET Time
      /\ \A x \in Time : After(x) \in SUBSET Time /\ From(x) \in SUBSET Time
  OBVIOUS
<1>2. /\ s # e => After(s) = Open \cup From(e)
      /\ Open \cap From(e) = {}
      /\ From(s) = Within \cup After(e) /\ Within \cap After(e) = {}
      /\ s = e => Open = {}
  <2>1. s # e => After(s) = Open \cup From(e)
    BY <1>0, TicksAssumption DEF Time
  <2>2. From(s) = Within \cup After(e)
    BY <1>0, TicksAssumption DEF Time
  <2>3. Open \cap From(e) = {} /\ Within \cap After(e) = {} /\ (s = e => Open = {})
    BY <1>0, TicksAssumption DEF Time
  <2> QED
    BY <2>1, <2>2, <2>3
<1>3. /\ SumFunctionOnSet(taken, After(s)) <= v + p /\ v + p <= SumFunctionOnSet(taken, From(s))
      /\ SumFunctionOnSet(taken, After(e)) <= p /\ p <= SumFunctionOnSet(taken, From(e))
  BY DEF TicksSince
<1> HIDE DEF Open, Within, After, From
<1>4. ASSUME NEW S \in SUBSET Time, NEW T \in SUBSET Time, S \cap T = {}
      PROVE  /\ SumFunctionOnSet(taken, S) \in Nat /\ SumFunctionOnSet(taken, T) \in Nat
             /\ SumFunctionOnSet(taken, S \cup T)
                  = SumFunctionOnSet(taken, S) + SumFunctionOnSet(taken, T)
  <2>1. IsFiniteSet(S) /\ IsFiniteSet(T)
    BY TakenFinite
  <2>2. \A t \in S \cup T : taken[t] \in Int
    BY DEF TypeOK
  <2> QED
    BY <1>4, <2>1, <2>2, TakenFinite, SumDisjoint
<1>5. SumFunctionOnSet(taken, Open) <= v
  <2>1. CASE s = e
    <3>1. SumFunctionOnSet(taken, Open) = 0
      BY <1>2, <2>1, SumEmpty, Zenon
    <3> QED
      BY <3>1
  <2>2. CASE s # e
    <3>1. SumFunctionOnSet(taken, After(s)) = SumFunctionOnSet(taken, Open \cup From(e))
      BY <1>2, <2>2, Zenon
    <3>2. /\ SumFunctionOnSet(taken, Open) \in Nat /\ SumFunctionOnSet(taken, From(e)) \in Nat
          /\ SumFunctionOnSet(taken, Open \cup From(e))
               = SumFunctionOnSet(taken, Open) + SumFunctionOnSet(taken, From(e))
      BY <1>1, <1>2, <1>4
    <3> QED
      BY <1>3, <3>1, <3>2
  <2> QED
    BY <2>1, <2>2
<1>6. v <= SumFunctionOnSet(taken, Within)
  <2>1. SumFunctionOnSet(taken, From(s)) = SumFunctionOnSet(taken, Within \cup After(e))
    BY <1>2, Zenon
  <2>2. /\ SumFunctionOnSet(taken, Within) \in Nat /\ SumFunctionOnSet(taken, After(e)) \in Nat
        /\ SumFunctionOnSet(taken, Within \cup After(e))
             = SumFunctionOnSet(taken, Within) + SumFunctionOnSet(taken, After(e))
    BY <1>1, <1>2, <1>4
  <2> QED
    BY <1>3, <2>1, <2>2
<1> QED
  BY <1>5, <1>6 DEF Open, Within

(* The initial state satisfies the invariant.                              *)
LEMMA CoverInit ==
  Init => Accounting /\ CoverInv
<1> SUFFICES ASSUME Init
             PROVE  Accounting /\ CoverInv
  OBVIOUS
<1>1. /\ TypeOK /\ curr.value = 0 /\ total.value = 0 /\ app.call = "none" /\ app.todo = {}
      /\ ~ctl.busy /\ Len(window) = 0 /\ added = 0 /\ \A t \in Time : taken[t] = 0
      /\ window = <<>>
  BY TypeInit DEF Init, NoTicks, AppIdle, CtlIdle
<1>2. PeriodTicks = 0
  BY <1>1 DEF PeriodTicks, Pending
<1>3. EndInv /\ HistoryInv /\ GapInv
  BY <1>1, <1>2 DEF EndInv, HistoryInv, GapInv, NoneYet
<1>4. \A S \in SUBSET Time : SumFunctionOnSet(taken, S) = 0
  <2> TAKE S \in SUBSET Time
  <2>1. IsFiniteSet(S)
    BY <1>1, TakenFinite
  <2> QED
    BY <1>1, <2>1, SumZero
<1>5. TicksSince(PeriodStart, PeriodTicks)
  BY <1>2, <1>4 DEF TicksSince
<1> QED
  BY <1>1, <1>3, <1>5 DEF Accounting, Pending, CoverInv

(* The count holds in every state: from the start of each period of the    *)
(* window, and of the current one, on, no tick is missing and none is      *)
(* counted twice.                                                          *)
THEOREM Counted == Spec => []CoverInv
BY PeriodsInit, CoverInit, TypeNext, CallsNext, TimesNext, PeriodsNext, AccountingNext,
   CoverNext, PTL DEF Spec

(* A window reports all the ticks between its timestamps and none outside, *)
(* as long as no call of one side overlapped a call of the other.  The     *)
(* inductive invariant counts, from the start of every period, the ticks   *)
(* that have been taken since: those of the periods from there on and of   *)
(* the current one.                                                        *)
THEOREM Covered == Spec => []WindowCovers
<1>1. TypeOK /\ CallsInv /\ PeriodsInv /\ CoverInv => WindowCovers
  <2> SUFFICES ASSUME TypeOK, PeriodsInv, CoverInv, ~ctl.busy, window # <<>>, raced = {},
                      NEW w \in 1 .. TicksSWMaxSize, NEW ticks \in getWindowTicks(w)
               PROVE  Covers(ticks)
    BY DEF WindowCovers
  <2>1. WindowInv /\ WindowBehind
    BY DEF PeriodsInv
  <2>2. PICK i \in 1 .. Len(window) :
          /\ ticks.value = WindowTicks(i)
          /\ ticks.start = window[i].start /\ ticks.end = window[Len(window)].end
          /\ window[i].start <= window[Len(window)].end
    BY <2>1, WindowSpan
  <2>3. Len(window) \in 1 .. Len(window)
    BY DEF TypeOK
  <2>4. /\ ticks.start \in Time /\ ticks.end \in Time /\ ticks.start <= ticks.end
        /\ ticks.value \in Nat /\ PeriodTicks \in Nat /\ PeriodStart \in Time
    BY <2>2, <2>3, WindowTicksNat
  <2> DEFINE Open == {t \in Time : ticks.start < t /\ t < ticks.end}
             Within == {t \in Time : ticks.start <= t /\ t <= ticks.end}
  <2>5. Within \ {ticks.start, ticks.end} = Open
    BY <2>4, TicksAssumption DEF Time
  <2>6. /\ SumFunctionOnSet(taken, Open) <= ticks.value
        /\ ticks.value <= SumFunctionOnSet(taken, Within)
    <3>1. CASE ticks.end = PeriodStart
      <4>1. TicksSince(ticks.start, ticks.value + PeriodTicks) /\ TicksSince(ticks.end, PeriodTicks)
        BY <2>2, <3>1 DEF CoverInv
      <4> QED
        BY <2>4, <4>1, WithinSplit
    <3>2. CASE NoneYet /\ \A t \in Time : t < PeriodStart => taken[t] = 0
      <4>1. ticks.value = 0
        <5>1. IsFiniteSet(i .. Len(window))
          BY <2>3, FS_Interval
        <5>2. \A k \in i .. Len(window) : window[k].value = 0
          BY <3>2 DEF NoneYet
        <5> QED
          BY <2>2, <5>1, <5>2, SumZero DEF WindowTicks
      <4>2. \A t \in Open : taken[t] = 0
        <5>1. CASE app.call = "setTickStartTime"
          BY <5>1 DEF CoverInv, HistoryInv
        <5>2. CASE app.call # "setTickStartTime"
          <6>1. ticks.end <= PeriodStart
            BY <2>1, <2>2, <2>3, <5>2 DEF WindowBehind, PeriodStart
          <6> QED
            BY <2>4, <3>2, <6>1, TicksAssumption DEF Time
        <5> QED
          BY <5>1, <5>2
      <4>3. Open \in SUBSET Time /\ Within \in SUBSET Time
        OBVIOUS
      <4>4. IsFiniteSet(Open) /\ SumFunctionOnSet(taken, Within) \in Nat
        BY <4>3, TakenFinite
      <4>5. SumFunctionOnSet(taken, Open) = 0
        BY <4>2, <4>4, SumZero
      <4> QED
        BY <4>1, <4>4, <4>5
    <3> QED
      BY <2>2, <3>1, <3>2 DEF CoverInv, GapInv
  <2> QED
    BY <2>5, <2>6, Zenon DEF Covers
<1> QED
  BY <1>1, PeriodsInit, CoverInit, TypeNext, CallsNext, TimesNext, PeriodsNext,
     AccountingNext, CoverNext, PTL DEF Spec

(* Among finitely many instants with a tick there is a last one.           *)
LEMMA LastTickExists ==
  ASSUME TypeOK, NEW first \in Time, taken[first] > 0
  PROVE  LastTick \in Time /\ taken[LastTick] > 0
<1> DEFINE IsLast(t) == taken[t] > 0 /\ \A s \in t + 1 .. MaxTime : taken[s] = 0
           N == MaxTime + 1
           NoneFrom == {n \in Nat : \A t \in Time : t > MaxTime - n => taken[t] = 0}
<1>1. Time = 0 .. MaxTime /\ MaxTime \in Nat /\ \A t \in Time : taken[t] \in Nat
  BY TicksAssumption DEF Time, TypeOK
<1>2. \E t \in Time : IsLast(t)
  <2> SUFFICES ASSUME \A t \in Time : ~IsLast(t)
               PROVE  FALSE
    OBVIOUS
  <2>1. 0 \in NoneFrom
    BY <1>1
  <2>2. ASSUME NEW n \in 0 .. N - 1, n \in NoneFrom
        PROVE  n + 1 \in NoneFrom
    <3>1. MaxTime - n \in Time
      BY <1>1
    <3>2. \A s \in MaxTime - n + 1 .. MaxTime : taken[s] = 0
      BY <1>1, <2>2
    <3>3. taken[MaxTime - n] = 0
      BY <1>1, <3>1, <3>2
    <3>4. \A t \in Time : t > MaxTime - (n + 1) => t > MaxTime - n \/ t = MaxTime - n
      BY <1>1
    <3> QED
      BY <1>1, <2>2, <3>3, <3>4
  <2>3. MaxTime + 1 \in NoneFrom
    <3>1. N \in Nat /\ N \in 0 .. N /\ N = MaxTime + 1
      BY <1>1
    <3> HIDE DEF NoneFrom, N
    <3>2. 0 .. N \subseteq NoneFrom
      BY <2>1, <2>2, <3>1, BoundedInduction
    <3> QED
      BY <3>1, <3>2
  <2>4. taken[first] = 0
    BY <1>1, <2>3
  <2> QED
    BY <2>4
<1>3. LastTick = CHOOSE t \in Time : IsLast(t)
  BY DEF LastTick
<1> HIDE DEF IsLast
<1>4. LastTick \in Time /\ IsLast(LastTick)
  BY <1>2, <1>3
<1> QED
  BY <1>4 DEF IsLast

(* When its last addTick was one of a single tick, the application's       *)
(* autosleep returns no earlier than RefPeriod after that tick, unless a   *)
(* call of the client has overlapped a getCurrTicks.  The end of the     *)
(* current period, which autosleep counts from, is then never older than   *)
(* the last tick.                                                          *)
THEOREM Paced == Spec => SleepPaced
<1>1. TypeOK /\ CoverInv => (Wake /\ reported = 1 /\ raced = {} => clock >= LastTick + RefPeriod)
  <2> SUFFICES ASSUME TypeOK, CoverInv, Wake, reported = 1, raced = {}
               PROVE  clock >= LastTick + RefPeriod
    OBVIOUS
  <2>1. EndInv /\ HistoryInv
    BY DEF CoverInv
  <2>2. LastTick \in Time /\ taken[LastTick] > 0
    <3>1. added > 0
      BY DEF TypeOK
    <3> QED
      BY <2>1, <3>1, LastTickExists DEF HistoryInv
  <2>3. app.call = "autosleep" /\ clock >= app.now
    BY DEF Wake
  <2>4. LastTick <= curr.end /\ app.now = curr.end + RefPeriod
    BY <2>1, <2>2, <2>3 DEF EndInv
  <2> QED
    BY <2>2, <2>3, <2>4, TimesAreNat, TicksAssumption DEF Time
<1>2. TypeOK /\ CoverInv /\ [Next]_vars
        => [Wake /\ reported = 1 /\ raced = {} => clock >= LastTick + RefPeriod]_vars
  BY <1>1
<1> QED
  BY <1>2, CoverInit, PeriodsInit, TypeNext, CallsNext, TimesNext, PeriodsNext,
     AccountingNext, CoverNext, PTL DEF Spec, SleepPaced
=============================================================================
