--------------------------- MODULE HealthSocProofs ---------------------------
(***************************************************************************)
(* The battery filter keeps its invariants, for every scale of levels,     *)
(* voltages and periods.                                                   *)
(***************************************************************************)
EXTENDS HealthSoc, TLAPS

\* What healthd remembers to have told the kernel is what the kernel watches, once
\* it told it anything; after a restart it remembers nothing.
MonitorIsTold ==
    /\ told => voltage_monitor = flounder_monitor_voltage
    /\ ~told => flounder_monitor_voltage = 0

Inv == TypeOK /\ ZeroHasCause /\ MonitorIsTold /\ VoltageIsWatched

-----------------------------------------------------------------------------
\* The level as SocAdjust(p, ok) sees it before the update.
LastSoc(p) ==
    IF first_update_done THEN lasttime_soc
    ELSE IF p.level >= BATTERY_FULL THEN BATTERY_FULL - 1 ELSE p.level

\* What one update does to the level: it stays in range, rises by one at most
\* and not while discharging, falls in small steps at a normal voltage, gets
\* to 100 only with the status full and to 0 only with a cause.
LEMMA AdjustLevel ==
    ASSUME TypeOK, ZeroHasCause, NEW p \in Props, NEW ok \in SysinfoOk,
           SocAdjust(p, ok)
    PROVE  /\ lasttime_soc' \in Level
           /\ force_decrease' \in BOOLEAN
           /\ elapsed' \in Elapsed
           /\ first_update_done' = TRUE
           /\ lasttime_soc' <= LastSoc(p) + 1
           /\ p.status \in Discharging =>
                /\ lasttime_soc' <= LastSoc(p)
                /\ p.voltage >= BATTERY_CRITICAL_LOW_MV =>
                     lasttime_soc' >= LastSoc(p) - NORMAL_MAX_SOC_DEC
           /\ lasttime_soc' = BATTERY_FULL /\ lasttime_soc # BATTERY_FULL
                => p.status = "full"
           /\ lasttime_soc' = 0
                => cause \/ p.level = 0 \/ p.voltage < BATTERY_CRITICAL_LOW_MV
<1> DEFINE level == IF p.level >= BATTERY_FULL THEN BATTERY_FULL - 1 ELSE p.level
           last == LastSoc(p)
           seen == IF first_update_done THEN p ELSE [p EXCEPT !.level = level]
           soc == Soc(last, seen)
<1>0. /\ p.level \in Level /\ p.status \in Status /\ p.voltage \in Voltage
  BY DEF Props
<1>1. /\ p.level \in Level /\ p.status \in Status /\ p.voltage \in Nat
      /\ p.voltage \in Int
  <2>1. p.voltage \in Nat BY <1>0, VoltageAssumption
  <2> QED BY <1>0, <2>1
<1>2. /\ BATTERY_FULL \in Nat /\ BATTERY_FULL > 1
      /\ NORMAL_MAX_SOC_DEC \in Nat /\ CRITICAL_LOW_FORCE_SOC_DROP \in Nat
      /\ NORMAL_MAX_SOC_DEC > 0 /\ CRITICAL_LOW_FORCE_SOC_DROP > 0
      /\ BATTERY_CRITICAL_LOW_MV \in Nat /\ BATTERY_DEAD_MV \in Nat
      /\ UPDATE_PERIOD_MINIMUM_S \in Nat
      /\ BATTERY_DEAD_MV < BATTERY_CRITICAL_LOW_MV
  BY LevelAssumption, VoltageAssumption, StepAssumption
<1>3. lasttime_soc \in Level /\ first_update_done \in BOOLEAN /\ elapsed \in Elapsed
  BY DEF TypeOK
<1>4. level \in Level /\ level < BATTERY_FULL /\ (level = 0 => p.level = 0)
  BY <1>1, <1>2 DEF Level
<1>5. last \in Level /\ (~first_update_done => last = level)
  BY <1>3, <1>4 DEF LastSoc
<1>6. /\ seen.status = p.status
      /\ seen.level \in Level
      /\ seen.level = IF first_update_done THEN p.level ELSE level
  BY <1>1, <1>3, <1>4 DEF Props
<1>7. /\ soc \in Level
      /\ soc = BATTERY_FULL => p.status = "full" \/ last = BATTERY_FULL
      /\ soc = 0 => p.level = 0
  <2>1. CASE p.status = "full" BY <1>2, <1>6, <2>1 DEF Soc, Level
  <2>2. CASE p.status # "full"
    BY <1>1, <1>2, <1>4, <1>5, <1>6, <2>2 DEF Soc, Level
  <2> QED BY <2>1, <2>2
<1>8. elapsed' \in Elapsed /\ first_update_done' = TRUE
  <2>1. 0 \in Elapsed BY <1>2 DEF Elapsed
  <2> QED BY <1>3, <2>1
          DEF SocAdjust, Discharge, Critical, Charge, SetSoc, Keep
<1>9. last = 0 => cause \/ p.level = 0
  BY <1>3, <1>4, <1>5 DEF ZeroHasCause, LastSoc
<1>10. last = BATTERY_FULL => first_update_done /\ lasttime_soc = BATTERY_FULL
  BY <1>2, <1>3, <1>4, <1>5 DEF LastSoc, Level
<1>11. \/ /\ p.status \in Discharging /\ p.voltage >= BATTERY_CRITICAL_LOW_MV
          /\ \E e : Discharge(last, seen, e, ok)
       \/ /\ p.status \in Discharging /\ p.voltage < BATTERY_CRITICAL_LOW_MV
          /\ \/ lasttime_soc' = 0 /\ force_decrease' = force_decrease
             \/ \E e : Critical(last, e, ok)
       \/ /\ p.status \notin Discharging
          /\ Charge(last, seen, ok)
  <2>1. CASE p.status \in Discharging /\ p.voltage >= BATTERY_CRITICAL_LOW_MV
    BY <1>1, <1>2, <2>1 DEF SocAdjust, LastSoc
  <2>2. CASE p.status \in Discharging /\ p.voltage < BATTERY_CRITICAL_LOW_MV
    BY <1>1, <1>2, <2>2 DEF SocAdjust, LastSoc, SetSoc
  <2>3. CASE p.status \notin Discharging BY <2>3 DEF SocAdjust, LastSoc
  <2> QED BY <1>1, <1>2, <2>1, <2>2, <2>3
<1> HIDE DEF level, last, seen, soc
<1>12. CASE /\ p.status \in Discharging /\ p.voltage >= BATTERY_CRITICAL_LOW_MV
            /\ \E e : Discharge(last, seen, e, ok)
  <2>1. \/ lasttime_soc' = last
        \/ last - soc >= 0 /\ lasttime_soc' = last - Capped(last - soc)
    BY <1>12 DEF Discharge, Keep, SetSoc, soc
  <2>2. force_decrease' = FALSE BY <1>12 DEF Discharge
  <2>3. last \in 0 .. BATTERY_FULL /\ soc \in 0 .. BATTERY_FULL
    BY <1>5, <1>7 DEF Level
  <2>4. last - soc >= 0 => /\ last - Capped(last - soc) \in soc .. last
                           /\ last - Capped(last - soc) >= last - NORMAL_MAX_SOC_DEC
    BY <1>2, <2>3 DEF Capped
  <2>5. /\ lasttime_soc' \in Level
        /\ lasttime_soc' <= last
        /\ lasttime_soc' >= last - NORMAL_MAX_SOC_DEC
        /\ lasttime_soc' = last \/ lasttime_soc' >= soc
    BY <1>2, <2>1, <2>3, <2>4 DEF Level
  <2>6. lasttime_soc' = 0 => last = 0 \/ soc = 0
    BY <2>3, <2>5
  <2>7. lasttime_soc' = BATTERY_FULL => last = BATTERY_FULL
    BY <2>3, <2>5, <1>2
  <2>8. lasttime_soc' <= last + 1 BY <2>3, <2>5 DEF Level
  <2> QED BY <1>7, <1>8, <1>9, <1>10, <1>12, <2>2, <2>5, <2>6, <2>7, <2>8 DEF last
<1>13. CASE /\ p.status \in Discharging /\ p.voltage < BATTERY_CRITICAL_LOW_MV
            /\ \/ lasttime_soc' = 0 /\ force_decrease' = force_decrease
               \/ \E e : Critical(last, e, ok)
  <2>1. lasttime_soc' = 0 \/ lasttime_soc' = last \/ lasttime_soc' = ForcedDrop(last)
    BY <1>13 DEF Critical, Keep, SetSoc
  <2>2. force_decrease' \in BOOLEAN BY <1>13 DEF Critical, TypeOK
  <2>3. last \in 0 .. BATTERY_FULL BY <1>5 DEF Level
  <2>4. ForcedDrop(last) \in 0 .. last BY <1>2, <2>3 DEF ForcedDrop
  <2>5. lasttime_soc' \in Level /\ lasttime_soc' <= last
    BY <1>2, <2>1, <2>3, <2>4 DEF Level
  <2>6. lasttime_soc' = BATTERY_FULL => last = BATTERY_FULL
    BY <1>2, <2>3, <2>5
  <2>7. lasttime_soc' <= last + 1 BY <2>3, <2>5 DEF Level
  <2>8. ~(p.voltage >= BATTERY_CRITICAL_LOW_MV) BY <1>1, <1>2, <1>13
  <2> QED BY <1>8, <1>10, <1>13, <2>2, <2>5, <2>6, <2>7, <2>8 DEF last
<1>14. CASE p.status \notin Discharging /\ Charge(last, seen, ok)
  <2>1. lasttime_soc' = IF soc > last THEN last + 1 ELSE soc
    BY <1>14 DEF Charge, SetSoc, soc
  <2>2. last \in 0 .. BATTERY_FULL /\ soc \in 0 .. BATTERY_FULL
    BY <1>5, <1>7 DEF Level
  <2>3. lasttime_soc' \in Level /\ lasttime_soc' <= last + 1 /\ lasttime_soc' <= soc
    BY <1>2, <2>1, <2>2 DEF Level
  <2>4. lasttime_soc' = 0 => soc = 0 BY <2>1, <2>2
  <2>5. lasttime_soc' = BATTERY_FULL => soc = BATTERY_FULL
    BY <1>2, <2>2, <2>3
  <2>6. force_decrease' \in BOOLEAN BY <1>14 DEF Charge
  <2> QED BY <1>7, <1>8, <1>10, <1>14, <2>3, <2>4, <2>5, <2>6 DEF last
<1> QED BY <1>11, <1>12, <1>13, <1>14

-----------------------------------------------------------------------------
\* What update reports besides the level.
LEMMA UpdateKeepsInv ==
    ASSUME Inv, NEW p \in Props, NEW ok \in SysinfoOk, Update(p, ok)
    PROVE  Inv'
<1> DEFINE threshold == Threshold(status', lasttime_soc', p.voltage)
<1>1. /\ p.level \in Level /\ p.status \in Status /\ p.voltage \in Voltage
      /\ p.temp \in {"cold", "normal", "hot"}
  BY VoltageAssumption DEF Props
<1>2. p.voltage \in Int /\ BATTERY_DEAD_MV \in Int /\ BATTERY_CRITICAL_LOW_MV \in Int
      /\ BATTERY_DEAD_MV > 0 /\ BATTERY_CRITICAL_LOW_MV > 0
      /\ BATTERY_DEAD_MV < BATTERY_CRITICAL_LOW_MV
  <2>1. p.voltage \in Nat BY <1>1, VoltageAssumption
  <2> QED BY <2>1, VoltageAssumption
<1>3. BATTERY_FULL \in Int /\ BATTERY_FULL > 1 /\ BATTERY_LOW \in Int
      /\ BATTERY_LOW <= BATTERY_FULL
  BY LevelAssumption
<1>4. SocAdjust(p, ok) /\ TypeOK /\ ZeroHasCause BY DEF Update, Inv
<1>5. /\ lasttime_soc' \in Level /\ force_decrease' \in BOOLEAN
      /\ elapsed' \in Elapsed /\ first_update_done' = TRUE
      /\ lasttime_soc' = 0
           => cause \/ p.level = 0 \/ p.voltage < BATTERY_CRITICAL_LOW_MV
  BY <1>4, AdjustLevel
<1>6. lasttime_soc' \in Int BY <1>3, <1>5 DEF Level
<1>7. /\ health' = HealthCheck(lasttime_soc', p.temp)
      /\ status' = StatusCheck(lasttime_soc', p.status)
      /\ props' = p
      /\ cause' = (cause \/ p.level = 0 \/ p.voltage < BATTERY_CRITICAL_LOW_MV)
      /\ flounder_monitor_voltage' = threshold
      /\ voltage_monitor' = IF threshold # flounder_monitor_voltage
                              THEN threshold ELSE voltage_monitor
  BY DEF Update, VoltageMonitorCheck
<1>8. status' \in Status /\ status' # "unknown"
      /\ (status' = "full" => lasttime_soc' >= BATTERY_FULL)
  BY <1>1, <1>3, <1>6, <1>7 DEF StatusCheck, Status
<1>9. /\ health' \in {"good", "dead", "overheat", "cold"}
      /\ health' = "dead" <=> lasttime_soc' < BATTERY_LOW
  BY <1>1, <1>3, <1>6, <1>7 DEF HealthCheck
<1> DEFINE due == Due(status', lasttime_soc', p.voltage)
<1>10. \/ threshold \in due /\ \A t \in due : t <= threshold
       \/ threshold = 0 /\ due = {}
  BY <1>2, <1>6 DEF Threshold, Due
<1>a. \A t \in due : t \in {BATTERY_DEAD_MV, BATTERY_CRITICAL_LOW_MV} /\ t # 0
  BY <1>2 DEF Due
<1>b. told' = (told \/ due # {})
  BY DEF Update
<1> HIDE DEF threshold, due
<1>c. threshold \in {0, BATTERY_DEAD_MV, BATTERY_CRITICAL_LOW_MV}
  BY <1>10, <1>a
<1>d. told' => voltage_monitor' = threshold
  <2>1. CASE told
    <3>1. voltage_monitor = flounder_monitor_voltage
      BY <2>1 DEF Inv, MonitorIsTold
    <3> QED BY <1>7, <3>1
  <2>2. CASE ~told /\ due # {}
    <3>1. flounder_monitor_voltage = 0
      BY <2>2 DEF Inv, MonitorIsTold
    <3>2. threshold # 0
      BY <2>2, <1>10, <1>a
    <3> QED BY <1>7, <3>1, <3>2
  <2> QED BY <1>b, <2>1, <2>2
<1>e. ~told' => threshold = 0 /\ due = {} /\ voltage_monitor' = voltage_monitor
  <2> HAVE ~told'
  <2>1. ~told /\ due = {}
    BY <1>b
  <2>2. threshold = 0 /\ flounder_monitor_voltage = 0
    BY <2>1, <1>10 DEF Inv, MonitorIsTold
  <2> QED BY <2>1, <2>2, <1>7
<1>12. TypeOK'
  <2>1. cause' \in BOOLEAN
    <3>1. (cause \/ p.level = 0 \/ p.voltage < BATTERY_CRITICAL_LOW_MV) \in BOOLEAN
      OBVIOUS
    <3> QED BY <1>7, <3>1
  <2>2. told' \in BOOLEAN
    <3>1. (told \/ due # {}) \in BOOLEAN
      OBVIOUS
    <3> QED BY <1>b, <3>1
  <2>3. voltage_monitor' \in {0, BATTERY_DEAD_MV, BATTERY_CRITICAL_LOW_MV}
    BY <1>7, <1>c DEF Inv, TypeOK
  <2> QED BY <1>5, <1>7, <1>8, <1>9, <1>c, <2>1, <2>2, <2>3 DEF TypeOK
<1>13. ZeroHasCause' BY <1>5, <1>7 DEF ZeroHasCause
<1>14. MonitorIsTold'
  <2>1. flounder_monitor_voltage' = threshold BY <1>7
  <2> QED BY <2>1, <1>d, <1>e DEF MonitorIsTold
<1>15. VoltageIsWatched'
  <2>1. Due(status, lasttime_soc, props.voltage)' = due
    BY <1>7 DEF due, Due
  <2>2. \/ voltage_monitor' \in due /\ \A t \in due : t <= voltage_monitor'
        \/ due = {} /\ (voltage_monitor' = 0 \/ ~told')
    BY <1>10, <1>d, <1>e
  <2> QED BY <2>1, <2>2 DEF VoltageIsWatched
<1> QED BY <1>12, <1>13, <1>14, <1>15 DEF Inv

\* The invariant holds at the start and is kept by every step.
LEMMA InvHolds == Spec => []Inv
<1>1. Init => Inv
  <2> SUFFICES ASSUME Init PROVE Inv OBVIOUS
  <2>1. 0 \in Level BY LevelAssumption DEF Level
  <2>2. TypeOK BY <2>1 DEF Init, TypeOK, Status
  <2> QED BY <2>2 DEF Init, Inv, ZeroHasCause, MonitorIsTold,
                      VoltageIsWatched
<1>2. Inv /\ [Next]_vars => Inv'
  <2> SUFFICES ASSUME Inv, [Next]_vars PROVE Inv' OBVIOUS
  <2>1. CASE \E p \in Props, ok \in SysinfoOk : Update(p, ok)
    BY <2>1, UpdateKeepsInv
  <2>2. CASE Tick
    <3>1. elapsed' \in Elapsed
      <4>1. elapsed \in Elapsed /\ UPDATE_PERIOD_MINIMUM_S \in Nat
        BY StepAssumption DEF Inv, TypeOK
      <4> QED BY <2>2, <4>1 DEF Tick, Elapsed
    <3> QED BY <2>2, <3>1 DEF Tick, Inv, TypeOK, ZeroHasCause,
                              MonitorIsTold, VoltageIsWatched
  <2>3. CASE Restart
    <3>1. 0 \in Level BY LevelAssumption DEF Level
    <3>2. TypeOK' BY <2>3, <3>1 DEF Restart, Inv, TypeOK, Status
    <3> QED BY <2>3, <3>2 DEF Restart, Inv, ZeroHasCause,
                              MonitorIsTold, VoltageIsWatched
  <2>4. CASE UNCHANGED vars
    BY <2>4 DEF vars, Inv, TypeOK, ZeroHasCause, MonitorIsTold,
                VoltageIsWatched
  <2> QED BY <2>1, <2>2, <2>3, <2>4 DEF Next
<1> QED BY <1>1, <1>2, PTL DEF Spec

\* For every scale: the types, a level of 0 has a cause, and the kernel watches
\* the highest threshold that lies ahead, over restarts of healthd too, but for
\* what an earlier healthd left before one was due (see VoltageIsWatched).
THEOREM ReportIsSound ==
    Spec => [](TypeOK /\ ZeroHasCause /\ VoltageIsWatched)
<1>1. Inv => TypeOK /\ ZeroHasCause /\ VoltageIsWatched
  BY DEF Inv
<1> QED BY <1>1, InvHolds, PTL

\* For every scale: no report of an empty battery without one of its causes.
THEOREM ZeroNeedsCause == Spec => []ZeroHasCause
BY ReportIsSound, PTL

\* For every scale: the level moves in small steps (see MovesSlowly).
THEOREM LevelMovesSlowly == Spec => MovesSlowly
<1> DEFINE A ==
      first_update_done /\ first_update_done' =>
         /\ lasttime_soc' <= lasttime_soc + 1
         /\ props'.status \in Discharging =>
              /\ lasttime_soc' <= lasttime_soc
              /\ props'.voltage >= BATTERY_CRITICAL_LOW_MV =>
                   lasttime_soc' >= lasttime_soc - NORMAL_MAX_SOC_DEC
<1>1. Inv /\ [Next]_vars => [A]_vars
  <2> SUFFICES ASSUME Inv, Next PROVE A BY DEF A
  <2>1. CASE \E p \in Props, ok \in SysinfoOk : Update(p, ok)
    <3>1. PICK p \in Props, ok \in SysinfoOk : Update(p, ok) BY <2>1
    <3>2. SocAdjust(p, ok) /\ TypeOK /\ ZeroHasCause /\ props' = p
      BY <3>1 DEF Update, Inv
    <3>3. first_update_done => LastSoc(p) = lasttime_soc BY DEF LastSoc
    <3> QED BY <3>2, <3>3, AdjustLevel
  <2>2. CASE Tick
    <3>1. lasttime_soc \in Int /\ NORMAL_MAX_SOC_DEC \in Nat
      BY LevelAssumption, StepAssumption DEF Inv, TypeOK, Level
    <3> QED BY <2>2, <3>1 DEF Tick
  <2>3. CASE Restart BY <2>3 DEF Restart
  <2> QED BY <2>1, <2>2, <2>3 DEF Next
<1> QED BY <1>1, InvHolds, PTL DEF Spec, MovesSlowly, A
=============================================================================
