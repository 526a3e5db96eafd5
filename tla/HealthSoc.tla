------------------------------ MODULE HealthSoc ------------------------------
(***************************************************************************)
(* The battery filter of healthd (health/healthd-flounder.cpp): between    *)
(* the fuel gauge and the system it smooths the level, keeps status and    *)
(* health consistent with it, and arms the kernel's voltage monitor.       *)
(* healthd calls it at every poll and power supply event; it may be        *)
(* restarted, which clears its static variables but not the kernel's.      *)
(***************************************************************************)
EXTENDS Integers

CONSTANTS
    BATTERY_FULL, BATTERY_LOW,                  \* per cent
    BATTERY_CRITICAL_LOW_MV, BATTERY_DEAD_MV,   \* millivolts
    NORMAL_MAX_SOC_DEC, CRITICAL_LOW_FORCE_SOC_DROP,
    UPDATE_PERIOD_MINIMUM_S,
    Voltage,            \* the voltages the gauge reports
    Temperature,        \* and the temperatures: "cold", "normal", "hot", as
                        \* BATTERY_UNDERTEMP_ and _OVERTEMP_THRESHOLD divide them
    SysinfoFails        \* may sysinfo() fail?

ASSUME LevelAssumption ==
    /\ BATTERY_FULL \in Nat /\ BATTERY_LOW \in Nat
    /\ BATTERY_FULL > 1 /\ BATTERY_LOW <= BATTERY_FULL
ASSUME VoltageAssumption ==
    /\ BATTERY_DEAD_MV \in Nat \ {0} /\ BATTERY_CRITICAL_LOW_MV \in Nat \ {0}
    /\ BATTERY_DEAD_MV < BATTERY_CRITICAL_LOW_MV
    /\ Voltage \subseteq Nat
    /\ Temperature \subseteq {"cold", "normal", "hot"}
ASSUME StepAssumption ==
    /\ NORMAL_MAX_SOC_DEC \in Nat \ {0}
    /\ CRITICAL_LOW_FORCE_SOC_DROP \in Nat \ {0}
    /\ UPDATE_PERIOD_MINIMUM_S \in Nat
    /\ SysinfoFails \in BOOLEAN

Level == 0 .. BATTERY_FULL
Status == {"unknown", "charging", "discharging", "not_charging", "full"}
Discharging == {"discharging", "not_charging", "unknown"}

\* What the gauge reports, BatteryProperties before the filter.
Props == [level : Level, status : Status, voltage : Voltage, temp : Temperature]
NoProps == [level |-> 0, status |-> "unknown", voltage |-> 0, temp |-> "normal"]

\* The ways a call of sysinfo() ends.
SysinfoOk == {TRUE, ~SysinfoFails}

\* bound: a time since the last update beyond the period is one value
Elapsed == 0 .. UPDATE_PERIOD_MINIMUM_S + 1

VARIABLES
    first_update_done, lasttime_soc, force_decrease,
    flounder_monitor_voltage,
    elapsed,        \* uptime - last_update_time, in seconds
    status, health, \* as reported; the level reported is lasttime_soc
    voltage_monitor,\* the kernel's threshold
    props,          \* what the gauge reported last
    \* history, since healthd started
    cause,          \* an update had a reason to reach 0
    told            \* at an update a threshold was due

vars == <<first_update_done, lasttime_soc, force_decrease,
          flounder_monitor_voltage, elapsed, status, health, voltage_monitor,
          props, cause, told>>

Init ==
    /\ first_update_done = FALSE /\ lasttime_soc = 0 /\ force_decrease = FALSE
    /\ flounder_monitor_voltage = 0 /\ voltage_monitor = 0
    /\ elapsed \in Elapsed
    /\ status = "unknown" /\ health = "good"
    /\ props = NoProps
    /\ cause = FALSE /\ told = FALSE

-----------------------------------------------------------------------------
(* flounder_soc_adjust; last is lasttime_soc and e the time since the last   *)
(* update as the function sees them                                          *)

\* The level is taken over, or the last one is kept and last_update_time with
\* it.  When sysinfo() fails, uptime is last_update_time, which stays.
SetSoc(soc, ok) ==
    /\ lasttime_soc' = soc
    /\ elapsed' = IF ok THEN 0 ELSE elapsed

\* Fault: last_update_time is set also when the level is kept.
KeepAndStamp(last, ok) == SetSoc(last, ok)

Keep(last, ok) ==
    /\ lasttime_soc' = last
    /\ elapsed' = IF ok /\ ~first_update_done THEN 0 ELSE elapsed

\* The level aimed at.  100 is only for a gauge that says it is full.
Soc(last, p) ==
    IF p.status = "full" THEN BATTERY_FULL
    ELSE IF p.level >= BATTERY_FULL /\ last < BATTERY_FULL THEN BATTERY_FULL - 1
    ELSE p.level

TooEarly(e) == e > 0 /\ e <= UPDATE_PERIOD_MINIMUM_S

Capped(n) == IF n > NORMAL_MAX_SOC_DEC THEN NORMAL_MAX_SOC_DEC ELSE n

\* Fault: the level falls by the maximum whatever the gauge says.
DischargeBlindly(last, p, e, ok) ==
    /\ force_decrease' = FALSE
    /\ \/ TooEarly(e) /\ Keep(last, ok)
       \/ /\ ~TooEarly(e)
          /\ SetSoc(IF last <= NORMAL_MAX_SOC_DEC THEN 0
                                                  ELSE last - NORMAL_MAX_SOC_DEC, ok)

\* Fault: the decrease is not limited.
DischargeUncapped(last, p, e, ok) ==
    /\ force_decrease' = FALSE
    /\ \/ /\ last < Soc(last, p) \/ TooEarly(e)
          /\ Keep(last, ok)
       \/ /\ last >= Soc(last, p) /\ ~TooEarly(e)
          /\ SetSoc(Soc(last, p), ok)

\* Discharging at a normal voltage: never up, down by a little and not often.
Discharge(last, p, e, ok) ==
    /\ force_decrease' = FALSE
    /\ LET soc_decrease == last - Soc(last, p) IN
       \/ /\ soc_decrease < 0 \/ TooEarly(e)
          /\ Keep(last, ok)
       \/ /\ soc_decrease >= 0 /\ ~TooEarly(e)
          /\ SetSoc(last - Capped(soc_decrease), ok)

\* Fault: the level never falls below the forced drop.
ForcedDropStuck(last) ==
    IF last <= CRITICAL_LOW_FORCE_SOC_DROP THEN last
                                           ELSE last - CRITICAL_LOW_FORCE_SOC_DROP

ForcedDrop(last) ==
    IF last <= CRITICAL_LOW_FORCE_SOC_DROP THEN 0
                                           ELSE last - CRITICAL_LOW_FORCE_SOC_DROP

\* Discharging at a voltage near the end: down in large steps.
Critical(last, e, ok) ==
    \/ /\ force_decrease /\ TooEarly(e)
       /\ Keep(last, ok)
       /\ UNCHANGED force_decrease
    \/ /\ ~(force_decrease /\ TooEarly(e))
       /\ SetSoc(ForcedDrop(last), ok)
       /\ force_decrease' = TRUE

\* Fault: a level that is kept for charging is never raised.
ChargeStuck(last, p, ok) ==
    /\ force_decrease' = FALSE
    /\ SetSoc(IF Soc(last, p) > last THEN last ELSE Soc(last, p), ok)

\* Charging or full: up one by one, down at once.
Charge(last, p, ok) ==
    /\ force_decrease' = FALSE
    /\ SetSoc(IF Soc(last, p) > last THEN last + 1 ELSE Soc(last, p), ok)

\* The function.  ok: sysinfo() succeeds.  The first update after the start
\* takes the gauge's level, at most 99, for the last one.  (The limits of
\* batteryLevel in 190-193 are overwritten at the end.)
SocAdjust(p, ok) ==
    LET level == IF p.level >= BATTERY_FULL THEN BATTERY_FULL - 1 ELSE p.level
        last == IF first_update_done THEN lasttime_soc ELSE level
        seen == IF first_update_done THEN p ELSE [p EXCEPT !.level = level]
        e == IF first_update_done /\ ok THEN elapsed ELSE 0
    IN  /\ first_update_done' = TRUE
        /\ \/ /\ p.status \in Discharging
              /\ p.voltage >= BATTERY_CRITICAL_LOW_MV
              /\ Discharge(last, seen, e, ok)
           \/ /\ p.status \in Discharging
              /\ p.voltage < BATTERY_DEAD_MV
              /\ SetSoc(0, ok)
              /\ UNCHANGED force_decrease
           \/ /\ p.status \in Discharging
              /\ p.voltage >= BATTERY_DEAD_MV
              /\ p.voltage < BATTERY_CRITICAL_LOW_MV
              /\ Critical(last, e, ok)
           \/ /\ p.status \notin Discharging
              /\ Charge(last, seen, ok)

-----------------------------------------------------------------------------
(* The checks after it, on the adjusted level *)

HealthCheck(level, temp) ==
    IF level < BATTERY_LOW /\ level < BATTERY_FULL THEN "dead"
    ELSE IF temp = "hot" THEN "overheat"
    ELSE IF temp = "cold" THEN "cold"
    ELSE "good"

StatusCheck(level, s) ==
    IF s = "unknown" THEN "discharging"
    ELSE IF s = "full" /\ level < BATTERY_FULL THEN "charging"
    ELSE s

\* The threshold to watch next: the first one below the voltage.
Threshold(s, level, voltage) ==
    IF s \in {"charging", "full"} \/ level <= 0 THEN 0
    ELSE IF voltage > BATTERY_CRITICAL_LOW_MV THEN BATTERY_CRITICAL_LOW_MV
    ELSE IF voltage > BATTERY_DEAD_MV THEN BATTERY_DEAD_MV
    ELSE 0

\* Fault: a threshold below the last one is not written.
MonitorOnlyUp(threshold) ==
    /\ flounder_monitor_voltage' = threshold
    /\ voltage_monitor' = IF threshold > flounder_monitor_voltage
                            THEN threshold ELSE voltage_monitor

\* The kernel is told when the threshold is not the one it was told last.
VoltageMonitorCheck(threshold) ==
    /\ flounder_monitor_voltage' = threshold
    /\ voltage_monitor' = IF threshold # flounder_monitor_voltage
                            THEN threshold ELSE voltage_monitor

\* The thresholds that lie ahead of a battery that is not charged and not empty.
Due(s, level, voltage) ==
    {t \in {BATTERY_DEAD_MV, BATTERY_CRITICAL_LOW_MV} :
        s \notin {"charging", "full"} /\ level > 0 /\ t < voltage}

\* healthd_board_battery_update for the gauge's p.
Update(p, ok) ==
    /\ SocAdjust(p, ok)
    /\ health' = HealthCheck(lasttime_soc', p.temp)
    /\ status' = StatusCheck(lasttime_soc', p.status)
    /\ VoltageMonitorCheck(Threshold(status', lasttime_soc', p.voltage))
    /\ props' = p
    /\ cause' = (cause \/ p.level = 0 \/ p.voltage < BATTERY_CRITICAL_LOW_MV)
    /\ told' = (told \/ Due(status', lasttime_soc', p.voltage) # {})

Tick ==
    /\ elapsed <= UPDATE_PERIOD_MINIMUM_S
    /\ elapsed' = elapsed + 1
    /\ UNCHANGED <<first_update_done, lasttime_soc, force_decrease,
                   flounder_monitor_voltage, status, health, voltage_monitor,
                   props, cause, told>>

\* healthd is started again; last_update_time is 0, long ago.
Restart ==
    /\ first_update_done' = FALSE /\ lasttime_soc' = 0 /\ force_decrease' = FALSE
    /\ flounder_monitor_voltage' = 0
    /\ elapsed' \in {e \in Elapsed : e >= elapsed}
    /\ status' = "unknown" /\ health' = "good"
    /\ props' = NoProps /\ cause' = FALSE /\ told' = FALSE
    /\ UNCHANGED voltage_monitor

Next ==
    \/ \E p \in Props, ok \in SysinfoOk : Update(p, ok)
    \/ Tick
    \/ Restart

Spec == Init /\ [][Next]_vars

\* healthd polls, the clock runs, and healthd is not restarted for ever.
Fairness ==
    /\ WF_vars(props' \in Props /\ \E ok \in SysinfoOk : Update(props', ok))
    /\ WF_vars(Tick)
    /\ <>[][~Restart]_vars

FairSpec == Spec /\ Fairness

-----------------------------------------------------------------------------
\* The variables have values of their types; the level reported is a
\* percentage.
TypeOK ==
    /\ first_update_done \in BOOLEAN /\ force_decrease \in BOOLEAN
    /\ lasttime_soc \in Level
    /\ flounder_monitor_voltage \in {0, BATTERY_DEAD_MV, BATTERY_CRITICAL_LOW_MV}
    /\ voltage_monitor \in {0, BATTERY_DEAD_MV, BATTERY_CRITICAL_LOW_MV}
    /\ elapsed \in Elapsed
    /\ status \in Status
    /\ health \in {"good", "dead", "overheat", "cold"}
    /\ props \in Props \cup {NoProps}
    /\ cause \in BOOLEAN /\ told \in BOOLEAN

\* A level of 0, which makes the system shut down, has a cause: since healthd
\* started, the gauge said 0 or the voltage was critical (199-235).
ZeroHasCause == first_update_done /\ lasttime_soc = 0 => cause

\* The kernel watches the highest threshold that lies ahead of the battery and no
\* other, and none while it is charged, empty or below them all, whatever was
\* watched before and however often healthd was restarted (134-154).  The one
\* exception is the code's: until a threshold was due since healthd started, it
\* takes the kernel's for 0 and leaves one that an earlier healthd wrote.
VoltageIsWatched ==
    LET due == Due(status, lasttime_soc, props.voltage)
    IN  first_update_done =>
          \/ voltage_monitor \in due /\ \A t \in due : t <= voltage_monitor
          \/ due = {} /\ (voltage_monitor = 0 \/ ~told)

\* Between two updates the level rises by one at most, and only if the battery
\* is charged; it falls by two at most unless the voltage is critical or the
\* gauge corrects itself while charging (199-240).
MovesSlowly ==
    [][first_update_done /\ first_update_done' =>
         /\ lasttime_soc' <= lasttime_soc + 1
         /\ props'.status \in Discharging =>
              /\ lasttime_soc' <= lasttime_soc
              /\ props'.voltage >= BATTERY_CRITICAL_LOW_MV =>
                   lasttime_soc' >= lasttime_soc - NORMAL_MAX_SOC_DEC]_vars

\* A battery that stays at a critical voltage is reported empty in the end.
CriticalEndsAtZero ==
    <>[](/\ props.status \in Discharging
         /\ props.voltage < BATTERY_CRITICAL_LOW_MV)
      => <>(first_update_done /\ lasttime_soc = 0)

\* If the gauge stays at a level, what is reported comes to that level and stays
\* there, from below while charging; while discharging it comes down to it.
GaugeIsReached ==
    \A l \in 0 .. BATTERY_FULL - 1 :
        /\ <>[](props.level = l /\ props.status = "charging")
             => <>[](first_update_done /\ lasttime_soc = l)
        /\ <>[](/\ props.level = l /\ props.status = "discharging"
                /\ props.voltage >= BATTERY_CRITICAL_LOW_MV)
             => <>[](first_update_done /\ lasttime_soc <= l)
=============================================================================
