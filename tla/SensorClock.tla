----------------------------- MODULE SensorClock -----------------------------
(***************************************************************************)
(* The time stamps of the sensor HAL (libsensors/CwMcuSensor.cpp): events  *)
(* carry the time of the hub (MCU); readEvents() turns it into the time of *)
(* the CPU with an offset and a slope, which two threads estimate: one     *)
(* every few seconds, and the poll thread when the hub's time goes back.   *)
(*                                                                         *)
(* Both clocks run at the same rate.  A synchronisation reads the hub's    *)
(* and then the CPU's, any time apart, and what it read may be old by the  *)
(* time it is used.  The slope is a float: what it yields is rounded.  The *)
(* hub can be reset at any time: its clock then starts again, and while    *)
(* the reset lasts it reads as 0.                                          *)
(***************************************************************************)
EXTENDS Integers, Sequences

CONSTANTS
    Sensor,         \* the sensors
    MaxTime,        \* bound: the time
    MaxRuns,        \* bound: runs of the hub, from reset to reset
    QueueSize,      \* bound: events between the hub and readEvents()
    Rounding,       \* bound: what a product with the float slope is off by
    Memory,         \* what the members that nobody initialises can hold
    Poll, Periodic, \* the thread in readEvents(), the synchronisation thread
    NULL

Threads == {Poll, Periodic}

ASSUME ClockAssumption ==
    /\ MaxTime \in Nat /\ MaxTime >= 2 /\ MaxRuns \in Nat \ {0} /\ QueueSize \in Nat
    /\ Rounding \in Nat
    /\ Memory \subseteq Nat /\ Memory # {}
    /\ Poll # Periodic /\ NULL \notin Nat

VARIABLES
    \* the hub
    now,                \* getTimestamp(), the time of the CPU
    run,                \* the hub's run
    up,                 \* has it left reset?
    boot,               \* when its clock was 0
    events,             \* events on their way, oldest first
    \* CwMcuSensor
    time_slope, time_offset,
    last_mcu_sync_time, last_cpu_sync_time,
    offset_reset, last_mcu_timestamp, last_cpu_timestamp,
    \* the threads
    pc,                 \* where each is
    read,               \* [thread -> the two times it read, and the hub's run then]
    current,            \* the event readEvents() works on
    event_cpu_time,
    \* history
    last_run,           \* [sensor -> the run that its last stored event is of; or 0]
    synced,             \* is the estimate one of this run of the hub, and was nothing of
                        \* an earlier run on its way or stored when it was made?
    first               \* [sensor -> when the first event happened that was converted
                        \* since the last synchronisation, or since it was turned on;
                        \* or NULL]

hub      == <<now, run, up, boot, events>>
estimate == <<time_slope, time_offset, last_mcu_sync_time, last_cpu_sync_time>>
tables   == <<offset_reset, last_mcu_timestamp, last_cpu_timestamp>>
threads  == <<pc, read, current, event_cpu_time>>
history  == <<last_run, synced, first>>
vars     == <<hub, estimate, tables, threads, history>>

Slope == [cpu : Nat, mcu : Nat \ {0}]
One   == [cpu |-> 1, mcu |-> 1]
\* The quotient of a difference of the CPU's times that wrapped below 0.
Huge  == [cpu |-> -1, mcu |-> 1]

\* The hub started one unit after the CPU's clock.
Init ==
    /\ now = 2 /\ run = 1 /\ up = TRUE /\ boot = 1 /\ events = <<>>
    /\ time_slope = One /\ time_offset = 0
    /\ last_mcu_sync_time \in Memory /\ last_cpu_sync_time \in Memory
    /\ offset_reset = [s \in Sensor |-> TRUE]
    /\ last_mcu_timestamp = [s \in Sensor |-> 0]
    /\ last_cpu_timestamp = [s \in Sensor |-> 0]
    /\ pc = [t \in Threads |-> IF t = Poll THEN "event" ELSE "sync"]
    /\ read = [t \in Threads |-> NULL]
    /\ current = NULL /\ event_cpu_time = 0
    /\ last_run = [s \in Sensor |-> 0] /\ synced = FALSE
    /\ first = [s \in Sensor |-> NULL]

-----------------------------------------------------------------------------
(* The hub *)

HubTime == IF up THEN now - boot ELSE 0

Tick ==
    /\ now < MaxTime
    /\ now' = now + 1
    /\ UNCHANGED <<run, up, boot, events, estimate, tables, threads, history>>

HubEvent(s) ==
    /\ up /\ Len(events) < QueueSize /\ HubTime > 0
    /\ events' = Append(events, [sensor |-> s, mcu |-> HubTime, at |-> now, run |-> run])
    /\ UNCHANGED <<now, run, up, boot, estimate, tables, threads, history>>

HubReset ==
    /\ up /\ run < MaxRuns
    /\ up' = FALSE /\ run' = run + 1
    /\ synced' = FALSE
    /\ UNCHANGED <<now, boot, events, estimate, tables, threads, last_run, first>>

HubStarts ==
    /\ ~up
    /\ up' = TRUE /\ boot' = now
    /\ UNCHANGED <<now, run, events, estimate, tables, threads, history>>

-----------------------------------------------------------------------------
(* sync_time_thread_in_class() *)

Goto(t, label) == pc' = [pc EXCEPT ![t] = label]

\* Where a thread goes after the synchronisation.
AfterSync(t) == IF t = Poll THEN "convert" ELSE "sync"

\* The hub's time is read ...
ReadHub(t) ==
    /\ pc[t] = "sync"
    /\ read' = [read EXCEPT ![t] = [mcu |-> HubTime, cpu |-> 0, run |-> run]]
    /\ Goto(t, "read")
    /\ UNCHANGED <<hub, estimate, tables, current, event_cpu_time, history>>

\* ... and then the CPU's, without a lock.
ReadCpu(t) ==
    /\ pc[t] = "read"
    /\ read' = [read EXCEPT ![t] = [@ EXCEPT !.cpu = now]]
    /\ Goto(t, "apply")
    /\ UNCHANGED <<hub, estimate, tables, current, event_cpu_time, history>>

\* The hub's time cannot be read: nothing changes.
ReadFails(t) ==
    /\ pc[t] = "sync"
    /\ Goto(t, AfterSync(t))
    /\ UNCHANGED <<hub, estimate, tables, read, current, event_cpu_time, history>>

\* Is something of an earlier run of the hub still on its way, or stored?
Leftover ==
    \/ \E i \in 1 .. Len(events) : events[i].run # run
    \/ pc[Poll] # "event" /\ current.run # run
    \/ \E s \in Sensor : last_run[s] \notin {0, run}

\* The slope between the last synchronisation and one that read mcu and cpu.  The
\* quotient is exact here: its rounding is part of what Advanced is off by.
SlopeSince(mcu, cpu) ==
    IF cpu < last_cpu_sync_time THEN Huge
    ELSE [cpu |-> cpu - last_cpu_sync_time, mcu |-> mcu - last_mcu_sync_time]

\* The estimate is replaced, under sync_timestamp_algo_mutex; the table of
\* last_timestamp_mutex too if the hub is on reset.
ApplySync(t) ==
    LET mcu == read[t].mcu
        cpu == read[t].cpu
    IN  /\ pc[t] = "apply"
        /\ IF mcu = 0
             THEN /\ time_slope' = One
                  /\ last_mcu_timestamp' = [s \in Sensor |-> 0]
                  /\ last_cpu_timestamp' = [s \in Sensor |-> 0]
                  /\ last_run' = [s \in Sensor |-> 0]
                  /\ UNCHANGED time_offset
             ELSE /\ time_slope' = IF mcu <= last_mcu_sync_time \/ last_mcu_sync_time = 0
                                   THEN One ELSE SlopeSince(mcu, cpu)
                  /\ time_offset' = cpu - mcu
                  /\ UNCHANGED <<last_mcu_timestamp, last_cpu_timestamp, last_run>>
        /\ offset_reset' = [s \in Sensor |-> TRUE]
        /\ last_mcu_sync_time' = mcu /\ last_cpu_sync_time' = cpu
        /\ Goto(t, AfterSync(t))
        /\ synced' = (mcu # 0 /\ read[t].run = run /\ ~Leftover)
        /\ first' = [s \in Sensor |-> NULL]
        /\ read' = [read EXCEPT ![t] = NULL]
        /\ UNCHANGED <<hub, current, event_cpu_time>>

-----------------------------------------------------------------------------
(* readEvents() *)

\* An event is taken; if the hub's time went back, the clocks are synchronised.
TakeEvent ==
    /\ pc[Poll] = "event" /\ events # <<>>
    /\ current' = Head(events)
    /\ events' = Tail(events)
    /\ Goto(Poll, IF current'.mcu < last_mcu_timestamp[current'.sensor]
                  THEN "sync" ELSE "convert")
    /\ UNCHANGED <<now, run, up, boot, estimate, tables, read, event_cpu_time, history>>

\* C's conversion to int64_t drops the fraction.
Truncated(a, b) == IF a < 0 THEN -((-a) \div b) ELSE a \div b

\* What a difference of the hub's times can become.  The difference, the slope and
\* their product are rounded to floats, which keeps the sign.
Scaled(diff) ==
    LET exact == Truncated(diff * time_slope.cpu, time_slope.mcu)
    IN  {d \in exact - Rounding .. exact + Rounding :
            (diff >= 0 => d >= 0) /\ (diff <= 0 => d <= 0)}

\* The last stamp of s advanced by the difference of the hub's times.  Times are
\* unsigned: what is below 0, or beyond int64_t, is far in the future.
Advanced(s, mcu) ==
    LET diff == mcu - last_mcu_timestamp[s]
    IN  IF time_slope = Huge
          THEN {IF diff = 0 THEN last_cpu_timestamp[s] ELSE MaxTime + 1}
          ELSE {IF last_cpu_timestamp[s] + d < 0 THEN MaxTime + 1
                ELSE last_cpu_timestamp[s] + d : d \in Scaled(diff)}

\* Fault: an event that the new offset puts before the last one is stamped so.
ConvertOffset(s, mcu) ==
    IF offset_reset[s] THEN {mcu + time_offset} ELSE Advanced(s, mcu)

\* Fault: the offset of a new estimate is not used.
ConvertSlope(s, mcu) == Advanced(s, mcu)

\* The CPU's time of an event: by the offset if that is new, unless it would go
\* back; by the slope since the last event otherwise.
Converted(s, mcu) ==
    IF offset_reset[s] /\ mcu + time_offset > last_cpu_timestamp[s]
    THEN {mcu + time_offset}
    ELSE Advanced(s, mcu)

\* Under sync_timestamp_algo_mutex.
Convert ==
    LET s == current.sensor
    IN  /\ pc[Poll] = "convert"
        /\ event_cpu_time' \in Converted(s, current.mcu)
        /\ offset_reset' = [offset_reset EXCEPT ![s] = FALSE]
        /\ Goto(Poll, "store")
        /\ first' = IF first[s] = NULL THEN [first EXCEPT ![s] = current.at] ELSE first
        /\ UNCHANGED <<hub, estimate, last_mcu_timestamp, last_cpu_timestamp, read,
                       current, last_run, synced>>

\* No event lies in the future.
Stamp == IF now > event_cpu_time THEN event_cpu_time ELSE now

\* Under last_timestamp_mutex.
Store ==
    /\ pc[Poll] = "store"
    /\ last_mcu_timestamp' = [last_mcu_timestamp EXCEPT ![current.sensor] = current.mcu]
    /\ last_cpu_timestamp' = [last_cpu_timestamp EXCEPT ![current.sensor] = Stamp]
    /\ current' = NULL /\ event_cpu_time' = 0
    /\ Goto(Poll, "event")
    /\ last_run' = [last_run EXCEPT ![current.sensor] = current.run]
    /\ UNCHANGED <<hub, estimate, offset_reset, read, synced, first>>

\* setEnable(s, 1), under another mutex.
TurnOn(s) ==
    /\ offset_reset' = [offset_reset EXCEPT ![s] = TRUE]
    /\ first' = [first EXCEPT ![s] = NULL]
    /\ UNCHANGED <<hub, estimate, last_mcu_timestamp, last_cpu_timestamp, threads,
                   last_run, synced>>

-----------------------------------------------------------------------------
Hub == Tick \/ HubReset \/ HubStarts \/ \E s \in Sensor : HubEvent(s)

Synchronise(t) == ReadHub(t) \/ ReadCpu(t) \/ ReadFails(t) \/ ApplySync(t)

Next ==
    \/ Hub
    \/ \E t \in Threads : Synchronise(t)
    \/ TakeEvent \/ Convert \/ Store
    \/ \E s \in Sensor : TurnOn(s)

Spec == Init /\ [][Next]_vars

-----------------------------------------------------------------------------
Event   == [sensor : Sensor, mcu : Nat, at : Nat, run : Nat]
Reading == [mcu : Nat, cpu : Nat, run : Nat]

\* The variables have values of their types: no time below 0 is stored, and a
\* slope that was not computed from one divides by a difference above 0.
TypeOK ==
    /\ now \in 2 .. MaxTime /\ run \in 1 .. MaxRuns
    /\ up \in BOOLEAN /\ boot \in 0 .. now
    /\ events \in Seq(Event)
    /\ time_slope \in Slope \cup {Huge} /\ time_offset \in Int
    /\ last_mcu_sync_time \in Nat /\ last_cpu_sync_time \in Nat
    /\ offset_reset \in [Sensor -> BOOLEAN]
    /\ last_mcu_timestamp \in [Sensor -> Nat]
    /\ last_cpu_timestamp \in [Sensor -> 0 .. now]
    /\ pc \in [Threads -> {"event", "sync", "read", "apply", "convert", "store"}]
    /\ read \in [Threads -> Reading \cup {NULL}]
    /\ \A t \in Threads : pc[t] \in {"read", "apply"} => read[t] \in Reading
    /\ pc[Poll] # "event" => current \in Event
    /\ event_cpu_time \in Nat
    /\ last_run \in [Sensor -> Nat] /\ synced \in BOOLEAN
    /\ first \in [Sensor -> Nat \cup {NULL}]

\* While the hub is not reset a sensor's stamps never go back, whatever the
\* members held at first, whenever a thread replaces the estimate or the sensor
\* is turned on, and however old the times were that it was computed from.
StampsNeverGoBack ==
    [][run = 1 => \A s \in Sensor : last_cpu_timestamp'[s] >= last_cpu_timestamp[s]]_vars

\* Once the estimate comes from this run of the hub and nothing from before the
\* hub's reset is left on the way, no stamp lies before the first event of its
\* sensor converted since the last synchronisation, or since the sensor was turned
\* on: that event is stamped not before it happened, and the slope, however wrong,
\* takes none back behind it.  (That a later event is stamped not before itself does
\* not hold: the slope can be below 1, and its product is rounded.)
StampFollowsSync ==
    LET since == first[current.sensor]
    IN  pc[Poll] = "store" /\ synced /\ since # NULL => Stamp >= since
=============================================================================
