--------------------------- MODULE SensorClockProofs ---------------------------
(***************************************************************************)
(* Types, that stamps do not go back, and that they follow the last        *)
(* synchronisation, for any number of sensors, any time, any number of     *)
(* events on their way, any delay between two reads and any rounding.      *)
(*                                                                         *)
(* In the first run of the hub (Ordered) its times arrive in order, none   *)
(* is 0, and an estimate, however old, has a slope that is not negative:   *)
(* an event that is about to be stored has a time that is not before its   *)
(* sensor's last one.  In a later run (Runs, InOrder) what is left of      *)
(* earlier ones is known by its run, and the CPU's time was read after the *)
(* hub's; so an estimate of this run has an offset that is at least the    *)
(* distance of the clocks (Synced): the first event it converts is not     *)
(* stamped too early, and the slope takes no later one back behind it.     *)
(***************************************************************************)
EXTENDS SensorClock, SequenceTheorems, TLAPS

USE ClockAssumption

\* What the first run of the hub adds to the types.
Ordered ==
    run = 1 =>
        /\ up /\ boot = 1
        /\ \A t \in Threads : pc[t] \in {"read", "apply"} => read[t].mcu > 0
        /\ \A i \in 1 .. Len(events) :
              /\ events[i].mcu <= HubTime
              /\ \A s \in Sensor : last_mcu_timestamp[s] <= events[i].mcu
              /\ \A j \in 1 .. Len(events) : i <= j => events[i].mcu <= events[j].mcu
        /\ \A s \in Sensor : last_mcu_timestamp[s] <= HubTime
        /\ pc[Poll] # "event" =>
              /\ current.mcu <= HubTime
              /\ \A s \in Sensor : last_mcu_timestamp[s] <= current.mcu
              /\ \A i \in 1 .. Len(events) : current.mcu <= events[i].mcu
        /\ pc[Poll] = "store" =>
              event_cpu_time >= last_cpu_timestamp[current.sensor]

-----------------------------------------------------------------------------
(* The conversion *)

LEMMA TruncatedType ==
    ASSUME NEW a \in Int, NEW b \in Nat \ {0}
    PROVE  /\ Truncated(a, b) \in Int
           /\ a >= 0 => Truncated(a, b) >= 0
BY DEF Truncated

LEMMA ProductType ==
    ASSUME NEW a \in Int, NEW b \in Nat
    PROVE  a * b \in Int /\ (a >= 0 => a * b >= 0)
OBVIOUS

LEMMA LaterMinus ==
    ASSUME NEW a \in Nat, NEW b \in Nat, NEW c \in Nat, c <= a, a <= b
    PROVE  a - c \in Nat /\ b - c \in Nat /\ a - c <= b - c
OBVIOUS

\* Rounding keeps the sign of a difference, and 0.
LEMMA ScaledSign ==
    ASSUME TypeOK, time_slope # Huge, NEW diff \in Int, NEW d \in Scaled(diff)
    PROVE  d \in Int /\ (diff >= 0 => d >= 0)
<1>1. time_slope.cpu \in Nat /\ time_slope.mcu \in Nat \ {0}
  BY DEF TypeOK, Slope
<1>2. diff * time_slope.cpu \in Int
  BY <1>1, ProductType
<1>3. Truncated(diff * time_slope.cpu, time_slope.mcu) \in Int
  BY <1>1, <1>2, TruncatedType
<1> PICK exact \in Int : exact = Truncated(diff * time_slope.cpu, time_slope.mcu)
  BY <1>3
<1>4. /\ d \in exact - Rounding .. exact + Rounding
      /\ diff >= 0 => d >= 0
  BY DEF Scaled
<1> QED  BY <1>4

LEMMA TablesType ==
    ASSUME TypeOK, NEW s \in Sensor
    PROVE  /\ last_cpu_timestamp[s] \in Nat /\ last_mcu_timestamp[s] \in Nat
           /\ last_cpu_timestamp[s] <= MaxTime /\ time_offset \in Int
<1>1. now \in Nat /\ now <= MaxTime /\ last_cpu_timestamp[s] \in 0 .. now
  BY DEF TypeOK
<1>2. last_mcu_timestamp[s] \in Nat /\ time_offset \in Int
  BY DEF TypeOK
<1> QED  BY <1>1, <1>2

\* The last stamp is advanced to a time, and not back if the hub's time did not go back.
LEMMA AdvancedNotBefore ==
    ASSUME TypeOK, NEW s \in Sensor, NEW mcu \in Nat, NEW c \in Advanced(s, mcu)
    PROVE  /\ c \in Nat
           /\ last_mcu_timestamp[s] <= mcu => c >= last_cpu_timestamp[s]
<1>1. /\ last_cpu_timestamp[s] \in Nat /\ last_mcu_timestamp[s] \in Nat
      /\ last_cpu_timestamp[s] <= MaxTime /\ MaxTime + 1 \in Nat
  BY TablesType
<1>2. CASE time_slope = Huge
  <2>1. c = last_cpu_timestamp[s] \/ c = MaxTime + 1
    BY <1>2 DEF Advanced
  <2> QED  BY <1>1, <2>1
<1>3. CASE time_slope # Huge
  <2> PICK diff \in Int : diff = mcu - last_mcu_timestamp[s]
    BY <1>1
  <2>1. PICK d \in Scaled(diff) :
            c = IF last_cpu_timestamp[s] + d < 0 THEN MaxTime + 1
                ELSE last_cpu_timestamp[s] + d
    BY <1>3 DEF Advanced
  <2>2. d \in Int /\ (diff >= 0 => d >= 0)
    BY <1>3, ScaledSign
  <2>3. last_mcu_timestamp[s] <= mcu => diff >= 0
    BY <1>1
  <2> QED  BY <1>1, <2>1, <2>2, <2>3
<1> QED  BY <1>2, <1>3

\* The conversion gives a time, whatever the estimate.
LEMMA ConvertedType ==
    ASSUME TypeOK, NEW s \in Sensor, NEW mcu \in Nat, NEW c \in Converted(s, mcu)
    PROVE  c \in Nat
<1>1. /\ last_cpu_timestamp[s] \in Nat /\ time_offset \in Int
  BY TablesType
<1>2. c \in Advanced(s, mcu) => c \in Nat
  BY AdvancedNotBefore
<1>3. \/ c \in Advanced(s, mcu)
      \/ c = mcu + time_offset /\ mcu + time_offset > last_cpu_timestamp[s]
  BY DEF Converted
<1> QED  BY <1>1, <1>2, <1>3

\* An event that is not before the last one of its sensor is not stamped before it.
LEMMA ConvertedNotBefore ==
    ASSUME TypeOK, NEW s \in Sensor, NEW mcu \in Nat, last_mcu_timestamp[s] <= mcu,
           NEW c \in Converted(s, mcu)
    PROVE  c >= last_cpu_timestamp[s]
<1>1. /\ last_cpu_timestamp[s] \in Nat /\ time_offset \in Int
  BY TablesType
<1>2. c \in Advanced(s, mcu) => c >= last_cpu_timestamp[s]
  BY AdvancedNotBefore
<1>3. \/ c \in Advanced(s, mcu)
      \/ c = mcu + time_offset /\ mcu + time_offset > last_cpu_timestamp[s]
  BY DEF Converted
<1> QED  BY <1>1, <1>2, <1>3

-----------------------------------------------------------------------------
(* Types *)

LEMMA TypesInit == Init => TypeOK
<1> SUFFICES ASSUME Init PROVE TypeOK
  OBVIOUS
<1>1. time_slope \in Slope
  BY DEF Init, Slope, One
<1>2. up \in BOOLEAN /\ synced \in BOOLEAN
  BY DEF Init
<1> QED  BY <1>1, <1>2 DEF Init, TypeOK, Threads

LEMMA HubTimeType == TypeOK => HubTime \in Nat
BY DEF TypeOK, HubTime

\* A slope is computed from a difference of the hub's times above 0.
LEMMA SlopeType ==
    ASSUME TypeOK, NEW mcu \in Nat, NEW cpu \in Nat, mcu > last_mcu_sync_time
    PROVE  SlopeSince(mcu, cpu) \in Slope \cup {Huge}
<1>1. last_mcu_sync_time \in Nat /\ last_cpu_sync_time \in Nat
  BY DEF TypeOK
<1>2. mcu - last_mcu_sync_time \in Nat \ {0}
  BY <1>1
<1>3. cpu >= last_cpu_sync_time => cpu - last_cpu_sync_time \in Nat
  BY <1>1
<1> QED  BY <1>1, <1>2, <1>3 DEF SlopeSince, Slope

LEMMA TypesStep == TypeOK /\ [Next]_vars => TypeOK'
<1> SUFFICES ASSUME TypeOK, [Next]_vars PROVE TypeOK'
  OBVIOUS
<1> USE DEF hub, estimate, tables, threads, history, Goto
<1>p. /\ pc \in [Threads -> {"event", "sync", "read", "apply", "convert", "store"}]
      /\ Poll \in Threads /\ Threads = {Poll, Periodic}
      /\ now \in Nat /\ now <= MaxTime
      /\ \A s \in Sensor : last_cpu_timestamp[s] \in Nat /\ last_cpu_timestamp[s] <= now
  <2>1. now \in Nat /\ last_cpu_timestamp \in [Sensor -> 0 .. now]
    BY DEF TypeOK
  <2> QED  BY <2>1 DEF TypeOK, Threads
<1>1. CASE Tick
  <2>1. now' \in 2 .. MaxTime /\ boot \in 0 .. now'
    BY <1>1, <1>p DEF Tick, TypeOK
  <2>2. last_cpu_timestamp \in [Sensor -> 0 .. now']
    BY <1>1, <1>p DEF Tick, TypeOK
  <2> QED  BY <1>1, <2>1, <2>2 DEF Tick, TypeOK
<1>2. ASSUME NEW s \in Sensor, HubEvent(s)
      PROVE  TypeOK'
  <2>1. [sensor |-> s, mcu |-> HubTime, at |-> now, run |-> run] \in Event
    BY <1>p, HubTimeType DEF Event, TypeOK
  <2>2. events' \in Seq(Event)
    BY <1>2, <2>1 DEF HubEvent, TypeOK
  <2> QED  BY <1>2, <2>2 DEF HubEvent, TypeOK
<1>3. CASE HubReset
  <2>1. run \in Nat /\ run >= 1 /\ MaxRuns \in Nat
    BY DEF TypeOK
  <2>2. run' \in 1 .. MaxRuns
    BY <1>3, <2>1 DEF HubReset
  <2> QED  BY <1>3, <2>2 DEF HubReset, TypeOK
<1>4. CASE HubStarts
  BY <1>4, <1>p DEF HubStarts, TypeOK
<1>5. ASSUME NEW t \in Threads, ReadHub(t)
      PROVE  TypeOK'
  <2>1. [mcu |-> HubTime, cpu |-> 0, run |-> run] \in Reading
    BY <1>p, HubTimeType DEF Reading, TypeOK
  <2>2. /\ read' \in [Threads -> Reading \cup {NULL}]
        /\ \A u \in Threads : pc'[u] \in {"read", "apply"} => read'[u] \in Reading
    BY <1>5, <2>1, <1>p DEF ReadHub, TypeOK
  <2>3. /\ pc' \in [Threads -> {"event", "sync", "read", "apply", "convert", "store"}]
        /\ pc'[Poll] # "event" => pc[Poll] # "event"
    BY <1>5, <1>p DEF ReadHub
  <2> QED  BY <1>5, <2>2, <2>3, <1>p DEF ReadHub, TypeOK
<1>d. ASSUME NEW t \in Threads, ReadCpu(t)
      PROVE  TypeOK'
  <2>1. [read[t] EXCEPT !.cpu = now] \in Reading
    BY <1>d, <1>p DEF ReadCpu, Reading, TypeOK
  <2>2. /\ read' \in [Threads -> Reading \cup {NULL}]
        /\ \A u \in Threads : pc'[u] \in {"read", "apply"} => read'[u] \in Reading
    BY <1>d, <2>1, <1>p DEF ReadCpu, TypeOK
  <2>3. /\ pc' \in [Threads -> {"event", "sync", "read", "apply", "convert", "store"}]
        /\ pc'[Poll] # "event" => pc[Poll] # "event"
    BY <1>d, <1>p DEF ReadCpu
  <2> QED  BY <1>d, <2>2, <2>3, <1>p DEF ReadCpu, TypeOK
<1>6. ASSUME NEW t \in Threads, ReadFails(t)
      PROVE  TypeOK'
  <2>1. /\ pc' \in [Threads -> {"event", "sync", "read", "apply", "convert", "store"}]
        /\ pc'[Poll] # "event" => pc[Poll] # "event"
        /\ \A u \in Threads : pc'[u] \in {"read", "apply"} => pc'[u] = pc[u]
    BY <1>6, <1>p DEF ReadFails, AfterSync
  <2> QED  BY <1>6, <2>1, <1>p DEF ReadFails, TypeOK
<1>7. ASSUME NEW t \in Threads, ApplySync(t)
      PROVE  TypeOK'
  <2>1. read[t] \in Reading
    BY <1>7 DEF ApplySync, TypeOK
  <2>2. read[t].mcu \in Nat /\ read[t].cpu \in Nat
    BY <2>1 DEF Reading
  <2>3. /\ pc' \in [Threads -> {"event", "sync", "read", "apply", "convert", "store"}]
        /\ pc'[Poll] # "event" => pc[Poll] # "event"
        /\ \A u \in Threads : pc'[u] \in {"read", "apply"} => pc'[u] = pc[u]
    BY <1>7, <1>p DEF ApplySync, AfterSync
  <2>4. time_slope' \in Slope \cup {Huge} /\ time_offset' \in Int
    <3>1. last_mcu_sync_time \in Nat /\ time_offset \in Int /\ One \in Slope
      BY DEF TypeOK, One, Slope
    <3>2. CASE read[t].mcu <= last_mcu_sync_time \/ last_mcu_sync_time = 0 \/ read[t].mcu = 0
      BY <1>7, <2>2, <3>1, <3>2 DEF ApplySync
    <3>3. CASE read[t].mcu > last_mcu_sync_time /\ ~(last_mcu_sync_time = 0)
      <4>1. SlopeSince(read[t].mcu, read[t].cpu) \in Slope \cup {Huge}
        BY <2>2, <3>3, SlopeType
      <4> QED  BY <1>7, <2>2, <3>1, <3>3, <4>1 DEF ApplySync
    <3> QED  BY <2>2, <3>1, <3>2, <3>3
  <2>5. /\ last_mcu_timestamp' \in [Sensor -> Nat]
        /\ last_cpu_timestamp' \in [Sensor -> 0 .. now]
        /\ last_run' \in [Sensor -> Nat]
    <3>1. /\ [s \in Sensor |-> 0] \in [Sensor -> Nat]
          /\ [s \in Sensor |-> 0] \in [Sensor -> 0 .. now]
      BY <1>p
    <3>2. /\ last_mcu_timestamp' \in {last_mcu_timestamp, [s \in Sensor |-> 0]}
          /\ last_cpu_timestamp' \in {last_cpu_timestamp, [s \in Sensor |-> 0]}
          /\ last_run' \in {last_run, [s \in Sensor |-> 0]}
      BY <1>7 DEF ApplySync
    <3> QED  BY <3>1, <3>2 DEF TypeOK
  <2>7. /\ first' \in [Sensor -> Nat \cup {NULL}]
        /\ read' \in [Threads -> Reading \cup {NULL}]
        /\ \A u \in Threads : pc'[u] \in {"read", "apply"} => read'[u] \in Reading
    <3>1. pc'[t] = "convert" \/ pc'[t] = "sync"
      BY <1>7, <1>p DEF ApplySync, AfterSync
    <3> QED  BY <1>7, <2>3, <3>1 DEF ApplySync, TypeOK
  <2>6. synced' \in BOOLEAN /\ offset_reset' \in [Sensor -> BOOLEAN]
        /\ last_mcu_sync_time' \in Nat /\ last_cpu_sync_time' \in Nat
    BY <1>7, <2>2, <1>p DEF ApplySync, TypeOK
  <2> QED  BY <1>7, <2>3, <2>4, <2>5, <2>6, <2>7 DEF ApplySync, TypeOK
<1>8. CASE TakeEvent
  <2>1. events \in Seq(Event) /\ events # <<>>
    BY <1>8 DEF TakeEvent, TypeOK
  <2>2. current' \in Event /\ events' \in Seq(Event)
    BY <2>1, <1>8, HeadTailProperties DEF TakeEvent
  <2>3. /\ pc' \in [Threads -> {"event", "sync", "read", "apply", "convert", "store"}]
        /\ \A u \in Threads : pc'[u] \in {"read", "apply"} => pc'[u] = pc[u]
    BY <1>8, <1>p DEF TakeEvent
  <2> QED  BY <1>8, <2>2, <2>3, <1>p DEF TakeEvent, TypeOK
<1>9. CASE Convert
  <2>1. current \in Event
    BY <1>9 DEF Convert, TypeOK
  <2>2. current.sensor \in Sensor /\ current.mcu \in Nat
    BY <2>1 DEF Event
  <2>3. event_cpu_time' \in Nat
    BY <1>9, <2>2, ConvertedType DEF Convert
  <2>4. /\ pc' \in [Threads -> {"event", "sync", "read", "apply", "convert", "store"}]
        /\ \A u \in Threads : pc'[u] \in {"read", "apply"} => pc'[u] = pc[u]
    BY <1>9, <1>p DEF Convert
  <2>5. offset_reset' \in [Sensor -> BOOLEAN] /\ first' \in [Sensor -> Nat \cup {NULL}]
    <3>1. current.at \in Nat
      BY <2>1 DEF Event
    <3> QED  BY <1>9, <2>2, <3>1 DEF Convert, TypeOK
  <2> QED  BY <1>9, <2>1, <2>3, <2>4, <2>5 DEF Convert, TypeOK
<1>a. CASE Store
  <2>1. current \in Event /\ event_cpu_time \in Nat
    BY <1>a DEF Store, TypeOK
  <2>2. current.sensor \in Sensor /\ current.mcu \in Nat /\ current.run \in Nat
    BY <2>1 DEF Event
  <2>3. Stamp \in 0 .. now
    BY <2>1, <1>p DEF Stamp
  <2>4. /\ pc' \in [Threads -> {"event", "sync", "read", "apply", "convert", "store"}]
        /\ pc'[Poll] = "event"
        /\ \A u \in Threads : pc'[u] \in {"read", "apply"} => pc'[u] = pc[u]
    BY <1>a, <1>p DEF Store
  <2>5. /\ last_mcu_timestamp' \in [Sensor -> Nat]
        /\ last_cpu_timestamp' \in [Sensor -> 0 .. now]
        /\ last_run' \in [Sensor -> Nat]
    BY <1>a, <2>2, <2>3 DEF Store, TypeOK
  <2> QED  BY <1>a, <2>4, <2>5 DEF Store, TypeOK
<1>b. ASSUME NEW s \in Sensor, TurnOn(s)
      PROVE  TypeOK'
  BY <1>b DEF TurnOn, TypeOK
<1>c. CASE UNCHANGED vars
  BY <1>c DEF vars, TypeOK
<1> QED  BY <1>1, <1>2, <1>3, <1>4, <1>5, <1>6, <1>7, <1>8, <1>9, <1>a, <1>b, <1>c, <1>d
         DEF Next, Hub, Synchronise

-----------------------------------------------------------------------------
(* The order of stamps *)

LEMMA OrderedInit == Init => Ordered
BY DEF Init, Ordered, HubTime, Threads

LEMMA OrderedStep == TypeOK /\ Ordered /\ [Next]_vars => Ordered'
<1> SUFFICES ASSUME TypeOK, Ordered, [Next]_vars, run' = 1 PROVE Ordered'
  BY DEF Ordered
<1> USE DEF hub, estimate, tables, threads, history, Goto
<1>r. run = 1
  <2>1. run \in Nat /\ run >= 1
    BY DEF TypeOK
  <2>2. run' = run \/ run' = run + 1
    BY DEF Next, Hub, Tick, HubEvent, HubReset, HubStarts, Synchronise, ReadHub, ReadCpu,
           ReadFails, ApplySync, TakeEvent, Convert, Store, TurnOn, vars
  <2> QED  BY <2>1, <2>2
<1>p. /\ pc \in [Threads -> {"event", "sync", "read", "apply", "convert", "store"}]
      /\ Poll \in Threads
      /\ now \in Nat /\ now >= 2 /\ events \in Seq(Event) /\ Len(events) \in Nat
      /\ \A s \in Sensor : last_mcu_timestamp[s] \in Nat /\ last_cpu_timestamp[s] \in Nat
      /\ \A i \in 1 .. Len(events) : events[i].mcu \in Nat
  <2>1. now \in Nat /\ now >= 2 /\ last_cpu_timestamp \in [Sensor -> 0 .. now]
    BY DEF TypeOK
  <2>2. events \in Seq(Event)
    BY DEF TypeOK
  <2>3. \A i \in 1 .. Len(events) : events[i] \in Event
    BY <2>2
  <2>4. \A i \in 1 .. Len(events) : events[i].mcu \in Nat
    BY <2>3 DEF Event
  <2>5. Len(events) \in Nat
    BY <2>2
  <2>6. \A s \in Sensor : last_mcu_timestamp[s] \in Nat /\ last_cpu_timestamp[s] \in Nat
    BY <2>1 DEF TypeOK
  <2> QED  BY <2>1, <2>2, <2>4, <2>5, <2>6 DEF TypeOK, Threads
<1>o. /\ up /\ boot = 1 /\ HubTime = now - 1
      /\ \A t \in Threads : pc[t] \in {"read", "apply"} => read[t].mcu > 0
      /\ \A i \in 1 .. Len(events) :
            /\ events[i].mcu <= now - 1
            /\ \A s \in Sensor : last_mcu_timestamp[s] <= events[i].mcu
            /\ \A j \in 1 .. Len(events) : i <= j => events[i].mcu <= events[j].mcu
      /\ \A s \in Sensor : last_mcu_timestamp[s] <= now - 1
      /\ pc[Poll] # "event" =>
            /\ current.mcu <= now - 1
            /\ \A s \in Sensor : last_mcu_timestamp[s] <= current.mcu
            /\ \A i \in 1 .. Len(events) : current.mcu <= events[i].mcu
      /\ pc[Poll] = "store" =>
            event_cpu_time >= last_cpu_timestamp[current.sensor]
  BY <1>r DEF Ordered, HubTime
<1>h. pc[Poll] # "event" =>
          current.mcu \in Nat /\ current.sensor \in Sensor
  BY DEF TypeOK, Event
\* A step that moves a thread only, and leaves the tables and events alone.
<1>s. ASSUME UNCHANGED <<now, run, up, boot, events, last_mcu_timestamp,
                         last_cpu_timestamp, current, event_cpu_time>>,
             \A t \in Threads : pc'[t] \in {"read", "apply"} => read'[t].mcu > 0,
             pc'[Poll] # "event" => pc[Poll] # "event",
             pc'[Poll] = "store" => pc[Poll] = "store"
      PROVE  Ordered'
  <2>1. pc'[Poll] # "event" =>
            pc[Poll] # "event"
    BY <1>s, <1>p
  <2>2. HubTime' = now - 1
    BY <1>s, <1>o DEF HubTime
  <2> QED  BY <1>s, <1>o, <2>1, <2>2 DEF Ordered
<1>1. CASE Tick
  <2>1. HubTime' = now /\ now - 1 <= now
    BY <1>1, <1>o, <1>p DEF Tick, HubTime
  <2> QED  BY <1>1, <1>o, <1>p, <1>h, <2>1 DEF Tick, Ordered
<1>2. ASSUME NEW s \in Sensor, HubEvent(s)
      PROVE  Ordered'
  <2>1. /\ UNCHANGED <<now, run, up, boot, pc, read, current, event_cpu_time,
                       last_mcu_timestamp, last_cpu_timestamp>>
        /\ HubTime' = now - 1
    BY <1>2, <1>o DEF HubEvent, HubTime
  <2> DEFINE e == [sensor |-> s, mcu |-> HubTime, at |-> now, run |-> run]
  <2>2. events' = Append(events, e) /\ e.mcu = now - 1
    BY <1>2, <1>o DEF HubEvent
  <2> HIDE DEF e
  <2>3. /\ Len(events') = Len(events) + 1
        /\ \A i \in 1 .. Len(events') :
              events'[i] = IF i <= Len(events) THEN events[i] ELSE e
    BY <2>2, <1>p
  <2>4. \A i \in 1 .. Len(events') :
           /\ events'[i].mcu <= now - 1
           /\ \A u \in Sensor : last_mcu_timestamp[u] <= events'[i].mcu
           /\ \A j \in 1 .. Len(events') : i <= j => events'[i].mcu <= events'[j].mcu
    BY <2>2, <2>3, <1>o, <1>p
  <2>5. pc[Poll] # "event" =>
            \A i \in 1 .. Len(events') : current.mcu <= events'[i].mcu
    BY <2>2, <2>3, <1>o, <1>p
  <2> QED  BY <2>1, <2>4, <2>5, <1>o DEF Ordered
<1>3. CASE HubReset \/ HubStarts
  BY <1>3, <1>r, <1>o DEF HubReset, HubStarts
<1>4. ASSUME NEW t \in Threads, ReadHub(t)
      PROVE  Ordered'
  <2>1. /\ UNCHANGED <<hub, tables, current, event_cpu_time>>
        /\ pc' = [pc EXCEPT ![t] = "read"] /\ pc[t] = "sync"
        /\ read'[t].mcu > 0
        /\ \A u \in Threads \ {t} : read'[u] = read[u]
    BY <1>4, <1>o, <1>p DEF ReadHub, TypeOK
  <2>2. \A u \in Threads : pc'[u] \in {"read", "apply"} => read'[u].mcu > 0
    BY <1>o, <1>p, <2>1
  <2> QED  BY <2>1, <1>p, <2>2, <1>s
<1>c. ASSUME NEW t \in Threads, ReadCpu(t)
      PROVE  Ordered'
  <2>1. /\ UNCHANGED <<hub, tables, current, event_cpu_time>>
        /\ pc' = [pc EXCEPT ![t] = "apply"] /\ pc[t] = "read"
        /\ \A u \in Threads \ {t} : read'[u] = read[u]
    BY <1>c, <1>p DEF ReadCpu, TypeOK
  <2>2. read'[t].mcu = read[t].mcu
    BY <1>c DEF ReadCpu, TypeOK, Reading
  <2>3. \A u \in Threads : pc'[u] \in {"read", "apply"} => read'[u].mcu > 0
    BY <1>o, <1>p, <2>1, <2>2
  <2> QED  BY <2>1, <1>p, <2>3, <1>s
<1>5. ASSUME NEW t \in Threads, ReadFails(t)
      PROVE  Ordered'
  BY <1>5, <1>p, <1>o, <1>s DEF ReadFails, AfterSync
<1>6. ASSUME NEW t \in Threads, ApplySync(t)
      PROVE  Ordered'
  <2>1. ~(read[t].mcu = 0)
    <3>1. pc[t] = "apply" /\ read[t].mcu > 0 /\ read[t].mcu \in Nat
      BY <1>6, <1>o DEF ApplySync, TypeOK, Reading
    <3> QED  BY <3>1
  <2>2. UNCHANGED <<last_mcu_timestamp, last_cpu_timestamp>>
    BY <1>6, <2>1 DEF ApplySync
  <2>3. /\ UNCHANGED <<hub, current, event_cpu_time>>
        /\ \A u \in Threads \ {t} : pc'[u] = pc[u] /\ read'[u] = read[u]
        /\ pc'[t] \in {"convert", "sync"} /\ pc[t] = "apply"
        /\ pc'[Poll] # "event" => pc[Poll] # "event"
        /\ pc'[Poll] = "store" => pc[Poll] = "store"
    BY <1>6, <1>p DEF ApplySync, AfterSync, TypeOK
  <2>4. \A u \in Threads : pc'[u] \in {"read", "apply"} => read'[u].mcu > 0
    BY <2>3, <1>o
  <2> QED  BY <2>2, <2>3, <2>4, <1>s
<1>7. CASE TakeEvent
  <2>1. events # <<>> /\ Len(events) >= 1 /\ current' = events[1]
    BY <1>7, <1>p DEF TakeEvent
  <2>2. /\ Len(events') = Len(events) - 1
        /\ \A i \in 1 .. Len(events') : events'[i] = events[i + 1]
    BY <1>7, <1>p, HeadTailProperties DEF TakeEvent
  <2>3. \A i \in 1 .. Len(events') : i + 1 \in 1 .. Len(events)
    BY <2>1, <2>2, <1>p
  <2>4. \A i \in 1 .. Len(events') :
           /\ events'[i].mcu <= now - 1
           /\ \A s \in Sensor : last_mcu_timestamp[s] <= events'[i].mcu
           /\ \A j \in 1 .. Len(events') : i <= j => events'[i].mcu <= events'[j].mcu
           /\ events[1].mcu <= events'[i].mcu
    <3> SUFFICES ASSUME NEW i \in 1 .. Len(events')
                 PROVE  /\ events[i + 1].mcu <= now - 1
                        /\ \A s \in Sensor : last_mcu_timestamp[s] <= events[i + 1].mcu
                        /\ \A j \in 1 .. Len(events') :
                              i <= j => events[i + 1].mcu <= events[j + 1].mcu
                        /\ events[1].mcu <= events[i + 1].mcu
      BY <2>2
    <3>1. 1 \in 1 .. Len(events) /\ i + 1 \in 1 .. Len(events) /\ 1 <= i + 1
      BY <2>1, <2>3, <1>p
    <3>2. \A j \in 1 .. Len(events') : i <= j => i + 1 <= j + 1
      OBVIOUS
    <3> QED  BY <3>1, <3>2, <2>3, <1>o
  <2>5. /\ current'.mcu <= now - 1
        /\ \A s \in Sensor : last_mcu_timestamp[s] <= current'.mcu
    BY <2>1, <1>o, <1>p
  <2>6. /\ UNCHANGED <<now, run, up, boot, read, last_mcu_timestamp, last_cpu_timestamp>>
        /\ HubTime' = now - 1 /\ pc'[Poll] # "store"
        /\ \A t \in Threads : pc'[t] \in {"read", "apply"} => pc'[t] = pc[t]
    BY <1>7, <1>o, <1>p DEF TakeEvent, HubTime
  <2> QED  BY <2>1, <2>4, <2>5, <2>6, <1>o DEF Ordered
<1>8. CASE Convert
  <2>1. /\ pc[Poll] = "convert" /\ current.mcu \in Nat /\ current.sensor \in Sensor
        /\ last_mcu_timestamp[current.sensor] <= current.mcu
    BY <1>8, <1>o, <1>h DEF Convert
  <2>2. event_cpu_time' >= last_cpu_timestamp[current.sensor]
    BY <1>8, <2>1, ConvertedNotBefore DEF Convert
  <2>3. /\ UNCHANGED <<now, run, up, boot, events, read, last_mcu_timestamp,
                       last_cpu_timestamp, current>>
        /\ HubTime' = now - 1
        /\ \A t \in Threads : pc'[t] \in {"read", "apply"} => pc'[t] = pc[t]
    BY <1>8, <1>o, <1>p DEF Convert, HubTime
  <2> QED  BY <2>1, <2>2, <2>3, <1>o DEF Ordered
<1>9. CASE Store
  <2>1. /\ current.mcu \in Nat /\ current.sensor \in Sensor /\ pc'[Poll] = "event"
        /\ current.mcu <= now - 1
        /\ \A i \in 1 .. Len(events) : current.mcu <= events[i].mcu
    BY <1>9, <1>h, <1>o, <1>p DEF Store
  <2>2. \A s \in Sensor : last_mcu_timestamp'[s] =
            IF s = current.sensor THEN current.mcu ELSE last_mcu_timestamp[s]
    BY <1>9 DEF Store, TypeOK
  <2>3. /\ UNCHANGED <<now, run, up, boot, events, read>>
        /\ HubTime' = now - 1
        /\ \A t \in Threads : pc'[t] \in {"read", "apply"} => pc'[t] = pc[t]
    BY <1>9, <1>o, <1>p DEF Store, HubTime
  <2> QED  BY <2>1, <2>2, <2>3, <1>o DEF Ordered
<1>a. ASSUME NEW s \in Sensor, TurnOn(s)
      PROVE  Ordered'
  BY <1>a, <1>o, <1>s DEF TurnOn
<1>b. CASE UNCHANGED vars
  BY <1>b, <1>o, <1>s DEF vars
<1> QED  BY <1>1, <1>2, <1>3, <1>4, <1>5, <1>6, <1>7, <1>8, <1>9, <1>a, <1>b, <1>c
         DEF Next, Hub, Synchronise

\* What a variable of its type holds.
LEMMA Kinds ==
    ASSUME TypeOK
    PROVE  /\ now \in Nat /\ run \in Nat /\ run >= 1 /\ boot \in Nat /\ boot <= now
           /\ pc \in [Threads -> {"event", "sync", "read", "apply", "convert", "store"}]
           /\ Poll \in Threads
           /\ events \in Seq(Event) /\ Len(events) \in Nat
           /\ \A i \in 1 .. Len(events) :
                 /\ events[i].mcu \in Nat /\ events[i].at \in Nat /\ events[i].run \in Nat
           /\ pc[Poll] # "event" =>
                 /\ current.sensor \in Sensor
                 /\ current.mcu \in Nat /\ current.at \in Nat /\ current.run \in Nat
           /\ \A s \in Sensor :
                 /\ last_mcu_timestamp[s] \in Nat /\ last_cpu_timestamp[s] \in Nat
                 /\ last_run[s] \in Nat
           /\ \A t \in Threads : pc[t] \in {"read", "apply"} =>
                 read[t].mcu \in Nat /\ read[t].cpu \in Nat /\ read[t].run \in Nat
           /\ last_mcu_sync_time \in Nat /\ last_cpu_sync_time \in Nat
<1>1. now \in Nat /\ run \in Nat /\ run >= 1 /\ boot \in Nat /\ boot <= now
  BY DEF TypeOK
<1>2. Poll \in Threads
  BY DEF Threads
<1>3. events \in Seq(Event) /\ Len(events) \in Nat
  BY DEF TypeOK
<1>4. \A i \in 1 .. Len(events) :
         /\ events[i].mcu \in Nat /\ events[i].at \in Nat /\ events[i].run \in Nat
  <2>1. \A i \in 1 .. Len(events) : events[i] \in Event
    BY <1>3
  <2> QED  BY <2>1 DEF Event
<1>5. pc[Poll] # "event" =>
         /\ current.sensor \in Sensor
         /\ current.mcu \in Nat /\ current.at \in Nat /\ current.run \in Nat
  <2>1. pc[Poll] # "event" => current \in Event
    BY <1>2 DEF TypeOK
  <2> QED  BY <2>1 DEF Event
<1>6. \A s \in Sensor :
         /\ last_mcu_timestamp[s] \in Nat /\ last_cpu_timestamp[s] \in Nat
         /\ last_run[s] \in Nat
  <2>1. now \in Nat /\ last_cpu_timestamp \in [Sensor -> 0 .. now]
    BY DEF TypeOK
  <2> QED  BY <2>1 DEF TypeOK
<1>7. \A t \in Threads : pc[t] \in {"read", "apply"} =>
         read[t].mcu \in Nat /\ read[t].cpu \in Nat /\ read[t].run \in Nat
  <2>1. \A t \in Threads : pc[t] \in {"read", "apply"} => read[t] \in Reading
    BY DEF TypeOK
  <2> QED  BY <2>1 DEF Reading
<1> QED  BY <1>1, <1>2, <1>3, <1>4, <1>5, <1>6, <1>7 DEF TypeOK

-----------------------------------------------------------------------------
(* Stamps that follow the last synchronisation *)

\* An event is of a run that began; the hub's clock and the CPU's are boot apart.
Past(e) ==
    /\ 1 <= e.run /\ e.run <= run
    /\ e.run = run => up /\ e.at = e.mcu + boot /\ e.at <= now

\* What a thread read is of a run that began, and the CPU's time was read last.
ReadInOrder(t) ==
    /\ read[t].run <= run
    /\ read[t].mcu > 0 /\ read[t].run = run =>
          /\ up /\ read[t].mcu + boot <= now
          /\ pc[t] = "apply" => read[t].mcu + boot <= read[t].cpu

\* What was read, is on its way or stored is of a run that began.
Runs ==
    /\ \A i \in 1 .. Len(events) : Past(events[i])
    /\ pc[Poll] # "event" => Past(current)
    /\ \A s \in Sensor : last_run[s] <= run
    /\ \A t \in Threads : pc[t] \in {"read", "apply"} => ReadInOrder(t)

LEMMA RunsInit == Init => Runs
BY DEF Init, Runs, Threads

LEMMA RunsStep == TypeOK /\ Runs /\ [Next]_vars => Runs'
<1> SUFFICES ASSUME TypeOK, Runs, [Next]_vars PROVE Runs'
  OBVIOUS
<1> USE DEF hub, estimate, tables, threads, history, Goto
<1>p. /\ now \in Nat /\ run \in Nat /\ run >= 1 /\ boot \in Nat /\ boot <= now
      /\ pc \in [Threads -> {"event", "sync", "read", "apply", "convert", "store"}]
      /\ Poll \in Threads
      /\ events \in Seq(Event) /\ Len(events) \in Nat
  BY Kinds
\* A step that moves the hub only.
<1>h. ASSUME UNCHANGED <<events, estimate, tables, threads, last_run>>,
             run' \in Nat, run <= run',
             run' = run => \/ ~up
                           \/ up' /\ boot' = boot /\ now' \in Nat /\ now <= now'
      PROVE  Runs'
  <2>1. \A i \in 1 .. Len(events) : Past(events[i])'
    <3> TAKE i \in 1 .. Len(events)
    <3>1. Past(events[i]) /\ events[i].at \in Nat /\ events[i].run \in Nat
      BY Kinds DEF Runs
    <3> QED  BY <3>1, <1>h, <1>p DEF Past
  <2>2. pc[Poll] # "event" => Past(current)'
    <3> HAVE pc[Poll] # "event"
    <3>1. Past(current) /\ current.at \in Nat /\ current.run \in Nat
      BY Kinds DEF Runs
    <3> QED  BY <3>1, <1>h, <1>p DEF Past
  <2>3. \A s \in Sensor : last_run[s] <= run'
    BY <1>h, <1>p, Kinds DEF Runs
  <2>4. \A t \in Threads : pc[t] \in {"read", "apply"} => ReadInOrder(t)'
    <3> TAKE t \in Threads
    <3> HAVE pc[t] \in {"read", "apply"}
    <3>1. read[t].mcu \in Nat /\ read[t].cpu \in Nat /\ read[t].run \in Nat
      BY Kinds
    <3>2. ReadInOrder(t)
      BY DEF Runs
    <3>3. read[t].run <= run'
      BY <3>1, <3>2, <1>h, <1>p DEF ReadInOrder
    <3>4. read[t].run = run' => run' = run
      BY <3>1, <3>2, <1>h, <1>p DEF ReadInOrder
    <3>5. ASSUME read[t].mcu > 0, read[t].run = run'
          PROVE  /\ up' /\ read[t].mcu + boot' <= now'
                 /\ pc[t] = "apply" => read[t].mcu + boot' <= read[t].cpu
      <4>1. /\ up /\ read[t].mcu + boot <= now
            /\ pc[t] = "apply" => read[t].mcu + boot <= read[t].cpu
        BY <3>2, <3>4, <3>5 DEF ReadInOrder
      <4>2. up' /\ boot' = boot /\ now' \in Nat /\ now <= now'
        BY <3>4, <3>5, <4>1, <1>h
      <4> QED  BY <4>1, <4>2, <3>1, <1>p
    <3> QED  BY <3>3, <3>5, <1>h DEF ReadInOrder
  <2> QED  BY <1>h, <2>1, <2>2, <2>3, <2>4 DEF Runs
\* A step that leaves the hub's clock, what it sent and what a thread read alone.
<1>s. ASSUME UNCHANGED <<hub, last_run, current>>,
             pc'[Poll] # "event" => pc[Poll] # "event",
             \A t \in Threads :
                pc'[t] \in {"read", "apply"} => pc'[t] = pc[t] /\ read'[t] = read[t]
      PROVE  Runs'
  BY <1>s DEF Runs, Past, ReadInOrder
<1>1. CASE Tick
  BY <1>1, <1>h, <1>p DEF Tick
<1>2. ASSUME NEW s \in Sensor, HubEvent(s)
      PROVE  Runs'
  <2> PICK e : e = [sensor |-> s, mcu |-> HubTime, at |-> now, run |-> run]
    OBVIOUS
  <2>1. /\ events' = Append(events, e) /\ UNCHANGED <<now, run, up, boot, current, pc>>
        /\ UNCHANGED <<estimate, threads, history>> /\ up
    BY <1>2 DEF HubEvent
  <2>2. Past(e)'
    BY <2>1, <1>p DEF Past, HubTime
  <2>3. /\ Len(events') = Len(events) + 1
        /\ \A i \in 1 .. Len(events') :
              events'[i] = IF i <= Len(events) THEN events[i] ELSE e
    BY <2>1, <1>p
  <2>4. \A i \in 1 .. Len(events') : Past(events[i])'
    <3> TAKE i \in 1 .. Len(events')
    <3>1. CASE i <= Len(events)
      <4>1. i \in 1 .. Len(events) /\ events'[i] = events[i]
        BY <2>3, <3>1, <1>p
      <4>2. Past(events[i])
        BY <4>1 DEF Runs
      <4> QED  BY <4>1, <4>2, <2>1 DEF Past
    <3>2. CASE ~(i <= Len(events))
      BY <3>2, <2>2, <2>3, <2>1 DEF Past
    <3> QED  BY <3>1, <3>2
  <2> QED  BY <2>1, <2>4 DEF Runs, Past, ReadInOrder
<1>3. CASE HubReset
  BY <1>3, <1>h, <1>p DEF HubReset
<1>4. CASE HubStarts
  BY <1>4, <1>h, <1>p DEF HubStarts
<1>5. ASSUME NEW t \in Threads, ReadHub(t)
      PROVE  Runs'
  <2>1. /\ UNCHANGED <<hub, current, last_run>> /\ read'[t].run = run
        /\ read'[t].mcu = HubTime /\ pc'[t] = "read"
        /\ pc'[Poll] # "event" => pc[Poll] # "event"
    BY <1>5, <1>p DEF ReadHub, TypeOK
  <2>2. ReadInOrder(t)'
    BY <2>1, <1>p DEF HubTime, ReadInOrder
  <2>3. \A u \in Threads \ {t} : pc'[u] = pc[u] /\ read'[u] = read[u]
    BY <1>5, <1>p DEF ReadHub, TypeOK
  <2>4. \A u \in Threads : pc'[u] \in {"read", "apply"} => ReadInOrder(u)'
    BY <2>1, <2>2, <2>3 DEF Runs, ReadInOrder
  <2> QED  BY <2>1, <2>4 DEF Runs, Past
<1>d. ASSUME NEW t \in Threads, ReadCpu(t)
      PROVE  Runs'
  <2>1. /\ UNCHANGED <<hub, current, last_run>> /\ pc[t] = "read" /\ pc'[t] = "apply"
        /\ pc'[Poll] # "event" => pc[Poll] # "event"
    BY <1>d, <1>p DEF ReadCpu, TypeOK
  <2>2. /\ read'[t].run = read[t].run /\ read'[t].mcu = read[t].mcu
        /\ read'[t].cpu = now
    BY <1>d DEF ReadCpu, TypeOK, Reading
  <2>3. ReadInOrder(t)'
    BY <2>1, <2>2 DEF Runs, ReadInOrder
  <2>4. \A u \in Threads \ {t} : pc'[u] = pc[u] /\ read'[u] = read[u]
    BY <1>d, <1>p DEF ReadCpu, TypeOK
  <2>5. \A u \in Threads : pc'[u] \in {"read", "apply"} => ReadInOrder(u)'
    BY <2>1, <2>3, <2>4 DEF Runs, ReadInOrder
  <2> QED  BY <2>1, <2>5 DEF Runs, Past
<1>6. ASSUME NEW t \in Threads, ReadFails(t)
      PROVE  Runs'
  BY <1>6, <1>p, <1>s DEF ReadFails, AfterSync
<1>7. ASSUME NEW t \in Threads, ApplySync(t)
      PROVE  Runs'
  <2>1. /\ UNCHANGED <<hub, current, event_cpu_time>> /\ pc[t] = "apply"
        /\ last_run' \in {last_run, [s \in Sensor |-> 0]}
        /\ pc'[Poll] # "event" => pc[Poll] # "event"
        /\ pc'[t] \in {"convert", "sync"}
        /\ \A u \in Threads \ {t} : pc'[u] = pc[u] /\ read'[u] = read[u]
    BY <1>7, <1>p DEF ApplySync, AfterSync, TypeOK
  <2>2. \A u \in Threads : pc'[u] \in {"read", "apply"} => ReadInOrder(u)'
    BY <2>1 DEF Runs, ReadInOrder
  <2>3. \A s \in Sensor : last_run'[s] <= run
    BY <2>1, <1>p DEF Runs
  <2> QED  BY <2>1, <2>2, <2>3 DEF Runs, Past
<1>8. CASE TakeEvent
  <2>1. events # <<>> /\ Len(events) >= 1 /\ current' = events[1]
    BY <1>8, <1>p DEF TakeEvent
  <2>2. /\ Len(events') = Len(events) - 1
        /\ \A i \in 1 .. Len(events') : events'[i] = events[i + 1]
    BY <1>8, <1>p, HeadTailProperties DEF TakeEvent
  <2>3. \A i \in 1 .. Len(events') : i + 1 \in 1 .. Len(events)
    BY <2>1, <2>2, <1>p
  <2>4. /\ UNCHANGED <<now, run, up, boot, estimate, tables, read, history>>
        /\ \A t \in Threads : pc'[t] \in {"read", "apply"} => pc'[t] = pc[t]
    BY <1>8, <1>p DEF TakeEvent
  <2>5. \A i \in 1 .. Len(events') : Past(events[i])'
    <3> TAKE i \in 1 .. Len(events')
    <3>1. Past(events[i + 1])
      BY <2>3 DEF Runs
    <3>2. events'[i] = events[i + 1]
      BY <2>2
    <3> QED  BY <3>1, <3>2, <2>4 DEF Past
  <2>6. Past(current)'
    <3>1. 1 \in 1 .. Len(events)
      BY <2>1, <1>p
    <3> QED  BY <3>1, <2>1, <2>4 DEF Runs, Past
  <2> QED  BY <2>4, <2>5, <2>6 DEF Runs, ReadInOrder
<1>9. CASE Convert
  BY <1>9, <1>p, <1>s DEF Convert
<1>a. CASE Store
  <2>1. /\ UNCHANGED <<hub, estimate, read>> /\ pc[Poll] # "event"
        /\ pc'[Poll] = "event"
        /\ \A t \in Threads : pc'[t] \in {"read", "apply"} => pc'[t] = pc[t]
    BY <1>a, <1>p DEF Store
  <2>2. \A s \in Sensor : last_run'[s] <= run
    <3>1. current.run <= run
      BY <2>1 DEF Runs, Past
    <3> QED  BY <1>a, <3>1, <1>p DEF Store, TypeOK, Runs
  <2> QED  BY <2>1, <2>2 DEF Runs, Past, ReadInOrder
<1>b. ASSUME NEW s \in Sensor, TurnOn(s)
      PROVE  Runs'
  BY <1>b, <1>s DEF TurnOn
<1>c. CASE UNCHANGED vars
  BY <1>c, <1>s DEF vars
<1> QED  BY <1>1, <1>2, <1>3, <1>4, <1>5, <1>6, <1>7, <1>8, <1>9, <1>a, <1>b, <1>c, <1>d
         DEF Next, Hub, Synchronise

\* The hub's times come and are stored in their order, those of its present run.
InOrder ==
    /\ \A i, j \in 1 .. Len(events) :
          i <= j /\ events[i].run = run /\ events[j].run = run =>
              events[i].mcu <= events[j].mcu
    /\ pc[Poll] # "event" /\ current.run = run =>
          \A i \in 1 .. Len(events) : events[i].run = run => current.mcu <= events[i].mcu
    /\ \A s \in Sensor : last_run[s] = run =>
          /\ up /\ last_mcu_timestamp[s] <= HubTime
          /\ \A i \in 1 .. Len(events) :
                events[i].run = run => last_mcu_timestamp[s] <= events[i].mcu
          /\ pc[Poll] # "event" /\ current.run = run => last_mcu_timestamp[s] <= current.mcu
    /\ \A s \in Sensor :
          last_run[s] = 0 => last_mcu_timestamp[s] = 0 /\ last_cpu_timestamp[s] = 0

LEMMA InOrderInit == Init => InOrder
BY DEF Init, InOrder, Threads

LEMMA InOrderStep == TypeOK /\ Runs /\ InOrder /\ [Next]_vars => InOrder'
<1> SUFFICES ASSUME TypeOK, Runs, InOrder, [Next]_vars PROVE InOrder'
  OBVIOUS
<1> USE DEF hub, estimate, tables, threads, history, Goto
<1>p. /\ now \in Nat /\ run \in Nat /\ run >= 1 /\ boot \in Nat /\ boot <= now
      /\ pc \in [Threads -> {"event", "sync", "read", "apply", "convert", "store"}]
      /\ Poll \in Threads
      /\ events \in Seq(Event) /\ Len(events) \in Nat
  BY Kinds
<1>z. \A s \in Sensor :
          last_run[s] = 0 => last_mcu_timestamp[s] = 0 /\ last_cpu_timestamp[s] = 0
  BY DEF InOrder
\* A step that leaves events, their run and the tables alone.
<1>s. ASSUME UNCHANGED <<run, up, boot, events, last_run, last_mcu_timestamp,
                         last_cpu_timestamp, current>>,
             now' \in Nat, now <= now',
             pc'[Poll] # "event" => pc[Poll] # "event"
      PROVE  InOrder'
  <2>1. up => HubTime' \in Nat /\ HubTime \in Nat /\ HubTime <= HubTime'
    <3> HAVE up
    <3>0. up' /\ boot' = boot
      BY <1>s
    <3>1. HubTime' = now' - boot /\ HubTime = now - boot
      BY <3>0 DEF HubTime
    <3>2. now - boot \in Nat /\ now' - boot \in Nat /\ now - boot <= now' - boot
      <4>1. now' \in Nat /\ now <= now'
        BY <1>s
      <4>2. now \in Nat /\ boot \in Nat /\ boot <= now
        BY <1>p
      <4> QED  BY <4>1, <4>2, LaterMinus
    <3> QED  BY <3>1, <3>2
  <2>2. \A s \in Sensor : last_run[s] = run => up /\ last_mcu_timestamp[s] <= HubTime'
    BY <2>1, Kinds DEF InOrder
  <2> QED  BY <1>s, <2>2 DEF InOrder
<1>1. CASE Tick
  BY <1>1, <1>s, <1>p DEF Tick
<1>2. ASSUME NEW s \in Sensor, HubEvent(s)
      PROVE  InOrder'
  <2> PICK e : e = [sensor |-> s, mcu |-> HubTime, at |-> now, run |-> run]
    OBVIOUS
  <2>1. /\ events' = Append(events, e) /\ UNCHANGED <<now, run, up, boot, current, pc>>
        /\ UNCHANGED <<estimate, threads, history, tables>> /\ up
        /\ HubTime = now - boot /\ HubTime' = HubTime /\ e.mcu = now - boot
    BY <1>2, <1>p DEF HubEvent, HubTime
  <2>2. /\ Len(events') = Len(events) + 1
        /\ \A i \in 1 .. Len(events') :
              events'[i] = IF i <= Len(events) THEN events[i] ELSE e
    BY <2>1, <1>p
  <2>3. \A i \in 1 .. Len(events) : events[i].run = run => events[i].mcu <= e.mcu
    <3> SUFFICES ASSUME NEW i \in 1 .. Len(events), events[i].run = run
                 PROVE  events[i].mcu <= e.mcu
      OBVIOUS
    <3>1. /\ events[i].at = events[i].mcu + boot /\ events[i].at <= now
          /\ events[i].mcu \in Nat
      BY Kinds DEF Runs, Past
    <3> QED  BY <3>1, <2>1, <1>p
  <2>4. pc[Poll] # "event" /\ current.run = run => current.mcu <= e.mcu
    BY <2>1, <1>p, Kinds DEF Runs, Past
  <2>5. \A i, j \in 1 .. Len(events') :
          i <= j /\ events'[i].run = run /\ events'[j].run = run =>
              events'[i].mcu <= events'[j].mcu
    <3> SUFFICES ASSUME NEW i \in 1 .. Len(events'), NEW j \in 1 .. Len(events'), i <= j,
                        events'[i].run = run, events'[j].run = run
                 PROVE  events'[i].mcu <= events'[j].mcu
      OBVIOUS
    <3>1. CASE j <= Len(events)
      <4>1. i \in 1 .. Len(events) /\ j \in 1 .. Len(events)
        BY <3>1, <2>2, <1>p
      <4> QED  BY <4>1, <2>2 DEF InOrder
    <3>2. CASE ~(j <= Len(events)) /\ i <= Len(events)
      <4>1. i \in 1 .. Len(events) /\ events'[j] = e /\ events'[i] = events[i]
        BY <3>2, <2>2, <1>p
      <4> QED  BY <4>1, <2>3
    <3>3. CASE ~(j <= Len(events)) /\ ~(i <= Len(events))
      <4>1. events'[i] = e /\ events'[j] = e
        BY <3>3, <2>2
      <4> QED  BY <4>1, <2>1, <1>p
    <3> QED  BY <3>1, <3>2, <3>3
  <2>6. pc[Poll] # "event" /\ current.run = run =>
          \A i \in 1 .. Len(events') : events'[i].run = run => current.mcu <= events'[i].mcu
    BY <2>2, <2>4, <1>p DEF InOrder
  <2>7. \A u \in Sensor : last_run[u] = run =>
          \A i \in 1 .. Len(events') :
                events'[i].run = run => last_mcu_timestamp[u] <= events'[i].mcu
    BY <2>1, <2>2, <1>p DEF InOrder
  <2> QED  BY <2>1, <2>5, <2>6, <2>7 DEF InOrder
<1>3. CASE HubReset
  <2>1. /\ run' = run + 1 /\ UNCHANGED <<now, boot, events, estimate, tables, threads, last_run>>
    BY <1>3 DEF HubReset
  <2>2. \A i \in 1 .. Len(events) : events[i].run # run'
    BY <2>1, <1>p, Kinds DEF Runs, Past
  <2>3. pc[Poll] # "event" => current.run # run'
    BY <2>1, <1>p, Kinds DEF Runs, Past
  <2>4. \A s \in Sensor : last_run[s] # run'
    BY <2>1, <1>p, Kinds DEF Runs
  <2> QED  BY <2>1, <2>2, <2>3, <2>4, <1>z DEF InOrder
<1>4. CASE HubStarts
  <2>1. /\ ~up /\ UNCHANGED <<now, run, events, estimate, tables, threads, history>>
    BY <1>4 DEF HubStarts
  <2>2. \A i \in 1 .. Len(events) : events[i].run # run
    BY <2>1 DEF Runs, Past
  <2>3. pc[Poll] # "event" => current.run # run
    BY <2>1 DEF Runs, Past
  <2>4. \A s \in Sensor : last_run[s] # run
    BY <2>1 DEF InOrder
  <2> QED  BY <2>1, <2>2, <2>3, <2>4, <1>z DEF InOrder
<1>5. ASSUME NEW t \in Threads, ReadHub(t) \/ ReadCpu(t)
      PROVE  InOrder'
  BY <1>5, <1>p, <1>s DEF ReadHub, ReadCpu
<1>6. ASSUME NEW t \in Threads, ReadFails(t)
      PROVE  InOrder'
  BY <1>6, <1>p, <1>s DEF ReadFails, AfterSync
<1>7. ASSUME NEW t \in Threads, ApplySync(t)
      PROVE  InOrder'
  <2>1. /\ UNCHANGED <<hub, current, event_cpu_time>> /\ pc[t] = "apply"
        /\ pc'[Poll] # "event" => pc[Poll] # "event"
    BY <1>7, <1>p DEF ApplySync, AfterSync
  <2>2. CASE read[t].mcu = 0
    <3>1. /\ last_mcu_timestamp' = [s \in Sensor |-> 0]
          /\ last_cpu_timestamp' = [s \in Sensor |-> 0]
          /\ last_run' = [s \in Sensor |-> 0]
      BY <1>7, <2>2 DEF ApplySync
    <3>2. \A s \in Sensor : last_run'[s] # run
      BY <3>1, <1>p
    <3> QED  BY <2>1, <3>1, <3>2 DEF InOrder
  <2>3. CASE read[t].mcu # 0
    <3>1. UNCHANGED <<last_mcu_timestamp, last_cpu_timestamp, last_run>>
      BY <1>7, <2>3 DEF ApplySync
    <3> QED  BY <2>1, <3>1, <1>s, <1>p
  <2> QED  BY <2>2, <2>3
<1>8. CASE TakeEvent
  <2>1. events # <<>> /\ Len(events) >= 1 /\ current' = events[1]
    BY <1>8, <1>p DEF TakeEvent
  <2>2. /\ Len(events') = Len(events) - 1
        /\ \A i \in 1 .. Len(events') : events'[i] = events[i + 1]
    BY <1>8, <1>p, HeadTailProperties DEF TakeEvent
  <2>3. \A i \in 1 .. Len(events') : i + 1 \in 1 .. Len(events) /\ 1 <= i + 1
    BY <2>1, <2>2, <1>p
  <2>4. /\ UNCHANGED <<now, run, up, boot, estimate, tables, read, history>>
        /\ HubTime' = HubTime
    BY <1>8 DEF TakeEvent, HubTime
  <2>5. \A i, j \in 1 .. Len(events') :
          i <= j /\ events'[i].run = run /\ events'[j].run = run =>
              events'[i].mcu <= events'[j].mcu
    <3> SUFFICES ASSUME NEW i \in 1 .. Len(events'), NEW j \in 1 .. Len(events'), i <= j,
                        events'[i].run = run, events'[j].run = run
                 PROVE  events'[i].mcu <= events'[j].mcu
      OBVIOUS
    <3>1. i + 1 \in 1 .. Len(events) /\ j + 1 \in 1 .. Len(events) /\ i + 1 <= j + 1
      BY <2>3
    <3> QED  BY <3>1, <2>2 DEF InOrder
  <2>6. 1 \in 1 .. Len(events)
    BY <2>1, <1>p
  <2>7. current'.run = run =>
          \A i \in 1 .. Len(events') : events'[i].run = run => current'.mcu <= events'[i].mcu
    BY <2>1, <2>2, <2>3, <2>6 DEF InOrder
  <2>8. \A s \in Sensor : last_run[s] = run =>
          /\ up /\ last_mcu_timestamp[s] <= HubTime
          /\ \A i \in 1 .. Len(events') :
                events'[i].run = run => last_mcu_timestamp[s] <= events'[i].mcu
          /\ current'.run = run => last_mcu_timestamp[s] <= current'.mcu
    BY <2>1, <2>2, <2>3, <2>6 DEF InOrder
  <2> QED  BY <2>4, <2>5, <2>7, <2>8, <1>z DEF InOrder
<1>9. CASE Convert
  BY <1>9, <1>p, <1>s DEF Convert
<1>a. CASE Store
  <2>1. /\ UNCHANGED <<hub, estimate, read>> /\ pc[Poll] # "event"
        /\ pc'[Poll] = "event" /\ HubTime' = HubTime
    BY <1>a, <1>p DEF Store, HubTime
  <2>2. /\ current.sensor \in Sensor /\ current.mcu \in Nat /\ current.run \in Nat
        /\ current.at \in Nat /\ Past(current)
    BY <2>1, Kinds DEF Runs
  <2>3. \A s \in Sensor \ {current.sensor} :
            /\ last_mcu_timestamp'[s] = last_mcu_timestamp[s]
            /\ last_cpu_timestamp'[s] = last_cpu_timestamp[s]
            /\ last_run'[s] = last_run[s]
    BY <1>a DEF Store, TypeOK
  <2>4. /\ last_mcu_timestamp'[current.sensor] = current.mcu
        /\ last_run'[current.sensor] = current.run
    BY <1>a, <2>2 DEF Store, TypeOK
  <2>5. current.run # 0
    BY <2>2 DEF Past
  <2>6. current.run = run => up /\ current.mcu <= HubTime
    BY <2>2, <1>p DEF Past, HubTime
  <2>7. \A s \in Sensor : last_run'[s] = run =>
          /\ up /\ last_mcu_timestamp'[s] <= HubTime
          /\ \A i \in 1 .. Len(events) :
                events[i].run = run => last_mcu_timestamp'[s] <= events[i].mcu
    <3> SUFFICES ASSUME NEW s \in Sensor, last_run'[s] = run
                 PROVE  /\ up /\ last_mcu_timestamp'[s] <= HubTime
                        /\ \A i \in 1 .. Len(events) :
                              events[i].run = run => last_mcu_timestamp'[s] <= events[i].mcu
      OBVIOUS
    <3>1. CASE s = current.sensor
      BY <3>1, <2>1, <2>4, <2>6 DEF InOrder
    <3>2. CASE s # current.sensor
      BY <3>2, <2>3 DEF InOrder
    <3> QED  BY <3>1, <3>2
  <2>8. \A s \in Sensor :
          last_run'[s] = 0 => last_mcu_timestamp'[s] = 0 /\ last_cpu_timestamp'[s] = 0
    BY <2>3, <2>4, <2>5, <1>z
  <2> QED  BY <2>1, <2>7, <2>8 DEF InOrder
<1>b. ASSUME NEW s \in Sensor, TurnOn(s)
      PROVE  InOrder'
  BY <1>b, <1>s, <1>p DEF TurnOn
<1>c. CASE UNCHANGED vars
  BY <1>c, <1>s, <1>p DEF vars
<1> QED  BY <1>1, <1>2, <1>3, <1>4, <1>5, <1>6, <1>7, <1>8, <1>9, <1>a, <1>b, <1>c
         DEF Next, Hub, Synchronise
\* A sensor with no event converted since the last synchronisation uses the offset.
FirstKept == \A s \in Sensor : first[s] = NULL <=> offset_reset[s]

\* Is the event of s converted but not stored?
Waiting(s) == pc[Poll] = "store" /\ current.sensor = s

\* While synced, the offset is at least the distance between the clocks, nothing
\* of an earlier run is left, and what is stored, or about to be, is not before the
\* first event since the synchronisation.
Synced ==
    synced =>
      /\ up /\ time_offset >= boot
      /\ ~Leftover
      /\ \A s \in Sensor : first[s] # NULL =>
            /\ first[s] <= now
            /\ IF Waiting(s) THEN event_cpu_time >= first[s]
               ELSE last_cpu_timestamp[s] >= first[s]

LEMMA SyncedInit == Init => FirstKept /\ Synced
BY DEF Init, FirstKept, Synced

\* While synced the first event is converted to a time that is not before it, and
\* a later one to a time that is not before the first.
LEMMA ConvertedFollows ==
    ASSUME TypeOK, Runs, InOrder, FirstKept, Synced, synced, pc[Poll] = "convert",
           NEW c \in Converted(current.sensor, current.mcu)
    PROVE  /\ current.at <= now /\ current.at \in Nat
           /\ first[current.sensor] = NULL => c >= current.at
           /\ first[current.sensor] # NULL => c >= first[current.sensor]
<1> PICK s \in Sensor : s = current.sensor
  BY Kinds
<1>1. /\ current.mcu \in Nat /\ current.at \in Nat /\ boot \in Nat /\ now \in Nat
      /\ run \in Nat /\ run >= 1
      /\ last_mcu_timestamp[s] \in Nat /\ last_cpu_timestamp[s] \in Nat
  BY Kinds
<1>2. current.run = run /\ last_run[s] \in {0, run}
  BY DEF Synced, Leftover
<1>3. current.at = current.mcu + boot /\ current.at <= now
  BY <1>2 DEF Runs, Past
<1>4. time_offset >= boot /\ time_offset \in Int
  BY DEF Synced, TypeOK
<1>5. last_mcu_timestamp[s] <= current.mcu
  <2>1. last_run[s] = run => last_mcu_timestamp[s] <= current.mcu
    BY <1>2 DEF InOrder
  <2>2. last_run[s] = 0 => last_mcu_timestamp[s] = 0
    BY DEF InOrder
  <2> QED  BY <1>1, <1>2, <2>1, <2>2
<1>6. c \in Nat /\ c >= last_cpu_timestamp[s]
  BY <1>1, <1>5, ConvertedType, ConvertedNotBefore
<1>7. ASSUME first[s] = NULL
      PROVE  c >= current.at
  <2>1. offset_reset[s]
    BY <1>7 DEF FirstKept
  <2>2. CASE current.mcu + time_offset > last_cpu_timestamp[s]
    <3>1. c = current.mcu + time_offset
      BY <2>1, <2>2 DEF Converted
    <3> QED  BY <3>1, <1>1, <1>3, <1>4
  <2>3. CASE ~(current.mcu + time_offset > last_cpu_timestamp[s])
    BY <2>3, <1>1, <1>3, <1>4, <1>6
  <2> QED  BY <2>2, <2>3
<1>8. ASSUME first[s] # NULL
      PROVE  c >= first[s]
  <2>1. ~Waiting(s)
    BY DEF Waiting
  <2>2. last_cpu_timestamp[s] >= first[s]
    BY <1>8, <2>1 DEF Synced
  <2>3. first[s] \in Nat
    BY <1>8 DEF TypeOK
  <2> QED  BY <2>2, <2>3, <1>1, <1>6
<1> QED  BY <1>1, <1>3, <1>7, <1>8

LEMMA FirstKeptStep == TypeOK /\ FirstKept /\ [Next]_vars => FirstKept'
<1> SUFFICES ASSUME TypeOK, FirstKept, [Next]_vars PROVE FirstKept'
  OBVIOUS
<1> USE DEF hub, estimate, tables, threads, history
<1>1. CASE UNCHANGED <<offset_reset, first>>
  BY <1>1 DEF FirstKept
<1>2. ASSUME NEW t \in Threads, ApplySync(t)
      PROVE  FirstKept'
  BY <1>2 DEF ApplySync, FirstKept
<1>3. CASE Convert
  <2>1. current.sensor \in Sensor /\ current.at \in Nat
    BY <1>3, Kinds DEF Convert
  <2>2. \A s \in Sensor : offset_reset'[s] = (offset_reset[s] /\ s # current.sensor)
    BY <1>3, <2>1 DEF Convert, TypeOK
  <2>3. \A s \in Sensor : first'[s] =
            IF s = current.sensor /\ first[s] = NULL THEN current.at ELSE first[s]
    BY <1>3, <2>1 DEF Convert, TypeOK
  <2>4. current.at # NULL
    BY <2>1
  <2> QED  BY <2>2, <2>3, <2>4 DEF FirstKept
<1>4. ASSUME NEW s \in Sensor, TurnOn(s)
      PROVE  FirstKept'
  <2>1. \A u \in Sensor : /\ offset_reset'[u] = (offset_reset[u] \/ u = s)
                          /\ first'[u] = IF u = s THEN NULL ELSE first[u]
    BY <1>4 DEF TurnOn, TypeOK
  <2> QED  BY <2>1 DEF FirstKept
<1> QED  BY <1>1, <1>2, <1>3, <1>4 DEF Next, Hub, Tick, HubEvent, HubReset, HubStarts,
         Synchronise, ReadHub, ReadCpu, ReadFails, TakeEvent, Store, vars

LEMMA SyncedStep ==
    TypeOK /\ Runs /\ InOrder /\ FirstKept /\ Synced /\ [Next]_vars => Synced'
<1> SUFFICES ASSUME TypeOK, Runs, InOrder, FirstKept, Synced, [Next]_vars, synced'
             PROVE  Synced'
  BY DEF Synced
<1> USE DEF hub, estimate, tables, threads, history, Goto
<1>p. /\ now \in Nat /\ run \in Nat /\ run >= 1 /\ boot \in Nat /\ boot <= now
      /\ pc \in [Threads -> {"event", "sync", "read", "apply", "convert", "store"}]
      /\ Poll \in Threads
      /\ events \in Seq(Event) /\ Len(events) \in Nat
  BY Kinds
\* A step that leaves the estimate, the tables and what is converted alone.
<1>s. ASSUME UNCHANGED <<run, up, boot, time_offset, synced, last_cpu_timestamp, first,
                         event_cpu_time>>,
             now' \in Nat, now <= now', Leftover' => Leftover,
             \A s \in Sensor : Waiting(s)' <=> Waiting(s)
      PROVE  Synced'
  <2>1. synced
    BY <1>s
  <2>2. \A s \in Sensor : first[s] # NULL => first[s] <= now'
    <3> SUFFICES ASSUME NEW s \in Sensor, first[s] # NULL
                 PROVE  first[s] <= now'
      OBVIOUS
    <3>1. first[s] \in Nat
      BY DEF TypeOK
    <3>2. first[s] <= now
      BY <2>1 DEF Synced
    <3> QED  BY <3>1, <3>2, <1>s, <1>p
  <2>3. ~Leftover'
    BY <2>1, <1>s DEF Synced
  <2>4. ASSUME NEW s \in Sensor, first'[s] # NULL
        PROVE  IF Waiting(s)' THEN event_cpu_time' >= first'[s]
               ELSE last_cpu_timestamp'[s] >= first'[s]
    BY <2>1, <2>4, <1>s DEF Synced
  <2>5. up' /\ time_offset' >= boot'
    BY <2>1, <1>s DEF Synced
  <2> QED  BY <2>2, <2>3, <2>4, <2>5, <1>s DEF Synced
<1>1. CASE Tick
  <2>1. Leftover' => Leftover
    BY <1>1 DEF Tick, Leftover
  <2>2. UNCHANGED <<run, up, boot, time_offset, synced, last_cpu_timestamp, first,
                   event_cpu_time>>
    BY <1>1 DEF Tick
  <2>3. now' \in Nat /\ now <= now'
    BY <1>1, <1>p DEF Tick
  <2>4. \A u \in Sensor : Waiting(u)' <=> Waiting(u)
    BY <1>1 DEF Tick, Waiting
  <2> QED  BY <2>1, <2>2, <2>3, <2>4, <1>s
<1>2. ASSUME NEW s \in Sensor, HubEvent(s)
      PROVE  Synced'
  <2> PICK e : e = [sensor |-> s, mcu |-> HubTime, at |-> now, run |-> run]
    OBVIOUS
  <2>1. /\ events' = Append(events, e) /\ UNCHANGED <<now, run, up, boot, current, pc>>
        /\ UNCHANGED <<estimate, threads, history, tables>> /\ e.run = run
    BY <1>2 DEF HubEvent
  <2>2. /\ Len(events') = Len(events) + 1
        /\ \A i \in 1 .. Len(events') :
              events'[i] = IF i <= Len(events) THEN events[i] ELSE e
    BY <2>1, <1>p
  <2>3. ASSUME NEW i \in 1 .. Len(events'), events'[i].run # run
        PROVE  i \in 1 .. Len(events) /\ events[i].run # run
    BY <2>1, <2>2, <2>3, <1>p
  <2>4. Leftover' => Leftover
    BY <2>1, <2>3 DEF Leftover
  <2>5. \A u \in Sensor : Waiting(u)' <=> Waiting(u)
    BY <2>1 DEF Waiting
  <2>6. UNCHANGED <<run, up, boot, time_offset, synced, last_cpu_timestamp, first,
                   event_cpu_time>>
    BY <2>1
  <2>7. now' \in Nat /\ now <= now'
    BY <2>1, <1>p
  <2> QED  BY <2>4, <2>5, <2>6, <2>7, <1>s
<1>3. CASE HubReset
  BY <1>3 DEF HubReset
<1>4. CASE HubStarts
  BY <1>4 DEF HubStarts, Synced
<1>5. ASSUME NEW t \in Threads, ReadHub(t) \/ ReadCpu(t) \/ ReadFails(t)
      PROVE  Synced'
  <2>1. /\ UNCHANGED <<hub, estimate, tables, current, event_cpu_time, history>>
        /\ pc'[Poll] # "event" => pc[Poll] # "event"
        /\ pc'[Poll] = "store" <=> pc[Poll] = "store"
    BY <1>5, <1>p DEF ReadHub, ReadCpu, ReadFails, AfterSync
  <2>2. Leftover' => Leftover
    BY <2>1 DEF Leftover
  <2>3. \A u \in Sensor : Waiting(u)' <=> Waiting(u)
    BY <2>1 DEF Waiting
  <2>4. UNCHANGED <<run, up, boot, time_offset, synced, last_cpu_timestamp, first,
                   event_cpu_time>>
    BY <2>1
  <2>5. now' \in Nat /\ now <= now'
    BY <2>1, <1>p
  <2> QED  BY <2>2, <2>3, <2>4, <2>5, <1>s
<1>7. ASSUME NEW t \in Threads, ApplySync(t)
      PROVE  Synced'
  <2> PICK mcu, cpu : mcu = read[t].mcu /\ cpu = read[t].cpu
    OBVIOUS
  <2>1. /\ UNCHANGED <<hub, current, event_cpu_time>> /\ pc[t] = "apply"
        /\ first' = [s \in Sensor |-> NULL]
        /\ pc'[Poll] # "event" => pc[Poll] # "event"
    BY <1>7, <1>p DEF ApplySync, AfterSync
  <2>2. ~(mcu = 0) /\ read[t].run = run /\ ~Leftover
    BY <1>7 DEF ApplySync
  <2>3. mcu \in Nat /\ cpu \in Nat
    BY <2>1, Kinds
  <2>4. up /\ mcu + boot <= cpu
    BY <2>1, <2>2, <2>3 DEF Runs, ReadInOrder
  <2>5. time_offset' >= boot
    <3>1. time_offset' = cpu - mcu
      BY <1>7, <2>2 DEF ApplySync
    <3> QED  BY <3>1, <2>3, <2>4, <1>p
  <2>6. UNCHANGED last_run
    BY <1>7, <2>2 DEF ApplySync
  <2>7. ~Leftover'
    BY <2>1, <2>2, <2>6 DEF Leftover
  <2> QED  BY <2>1, <2>4, <2>5, <2>7 DEF Synced
<1>8. CASE TakeEvent
  <2>0. synced /\ ~Leftover
    BY <1>8 DEF TakeEvent, Synced
  <2>1. events # <<>> /\ Len(events) >= 1 /\ current' = events[1]
    BY <1>8, <1>p DEF TakeEvent
  <2>2. /\ Len(events') = Len(events) - 1
        /\ \A i \in 1 .. Len(events') : events'[i] = events[i + 1]
    BY <1>8, <1>p, HeadTailProperties DEF TakeEvent
  <2>3. \A i \in 1 .. Len(events') : i + 1 \in 1 .. Len(events)
    BY <2>1, <2>2, <1>p
  <2>4. /\ UNCHANGED <<now, run, up, boot, estimate, tables, read, event_cpu_time, history>>
        /\ pc[Poll] = "event" /\ pc'[Poll] # "store"
    BY <1>8, <1>p DEF TakeEvent
  <2>5. ~Leftover'
    <3>1. current'.run = run
      <4>1. 1 \in 1 .. Len(events)
        BY <2>1, <1>p
      <4> QED  BY <4>1, <2>0, <2>1 DEF Leftover
    <3>2. \A i \in 1 .. Len(events') : events'[i].run = run
      BY <2>0, <2>2, <2>3 DEF Leftover
    <3>3. \A s \in Sensor : last_run[s] \in {0, run}
      BY <2>0 DEF Leftover
    <3> QED  BY <2>4, <3>1, <3>2, <3>3 DEF Leftover
  <2>6. \A u \in Sensor : Waiting(u)' <=> Waiting(u)
    BY <2>4 DEF Waiting
  <2> QED  BY <2>0, <2>4, <2>5, <2>6, <1>p, <1>s
<1>9. CASE Convert
  <2>1. /\ UNCHANGED <<hub, estimate, last_mcu_timestamp, last_cpu_timestamp, read,
                       current, last_run, synced>>
        /\ pc[Poll] = "convert" /\ pc'[Poll] = "store"
        /\ event_cpu_time' \in Converted(current.sensor, current.mcu)
        /\ current.sensor \in Sensor /\ synced
    BY <1>9, <1>p, Kinds DEF Convert
  <2>2. /\ current.at <= now /\ current.at \in Nat
        /\ first[current.sensor] = NULL => event_cpu_time' >= current.at
        /\ first[current.sensor] # NULL => event_cpu_time' >= first[current.sensor]
    BY <2>1, ConvertedFollows
  <2>3. \A s \in Sensor : first'[s] =
            IF s = current.sensor /\ first[s] = NULL THEN current.at ELSE first[s]
    BY <1>9, <2>1 DEF Convert, TypeOK
  <2>4. ~Leftover'
    BY <2>1 DEF Leftover, Synced
  <2>5. \A s \in Sensor : (Waiting(s)' <=> s = current.sensor) /\ ~Waiting(s)
    BY <2>1 DEF Waiting
  <2>6. ASSUME NEW s \in Sensor, first'[s] # NULL
        PROVE  /\ first'[s] <= now
               /\ IF Waiting(s)' THEN event_cpu_time' >= first'[s]
                  ELSE last_cpu_timestamp[s] >= first'[s]
    <3>1. CASE s = current.sensor
      <4>1. CASE first[s] = NULL
        BY <3>1, <4>1, <2>2, <2>3, <2>5
      <4>2. CASE first[s] # NULL
        BY <3>1, <4>2, <2>1, <2>2, <2>3, <2>5 DEF Synced
      <4> QED  BY <4>1, <4>2
    <3>2. CASE s # current.sensor
      BY <3>2, <2>1, <2>3, <2>5, <2>6 DEF Synced
    <3> QED  BY <3>1, <3>2
  <2>7. up /\ time_offset >= boot
    BY <2>1 DEF Synced
  <2> QED  BY <2>1, <2>4, <2>6, <2>7 DEF Synced
<1>a. CASE Store
  <2>1. /\ UNCHANGED <<hub, estimate, offset_reset, read, synced, first>>
        /\ pc[Poll] = "store" /\ pc'[Poll] = "event" /\ synced
    BY <1>a, <1>p DEF Store
  <2>2. /\ current.sensor \in Sensor /\ event_cpu_time \in Nat
        /\ current.run = run
    BY <2>1, Kinds DEF TypeOK, Synced, Leftover
  <2>3. \A s \in Sensor :
            /\ last_cpu_timestamp'[s] =
                  IF s = current.sensor THEN Stamp ELSE last_cpu_timestamp[s]
            /\ last_run'[s] = IF s = current.sensor THEN current.run ELSE last_run[s]
    BY <1>a, <2>2 DEF Store, TypeOK
  <2>4. ~Leftover'
    <3>1. \A s \in Sensor : last_run'[s] \in {0, run}
      BY <2>1, <2>2, <2>3 DEF Synced, Leftover
    <3> QED  BY <2>1, <3>1 DEF Synced, Leftover
  <2>5. \A s \in Sensor : ~Waiting(s)' /\ (Waiting(s) <=> s = current.sensor)
    BY <2>1 DEF Waiting
  <2>6. ASSUME NEW s \in Sensor, first[s] # NULL
        PROVE  first[s] <= now /\ last_cpu_timestamp'[s] >= first[s]
    <3>1. first[s] \in Nat /\ first[s] <= now
      BY <2>1, <2>6 DEF Synced, TypeOK
    <3>2. CASE s = current.sensor
      <4>1. event_cpu_time >= first[s]
        BY <2>1, <2>5, <2>6, <3>2 DEF Synced
      <4> QED  BY <3>1, <3>2, <4>1, <2>2, <2>3, <1>p DEF Stamp
    <3>3. CASE s # current.sensor
      BY <2>1, <2>3, <2>5, <2>6, <3>1, <3>3 DEF Synced
    <3> QED  BY <3>2, <3>3
  <2>7. up /\ time_offset >= boot
    BY <2>1 DEF Synced
  <2> QED  BY <2>1, <2>4, <2>5, <2>6, <2>7 DEF Synced
<1>b. ASSUME NEW s \in Sensor, TurnOn(s)
      PROVE  Synced'
  <2>1. /\ UNCHANGED <<hub, estimate, last_mcu_timestamp, last_cpu_timestamp, threads>>
        /\ UNCHANGED <<last_run, synced>>
        /\ \A u \in Sensor : first'[u] = IF u = s THEN NULL ELSE first[u]
    BY <1>b DEF TurnOn, TypeOK
  <2>2. Leftover' <=> Leftover
    BY <2>1 DEF Leftover
  <2>3. \A u \in Sensor : Waiting(u)' <=> Waiting(u)
    BY <2>1 DEF Waiting
  <2>4. synced
    BY <2>1
  <2> QED  BY <2>1, <2>2, <2>3, <2>4 DEF Synced
<1>c. CASE UNCHANGED vars
  <2>1. (Leftover' => Leftover) /\ \A u \in Sensor : Waiting(u)' <=> Waiting(u)
    BY <1>c DEF vars, Leftover, Waiting
  <2>2. UNCHANGED <<run, up, boot, time_offset, synced, last_cpu_timestamp, first,
                   event_cpu_time>>
    BY <1>c DEF vars
  <2>3. now' \in Nat /\ now <= now'
    BY <1>c, <1>p DEF vars
  <2> QED  BY <2>1, <2>2, <2>3, <1>s
<1> QED  BY <1>1, <1>2, <1>3, <1>4, <1>5, <1>7, <1>8, <1>9, <1>a, <1>b, <1>c
         DEF Next, Hub, Synchronise

\* A stamp about to be stored while synced is not before the first event.
LEMMA FollowsStep == TypeOK /\ Synced => StampFollowsSync
<1> SUFFICES ASSUME TypeOK, Synced, pc[Poll] = "store", synced,
                    first[current.sensor] # NULL
             PROVE  Stamp >= first[current.sensor]
  BY DEF StampFollowsSync
<1> PICK s \in Sensor : s = current.sensor
  BY Kinds
<1>1. first[s] \in Nat /\ now \in Nat /\ event_cpu_time \in Nat
  BY Kinds DEF TypeOK
<1>2. Waiting(s)
  BY DEF Waiting
<1>3. first[s] <= now /\ event_cpu_time >= first[s]
  BY <1>2 DEF Synced
<1> QED  BY <1>1, <1>3 DEF Stamp

-----------------------------------------------------------------------------
(* Theorems *)

\* Every variable keeps its type, whenever the hub is reset: stamps and stored
\* times are never below 0 nor after now.
THEOREM TypeCorrect == Spec => []TypeOK
BY TypesInit, TypesStep, PTL DEF Spec

LEMMA Invariance == Spec => [](TypeOK /\ Ordered)
<1>1. TypeOK /\ Ordered /\ [Next]_vars => (TypeOK /\ Ordered)'
  BY TypesStep, OrderedStep
<1> QED  BY TypesInit, OrderedInit, <1>1, PTL DEF Spec

\* No step of any thread takes a stamp back in the first run of the hub.
LEMMA StampsStep ==
    TypeOK /\ Ordered /\ [Next]_vars =>
        [run = 1 => \A s \in Sensor : last_cpu_timestamp'[s] >= last_cpu_timestamp[s]]_vars
<1> SUFFICES ASSUME TypeOK, Ordered, Next, run = 1, NEW s \in Sensor
             PROVE  last_cpu_timestamp'[s] >= last_cpu_timestamp[s]
  OBVIOUS
<1> USE DEF hub, estimate, tables, threads, history
<1>1. last_cpu_timestamp[s] \in Nat /\ now \in Nat /\ last_cpu_timestamp[s] <= now
  <2>1. now \in Nat /\ last_cpu_timestamp \in [Sensor -> 0 .. now]
    BY DEF TypeOK
  <2> QED  BY <2>1
<1>2. ASSUME NEW t \in Threads, ApplySync(t)
      PROVE  UNCHANGED last_cpu_timestamp
  <2>1. pc[t] = "apply" /\ read[t].mcu > 0 /\ read[t].mcu \in Nat
    BY <1>2 DEF ApplySync, TypeOK, Reading, Ordered
  <2> QED  BY <1>2, <2>1 DEF ApplySync
<1>3. CASE Store
  <2>1. /\ current.sensor \in Sensor /\ event_cpu_time \in Nat
        /\ event_cpu_time >= last_cpu_timestamp[current.sensor]
    BY <1>3 DEF Store, TypeOK, Event, Ordered
  <2>2. s = current.sensor => Stamp >= last_cpu_timestamp[s]
    BY <2>1, <1>1 DEF Stamp
  <2> QED  BY <1>1, <1>3, <2>1, <2>2 DEF Store, TypeOK
<1>4. CASE UNCHANGED last_cpu_timestamp
  BY <1>4, <1>1
<1> QED  BY <1>2, <1>3, <1>4 DEF Next, Hub, Tick, HubEvent, HubReset, HubStarts,
         Synchronise, ReadHub, ReadCpu, ReadFails, TakeEvent, Convert, TurnOn

\* Stamps do not go back while the hub is not reset, for any number of sensors,
\* whatever the members held at first and however old an estimate is.
THEOREM StampsCorrect == Spec => StampsNeverGoBack
BY Invariance, StampsStep, PTL DEF Spec, StampsNeverGoBack

\* Once an estimate of this run of the hub is applied and nothing of an earlier run
\* is left, no stamp is before the first event since the last synchronisation, for
\* any number of resets, of events on their way and of synchronisations, any delay
\* between the reads of the two clocks and any rounding.
THEOREM StampsFollowSync == Spec => []StampFollowsSync
<1> DEFINE I == TypeOK /\ Runs /\ InOrder /\ FirstKept /\ Synced
<1>1. Init => I
  BY TypesInit, RunsInit, InOrderInit, SyncedInit
<1>2. I /\ [Next]_vars => I'
  BY TypesStep, RunsStep, InOrderStep, FirstKeptStep, SyncedStep
<1>3. I => StampFollowsSync
  BY FollowsStep
<1> QED  BY <1>1, <1>2, <1>3, PTL DEF Spec
=============================================================================
