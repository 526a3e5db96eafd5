------------------------------- MODULE Sensors -------------------------------
(***************************************************************************)
(* The sensor HAL (libsensors/sensors.cpp, CwMcuSensor.cpp): the poll      *)
(* thread of the framework takes the hub's events from the IIO device      *)
(* through the ring (EventRing, here the queue it implements) into the     *)
(* caller's array, while another thread of the framework turns sensors on  *)
(* and off.  Bodies under sys_fs_mutex are one step.  The time stamps the  *)
(* events get are the subject of another module.                           *)
(***************************************************************************)
EXTENDS Integers, Sequences, FiniteSets

CONSTANTS
    Sensor,         \* the sensors
    OneShot,        \* those that turn themselves off: CW_SIGNIFICANT_MOTION
    Meta,           \* a flush-complete event, CW_META_DATA
    TimeBase,       \* an event of the hub's clock: TIME_DIFF_EXHAUSTED, CW_TIME_BASE
    NoEvent, NoSensor,
    RingSize,       \* IIO_MAX_BUFF_SIZE, the events the ring holds
    KernelSize,     \* bound: the events the kernel's buffer holds
    ArraySize,      \* the events the array passed to poll() holds
    MaxWakes,       \* bound: wake messages in the pipe
    MaxArmed,       \* bound: activations of a one-shot sensor it has not answered
    MaxErrors       \* bound: times that read() or poll() fails

ASSUME SensorAssumption == OneShot \subseteq Sensor /\ NoSensor \notin Sensor
ASSUME SizeAssumption ==
    /\ RingSize \in Nat \ {0} /\ ArraySize \in Nat \ {0}
    /\ KernelSize \in Nat /\ MaxWakes \in Nat /\ MaxArmed \in Nat
    /\ MaxErrors \in Nat

Event == Sensor \cup {Meta, TimeBase}

VARIABLES
    \* the kernel and the hub
    kernel,         \* events in the buffer of the IIO device, oldest first
    iio,            \* is buffer/enable set?
    wakes,          \* wake messages in the pipe
    \* CwMcuSensor
    ring,           \* unread events of mInputReader
    event,          \* the event readEvents() works on
    pending,        \* is mPendingMask not empty?
    mEnabled,       \* the sensors turned on
    \* sensors_poll_context_t and the thread in pollEvents()
    revents,        \* POLLIN in mPollFds[cwmcu].revents
    pc,             \* where the poll thread is
    count,          \* room left in the caller's array
    nbEvents,       \* events stored before this readEvents(): data - array
    nb,             \* numEventReceived of this readEvents()
    \* the thread that turns sensors on and off
    fpc,            \* where it is
    handle,         \* the sensor it turns on
    \* history
    armed,          \* activations of the one-shot sensors not yet answered
    errors,         \* how often read() or poll() failed
    undone          \* a sensor that turned itself off took the buffer from a sensor
                    \* being turned on

pollVars == <<revents, pc, count, nbEvents, nb>>
frameworkVars == <<fpc, handle>>
vars == <<kernel, iio, wakes, ring, event, pending, mEnabled, pollVars,
          frameworkVars, armed, errors, undone>>

Ring == INSTANCE EventQueue WITH N <- RingSize, queue <- ring

\* Device open: the constructor sets buffer/enable and turns the first sensor
\* on; the framework then turns every sensor off.
Init ==
    /\ kernel = <<>> /\ iio = FALSE /\ wakes = 0
    /\ Ring!Init
    /\ pending = FALSE /\ mEnabled = {}
    /\ revents = FALSE /\ pc = "idle" /\ count = 0 /\ nbEvents = 0 /\ nb = 0
    /\ fpc = "idle" /\ handle = NoSensor
    /\ armed = 0 /\ errors = 0 /\ undone = FALSE

-----------------------------------------------------------------------------
(* The hub *)

\* The hub puts an event into the enabled IIO buffer.
HubEvent ==
    /\ iio
    /\ Len(kernel) < KernelSize
    /\ \E e \in Event : kernel' = Append(kernel, e)
    /\ UNCHANGED <<iio, wakes, ring, event, pending, mEnabled, pollVars,
                   frameworkVars, armed, errors, undone>>

-----------------------------------------------------------------------------
(* setEnable() and batch(), under sys_fs_mutex *)

\* setEnable(s, 1).  The buffer is left as it is.
TurnOn(s) == mEnabled' = mEnabled \cup {s} /\ UNCHANGED iio

\* Fault: every sensor turned off takes the buffer with it.
TurnOffAll(s) ==
    /\ mEnabled' = mEnabled \ {s}
    /\ iio' = FALSE

\* setEnable(s, 0).  The last sensor turned off takes the buffer with it.
TurnOff(s) ==
    /\ mEnabled' = mEnabled \ {s}
    /\ iio' = (iio /\ mEnabled' # {})

\* The framework sets a sensor's rate; while no sensor is on, batch() also
\* turns the IIO buffer on.
Batch(s) ==
    /\ fpc = "idle"
    /\ s \in OneShot => armed < MaxArmed
    /\ iio' = (iio \/ mEnabled = {})
    /\ undone' = (undone /\ mEnabled # {})
    /\ fpc' = "activate"
    /\ handle' = s
    /\ UNCHANGED <<kernel, wakes, ring, event, pending, mEnabled, pollVars, armed,
                   errors>>

\* ... and then turns it on; or it was on, and only its rate changed.
Activate ==
    /\ fpc = "activate"
    /\ \/ /\ TurnOn(handle)
          /\ armed' = IF handle \in OneShot THEN armed + 1 ELSE armed
          /\ fpc' = "wake"
          /\ UNCHANGED handle
       \/ /\ handle \in mEnabled
          /\ fpc' = "idle" /\ handle' = NoSensor
          /\ UNCHANGED <<iio, mEnabled, armed>>
    /\ UNCHANGED <<kernel, wakes, ring, event, pending, pollVars, errors, undone>>

\* activate() writes a message into the wake pipe; a full pipe loses it.
Wake ==
    /\ fpc = "wake"
    /\ wakes' = IF wakes < MaxWakes THEN wakes + 1 ELSE wakes
    /\ fpc' = "idle" /\ handle' = NoSensor
    /\ UNCHANGED <<kernel, iio, ring, event, pending, mEnabled, pollVars, armed,
                   errors, undone>>

\* The framework turns a sensor off, whether it is on or not.
Deactivate(s) ==
    /\ fpc = "idle"
    /\ TurnOff(s)
    /\ UNCHANGED <<kernel, wakes, ring, event, pending, pollVars,
                   frameworkVars, armed, errors, undone>>

-----------------------------------------------------------------------------
(* pollEvents() *)

\* The framework calls poll() with an empty array.
Call ==
    /\ pc = "idle"
    /\ pc' = "check"
    /\ count' = ArraySize /\ nbEvents' = 0
    /\ UNCHANGED <<kernel, iio, wakes, ring, event, pending, mEnabled, revents,
                   nb, frameworkVars, armed, errors, undone>>

\* Is there anything to read?  The device was readable, or hasPendingEvents().
Check ==
    /\ pc = "check"
    /\ pc' = IF revents \/ pending THEN "fill" ELSE "poll"
    /\ nb' = 0
    /\ UNCHANGED <<kernel, iio, wakes, ring, event, pending, mEnabled, revents,
                   count, nbEvents, frameworkVars, armed, errors, undone>>

FreeSpace == RingSize - Len(ring)

\* fill() of readEvents(): one read() of at most the free space.  A full ring
\* is not read into; read() of an empty device does not wait.
Fill ==
    /\ pc = "fill"
    /\ \/ FreeSpace = 0 /\ UNCHANGED <<kernel, ring, event>>
       \/ FreeSpace > 0 /\ kernel = <<>> /\ UNCHANGED <<kernel, ring, event>>
       \/ \E n \in 1 .. Len(kernel) :
            /\ n <= FreeSpace
            /\ Ring!Put(SubSeq(kernel, 1, n))
            /\ kernel' = SubSeq(kernel, n + 1, Len(kernel))
    /\ pc' = "drain"
    /\ UNCHANGED <<iio, wakes, pending, mEnabled, revents, count, nbEvents, nb,
                   frameworkVars, armed, errors, undone>>

\* Fault: an array that was filled counts as all there was.
AccountAll(n) ==
    /\ revents' = FALSE
    /\ count' = count - n
    /\ nbEvents' = nbEvents + n
    /\ nb' = 0
    /\ pc' = IF count - n # 0 THEN "poll" ELSE "idle"

\* The rest of the loop after readEvents() returned n: what is not an event
\* count, a negative error, is subtracted like one.
Account(n) ==
    /\ revents' = (revents /\ ~(n < count))
    /\ count' = count - n
    /\ nbEvents' = nbEvents + n
    /\ nb' = 0
    /\ pc' = IF count - n # 0 THEN "poll" ELSE "idle"

\* read() fails and readEvents() returns the error, whatever the ring holds.
FillFails ==
    /\ pc = "fill"
    /\ FreeSpace > 0
    /\ errors < MaxErrors /\ errors' = errors + 1
    /\ Account(-1)
    /\ UNCHANGED <<kernel, iio, wakes, ring, event, pending, mEnabled,
                   frameworkVars, armed, undone>>

\* processEvent() of the event taken: a sensor's data is kept in mPendingEvents
\* and the sensor marked in mPendingMask, where it stays.
ProcessEvent == pending' = (pending \/ event' \in Sensor)

\* Fault: an event that is not stored is not followed by next().
ProcessNoNext ==
    /\ pc = "drain"
    /\ nb < count
    /\ ring # <<>>
    /\ event' = Head(ring)
    /\ ring' = IF event' \in mEnabled \cup {Meta} THEN Tail(ring) ELSE ring
    /\ ProcessEvent
    /\ nb' = IF ring' # ring THEN nb + 1 ELSE nb
    /\ UNCHANGED <<kernel, iio, wakes, mEnabled, revents, pc, count, nbEvents,
                   frameworkVars, armed, errors, undone>>

\* The loop of readEvents() works on the oldest event while there is room.
Process ==
    /\ pc = "drain"
    /\ nb < count
    /\ Ring!Take
    /\ ProcessEvent
    /\ \/ event' = Meta /\ nb' = nb + 1 /\ UNCHANGED pc
       \/ event' = TimeBase /\ UNCHANGED <<nb, pc>>
       \/ event' \in Sensor \ mEnabled /\ UNCHANGED <<nb, pc>>
       \/ event' \in mEnabled \ OneShot /\ nb' = nb + 1 /\ UNCHANGED pc
       \/ event' \in mEnabled \cap OneShot /\ pc' = "oneshot" /\ UNCHANGED nb
    /\ UNCHANGED <<kernel, iio, wakes, mEnabled, revents, count, nbEvents,
                   frameworkVars, armed, errors, undone>>

\* Fault: the sensor is left on.
OneShotStays ==
    /\ pc = "oneshot"
    /\ nb' = nb + 1
    /\ armed' = armed - 1
    /\ pc' = "drain"
    /\ UNCHANGED <<kernel, iio, wakes, ring, event, pending, mEnabled, revents,
                   count, nbEvents, frameworkVars, errors, undone>>

\* A one-shot sensor is turned off, and its event stored.
OneShotFired ==
    /\ pc = "oneshot"
    /\ TurnOff(event)
    /\ undone' = (undone \/ (fpc = "activate" /\ iio' # iio))
    /\ nb' = nb + 1
    /\ armed' = armed - 1
    /\ pc' = "drain"
    /\ UNCHANGED <<kernel, wakes, ring, event, pending, revents, count, nbEvents,
                   frameworkVars, errors>>

\* The array is full or the ring is empty: readEvents() returns.
Drained ==
    /\ pc = "drain"
    /\ nb >= count \/ ring = <<>>
    /\ Account(nb)
    /\ UNCHANGED <<kernel, iio, wakes, ring, event, pending, mEnabled,
                   frameworkVars, armed, errors, undone>>

\* poll() of the device and the wake pipe, without waiting if there is an
\* event to return.  One wake message is read.
Poll ==
    /\ pc = "poll"
    /\ \/ /\ kernel # <<>> \/ wakes > 0
          /\ wakes' = IF wakes > 0 THEN wakes - 1 ELSE wakes
          /\ pc' = "check"
       \/ /\ kernel = <<>> /\ wakes = 0 /\ nbEvents # 0
          /\ pc' = "idle"
          /\ UNCHANGED wakes
    /\ revents' = (kernel # <<>>)
    /\ UNCHANGED <<kernel, iio, ring, event, pending, mEnabled, count, nbEvents,
                   nb, frameworkVars, armed, errors, undone>>

\* poll() fails: its error is returned instead of the number of events.
PollFails ==
    /\ pc = "poll"
    /\ errors < MaxErrors /\ errors' = errors + 1
    /\ nbEvents' = -1
    /\ pc' = "idle"
    /\ UNCHANGED <<kernel, iio, wakes, ring, event, pending, mEnabled, revents,
                   count, nb, frameworkVars, armed, undone>>

-----------------------------------------------------------------------------
PollThread == Check \/ Fill \/ Process \/ OneShotFired \/ Drained \/ Poll

Failure == FillFails \/ PollFails

Framework ==
    \/ Activate \/ Wake
    \/ \E s \in Sensor : Batch(s) \/ Deactivate(s)

Next == HubEvent \/ Call \/ PollThread \/ Failure \/ Framework

Spec == Init /\ [][Next]_vars

\* The poll thread runs and calls poll() again and again; a call that turns a
\* sensor on is finished.
Fairness ==
    /\ WF_vars(Call) /\ WF_vars(PollThread)
    /\ WF_vars(Activate) /\ WF_vars(Wake)

FairSpec == Spec /\ Fairness

-----------------------------------------------------------------------------
\* The variables have values of their types.
TypeOK ==
    /\ kernel \in Seq(Event) /\ Len(kernel) <= KernelSize
    /\ ring \in Seq(Event) /\ Len(ring) <= RingSize
    /\ event \in Event \cup {NoEvent}
    /\ iio \in BOOLEAN /\ pending \in BOOLEAN /\ revents \in BOOLEAN
    /\ wakes \in 0 .. MaxWakes /\ mEnabled \subseteq Sensor
    /\ pc \in {"idle", "check", "fill", "drain", "oneshot", "poll"}
    /\ count \in Int /\ nbEvents \in Int /\ nb \in Nat
    /\ fpc \in {"idle", "activate", "wake"}
    /\ handle \in Sensor \cup {NoSensor} /\ (fpc # "idle" => handle \in Sensor)
    /\ armed \in Int /\ errors \in 0 .. MaxErrors /\ undone \in BOOLEAN

\* A one-shot sensor reports once for each time it was turned on, however its
\* events, their reader and the calls that turn it on interleave.
OneShotOnce == armed >= 0

\* While a sensor is on and no call is changing that, the IIO buffer that
\* carries its events is on, in whatever order sensors are turned on and off by
\* the framework and by the poll thread -- unless a one-shot sensor, the last one
\* on, turned itself off between another's batch(), which found it on and left the
\* buffer alone, and that other's activate().
EnabledIsServed == fpc # "activate" /\ mEnabled # {} /\ ~undone => iio

\* The events waiting in the kernel and the ring, oldest first.
Waiting == ring \o kernel

\* The queue from the hub to readEvents(), which the hub fills one by one.
Pipe == INSTANCE EventQueue WITH N <- RingSize + KernelSize, queue <- Waiting

PipeNext == Pipe!Take \/ \E e \in Event : Pipe!Put(<<e>>)

\* From the hub to readEvents() the events are one queue: none is lost,
\* repeated or overtaken, so a flush-complete event follows all the events it
\* confirms.
PipeIsQueue == Pipe!Init /\ [][PipeNext]_<<Waiting, event>>

\* Waiting events are worked on, until none is left or for ever; also those a
\* full array left in the ring.  After a failed read they may wait for others.
EventsFlow ==
    [](errors = 0) =>
        []<>(Waiting = <<>>) \/ []<><<Waiting # <<>> /\ Waiting' = Tail(Waiting)>>_Waiting
=============================================================================
