---------------------------- MODULE AmplifierProofs ----------------------------
(***************************************************************************)
(* What holds of the amplifier for any modes and any length of the         *)
(* time-out.  A mode is not lost because tfa9895_lock keeps the mark from  *)
(* being set between the reading of a mode and its use: the setter then    *)
(* still waits to set it (Announced).  The amplifier is configured while a *)
(* thread plays because the thread that reported it plays on (Playing):    *)
(* nobody cancels it from then until the configuration is done.            *)
(***************************************************************************)
EXTENDS Amplifier, TLAPS

USE AmplifierAssumption

\* Which thread has tfa9895_lock, while no write took it from another.
Owners ==
    ~stolen =>
        /\ pc[Config] \in {"read", "set"} => tfa9895_lock = Config
        /\ pc[Writer] \in {"clear", "read", "set"} => tfa9895_lock = Writer

\* A mode that was changed since a thread read it is still to be marked.
Announced ==
    ~stolen =>
        \A t \in {Config, Writer} :
            At(t, "set") /\ arg[t] # mode => At(Setter, "change")

Configuring == pc[Config] \in {"lock", "read", "set"}

\* The threads in adev_open() and their order.
Sequence == pc[Config] # "none" => At(Opener, "opened")

\* From the opening of the speaker's thread to the end of the configuration nobody
\* cancels, and the lock exists.
Uncancelled ==
    At(Opener, "wait speaker") \/ Configuring =>
        dummybuf_thread_cancel = FALSE /\ dummybuf_thread_lock # Destroyed

\* A thread that plays will play on.
Playing ==
    /\ dummybuf_thread_timeout >= 0
    /\ (At(Opener, "wait speaker") /\ dummybuf_thread_active) \/ Configuring
    => \E d \in pcm : pc[d] \in {"write", "test", "sleep"}

-----------------------------------------------------------------------------
(* The threads *)

\* No two threads are the same.
LEMMA Distinct ==
    /\ \A d \in Dummies : d \in Threads /\ d \notin {Opener, Setter, Config, Writer}
    /\ {Opener, Setter, Config, Writer} \subseteq Threads
    /\ Opener \notin {Setter, Config, Writer} /\ Setter \notin {Config, Writer}
    /\ Config # Writer
BY DEF Threads, Dummies

-----------------------------------------------------------------------------
(* Types *)

LEMMA TypesInit == Init => TypeOK
<1> SUFFICES ASSUME Init PROVE TypeOK
  OBVIOUS
<1>1. pc \in [Threads -> Labels]
  BY DEF Init, Labels
<1>2. dummybuf_thread_timeout \in -1 .. Timeout
  BY DEF Init
<1> QED  BY <1>1, <1>2 DEF Init, TypeOK

LEMMA TypesStep == TypeOK /\ [Next]_vars => TypeOK'
<1> SUFFICES ASSUME TypeOK, [Next]_vars PROVE TypeOK'
  OBVIOUS
<1>p. /\ pc \in [Threads -> Labels] /\ pcm \subseteq Dummies
      /\ dummybuf_thread_timeout \in -1 .. Timeout
      /\ arg \in [{Config, Writer} -> Modes \cup {NULL}]
  BY DEF TypeOK
<1>q. /\ dummybuf_thread_timeout \in Int /\ dummybuf_thread_timeout >= -1
      /\ dummybuf_thread_timeout <= Timeout
  BY <1>p
<1>t. /\ Headphone \in Dummies /\ Speaker \in Dummies /\ Dummies \subseteq Threads
      /\ {Opener, Setter, Config, Writer} \subseteq Threads
  BY DEF Dummies, Threads
<1> USE DEF tfa, shared, dummy, Goto, At
<1>1. ASSUME NEW d \in Dummies, Dummy(d)
      PROVE  TypeOK'
  <2>1. pc' \in [Threads -> Labels]
    <3>1. \E l \in {"start", "setup", "write", "lost", "exit", "test", "sleep", "done"} :
             Goto(d, l)
      BY <1>1 DEF Dummy, DummyStart, DummyLock, DummySetup, DummyWrite, DummyTest, DummyExit
    <3> QED  BY <3>1, <1>p DEF Labels
  <2>2. CASE DummyStart(d) \/ DummyLock(d)
    BY <2>1, <2>2 DEF DummyStart, DummyLock, TypeOK
  <2>3. CASE DummySetup(d) \/ DummyWrite(d)
    <3>1. pcm' \subseteq Dummies
      BY <2>3, <1>p DEF DummySetup, DummyWrite, PcmOpens
    <3> QED  BY <2>1, <2>3, <3>1 DEF DummySetup, DummyWrite, TypeOK
  <2>4. CASE DummyTest(d)
    <3>1. dummybuf_thread_timeout' \in -1 .. Timeout
      BY <2>4, <1>q DEF DummyTest
    <3> QED  BY <2>1, <2>4, <3>1 DEF DummyTest, TypeOK
  <2>5. CASE DummyExit(d)
    BY <2>1, <2>5, <1>p DEF DummyExit, TypeOK
  <2> QED  BY <1>1, <2>2, <2>3, <2>4, <2>5 DEF Dummy
<1>2. ASSUME NEW t \in {Opener, Config}, NEW next \in {"speaker", "done"}, Close(t, next)
      PROVE  TypeOK'
  <2>1. pc' \in [Threads -> Labels]
    <3>1. \E l \in {next, "poll", "joining", "destroy"} : Goto(t, l)
      BY <1>2 DEF Close, CloseCancel, CloseJoin, CloseJoined, CloseDestroy
    <3>2. {next, "poll", "joining", "destroy"} \subseteq Labels
      BY <1>2 DEF Labels
    <3>3. t \in Threads
      BY <1>2, <1>t
    <3>4. PICK l \in Labels : Goto(t, l)
      BY <3>1, <3>2
    <3> QED  BY <3>3, <3>4, <1>p
  <2> QED  BY <1>2, <2>1 DEF Close, CloseCancel, CloseJoin, CloseJoined, CloseDestroy,
              TypeOK
<1>3. CASE OpenHeadphone \/ OpenSpeaker
  <2>1. Timeout \in -1 .. Timeout
    OBVIOUS
  <2>2. pc' \in [Threads -> Labels]
    <3>1. \E l \in {"close", "wait speaker"}, d \in Dummies :
             pc' = [pc EXCEPT ![Opener] = l, ![d] = "new"]
      BY <1>3, <1>t DEF OpenHeadphone, OpenSpeaker
    <3>2. {"close", "wait speaker", "new"} \subseteq Labels
      BY DEF Labels
    <3>3. PICK l \in Labels, d \in Threads :
             pc' = [pc EXCEPT ![Opener] = l, ![d] = "new"]
      BY <3>1, <3>2, <1>t
    <3> QED  BY <3>2, <3>3, <1>p, <1>t
  <2> QED  BY <1>3, <1>t, <2>1, <2>2 DEF OpenHeadphone, OpenSpeaker, DummyOpen, TypeOK
<1>4. CASE SpeakerWaited
  <2>1. pc' \in [Threads -> Labels]
    BY <1>4, <1>p, <1>t DEF SpeakerWaited, Labels
  <2> QED  BY <1>4, <2>1 DEF SpeakerWaited, TypeOK
<1>5. ASSUME NEW t \in {Config, Writer}, NEW next \in {"read", "clear"}, TfaLock(t, next)
      PROVE  TypeOK'
  <2>1. pc' \in [Threads -> Labels]
    BY <1>5, <1>p DEF TfaLock, Labels
  <2> QED  BY <1>5, <2>1 DEF TfaLock, TypeOK
<1>6. ASSUME NEW t \in {Config, Writer}, ReadMode(t)
      PROVE  TypeOK'
  <2>1. pc' \in [Threads -> Labels]
    BY <1>6, <1>p DEF ReadMode, Labels
  <2> QED  BY <1>6, <1>p, <2>1 DEF ReadMode, TypeOK
<1>7. ASSUME NEW t \in {Config, Writer}, NEW ok \in BOOLEAN, SetAmp(t, ok)
      PROVE  /\ tfa9895_init' \in BOOLEAN /\ amp' \in Modes \cup {NULL}
             /\ arg' \in [{Config, Writer} -> Modes \cup {NULL}]
  BY <1>7, <1>p DEF SetAmp, TypeOK
<1>8. ASSUME NEW ok \in BOOLEAN, ConfigSets(ok) \/ WriteSets(ok)
      PROVE  TypeOK'
  <2>1. /\ tfa9895_init' \in BOOLEAN /\ amp' \in Modes \cup {NULL}
        /\ arg' \in [{Config, Writer} -> Modes \cup {NULL}]
    BY <1>7, <1>8 DEF ConfigSets, WriteSets
  <2>2. pc' \in [Threads -> Labels]
    BY <1>8, <1>p DEF ConfigSets, WriteSets, Labels
  <2> QED  BY <1>8, <2>1, <2>2 DEF ConfigSets, WriteSets, TypeOK
<1>9. ASSUME NEW m \in Modes, SetMode(m)
      PROVE  TypeOK'
  <2>1. pc' \in [Threads -> Labels]
    BY <1>9, <1>p DEF SetMode, Labels
  <2> QED  BY <1>9, <2>1 DEF SetMode, TypeOK
<1>a. CASE ModeChanged \/ WriteSeesChange \/ WriteClears \/ WriteUnlocks
  <2>1. pc' \in [Threads -> Labels]
    <3>1. \E l \in {"idle", "lock", "unlock", "read"}, t \in {Setter, Writer} : Goto(t, l)
      BY <1>a DEF ModeChanged, WriteSeesChange, WriteClears, WriteUnlocks
    <3>2. {"idle", "lock", "unlock", "read"} \subseteq Labels
      BY DEF Labels
    <3> QED  BY <3>1, <3>2, <1>p, <1>t
  <2> QED  BY <1>a, <2>1 DEF ModeChanged, WriteSeesChange, WriteClears, WriteUnlocks, TypeOK
<1>b. CASE UNCHANGED vars
  BY <1>b DEF vars, TypeOK
<1> QED  BY <1>1, <1>2, <1>3, <1>4, <1>5, <1>6, <1>8, <1>9, <1>a, <1>b
         DEF Next, AdevOpen, ConfigThread, OutWrite

-----------------------------------------------------------------------------
(* The mode *)

\* The order of the threads in adev_open().
LEMMA SequenceStep == TypeOK /\ Sequence /\ [Next]_vars => Sequence'
<1> SUFFICES ASSUME TypeOK, Sequence, [Next]_vars PROVE Sequence'
  OBVIOUS
<1> USE DEF Sequence, At, Goto
<1>p. pc \in [Threads -> Labels]
  BY DEF TypeOK
<1>s. ASSUME pc'[Config] = pc[Config] \/ pc[Config] # "none",
             pc'[Opener] = pc[Opener] \/ pc[Opener] # "opened"
      PROVE  Sequence'
  BY <1>s
<1>1. ASSUME NEW d \in Dummies, Dummy(d)
      PROVE  Sequence'
  <2>1. pc'[Config] = pc[Config] /\ pc'[Opener] = pc[Opener]
    BY <1>1, <1>p, Distinct DEF Dummy, DummyStart, DummyLock, DummySetup, DummyWrite,
       DummyTest, DummyExit
  <2> QED  BY <2>1, <1>s
<1>2. ASSUME NEW next, Close(Opener, next)
      PROVE  Sequence'
  <2>1. pc'[Config] = pc[Config] /\ pc[Opener] # "opened"
    BY <1>2, <1>p, Distinct DEF Close, CloseCancel, CloseJoin, CloseJoined, CloseDestroy
  <2> QED  BY <2>1, <1>s
<1>3. ASSUME NEW next, Close(Config, next)
      PROVE  Sequence'
  <2>1. pc'[Opener] = pc[Opener] /\ pc[Config] # "none"
    BY <1>3, <1>p, Distinct DEF Close, CloseCancel, CloseJoin, CloseJoined, CloseDestroy
  <2> QED  BY <2>1, <1>s
<1>4. CASE OpenHeadphone \/ OpenSpeaker
  <2>1. pc'[Config] = pc[Config] /\ pc[Opener] # "opened"
    BY <1>4, <1>p, Distinct DEF OpenHeadphone, OpenSpeaker, Dummies
  <2> QED  BY <2>1, <1>s
<1>5. CASE SpeakerWaited
  BY <1>5, <1>p, Distinct DEF SpeakerWaited
<1>6. ASSUME NEW t \in {Config, Writer}, NEW next, TfaLock(t, next) \/ ReadMode(t)
      PROVE  Sequence'
  <2>1. pc'[Opener] = pc[Opener] /\ (pc'[Config] = pc[Config] \/ pc[Config] # "none")
    BY <1>6, <1>p, Distinct DEF TfaLock, ReadMode
  <2> QED  BY <2>1, <1>s
<1>7. ASSUME NEW ok, ConfigSets(ok) \/ WriteSets(ok)
      PROVE  Sequence'
  <2>1. pc'[Opener] = pc[Opener] /\ (pc'[Config] = pc[Config] \/ pc[Config] # "none")
    BY <1>7, <1>p, Distinct DEF ConfigSets, WriteSets, SetAmp
  <2> QED  BY <2>1, <1>s
<1>8. ASSUME NEW m, SetMode(m)
      PROVE  Sequence'
  BY <1>8, <1>p, Distinct, <1>s DEF SetMode
<1>9. CASE ModeChanged \/ WriteSeesChange \/ WriteClears \/ WriteUnlocks
  <2>1. pc'[Opener] = pc[Opener] /\ pc'[Config] = pc[Config]
    BY <1>9, <1>p, Distinct DEF ModeChanged, WriteSeesChange, WriteClears, WriteUnlocks
  <2> QED  BY <2>1, <1>s
<1>a. CASE UNCHANGED vars
  BY <1>a, <1>s DEF vars
<1> QED  BY <1>1, <1>2, <1>3, <1>4, <1>5, <1>6, <1>7, <1>8, <1>9, <1>a
         DEF Next, AdevOpen, ConfigThread, OutWrite

\* A mode that was read and has changed since is announced by the setter, which
\* waits for the lock that the reader has.
Mode == Owners /\ Announced /\ ModeIsNotLost

LEMMA ModeStep == TypeOK /\ Sequence /\ Mode /\ [Next]_vars => Mode'
<1> SUFFICES ASSUME TypeOK, Sequence, Mode, [Next]_vars PROVE Mode'
  OBVIOUS
<1> USE DEF Mode, Owners, Announced, ModeIsNotLost, OnItsWay, At, Goto
<1>p. /\ pc \in [Threads -> Labels]
      /\ arg \in [{Config, Writer} -> Modes \cup {NULL}]
      /\ stolen \in BOOLEAN
  BY DEF TypeOK
<1>s. ASSUME UNCHANGED tfa, pc'[Setter] = pc[Setter],
             \A t \in {Config, Writer} :
                 \/ pc'[t] = pc[t]
                 \/ pc[t] \notin {"read", "set"} /\ pc'[t] \notin {"clear", "read", "set"}
      PROVE  Mode'
  BY <1>s DEF tfa
<1>1. ASSUME NEW d \in Dummies, Dummy(d)
      PROVE  Mode'
  <2>1. pc'[Config] = pc[Config] /\ pc'[Writer] = pc[Writer] /\ pc'[Setter] = pc[Setter]
    BY <1>1, <1>p, Distinct DEF Dummy, DummyStart, DummyLock, DummySetup, DummyWrite,
       DummyTest, DummyExit
  <2>2. UNCHANGED tfa
    BY <1>1 DEF Dummy, DummyStart, DummyLock, DummySetup, DummyWrite, DummyTest, DummyExit
  <2> QED  BY <2>1, <2>2, <1>s
<1>2. ASSUME NEW t \in {Opener, Config}, NEW next \in {"speaker", "done"}, Close(t, next)
      PROVE  Mode'
  <2>1. /\ pc'[Writer] = pc[Writer] /\ pc'[Setter] = pc[Setter]
        /\ \/ pc'[Config] = pc[Config]
           \/ pc[Config] \notin {"read", "set"} /\ pc'[Config] \notin {"clear", "read", "set"}
    BY <1>2, <1>p, Distinct DEF Close, CloseCancel, CloseJoin, CloseJoined, CloseDestroy
  <2>2. UNCHANGED tfa
    BY <1>2 DEF Close, CloseCancel, CloseJoin, CloseJoined, CloseDestroy
  <2> QED  BY <2>1, <2>2, <1>s
<1>3. CASE OpenHeadphone \/ OpenSpeaker
  <2>1. pc'[Config] = pc[Config] /\ pc'[Writer] = pc[Writer] /\ pc'[Setter] = pc[Setter]
    BY <1>3, <1>p, Distinct DEF OpenHeadphone, OpenSpeaker, Dummies
  <2> QED  BY <1>3, <2>1, <1>s DEF OpenHeadphone, OpenSpeaker
<1>4. CASE SpeakerWaited
  <2>1. pc[Config] = "none"
    BY <1>4 DEF SpeakerWaited, Sequence
  <2>2. /\ pc'[Writer] = pc[Writer] /\ pc'[Setter] = pc[Setter]
        /\ pc'[Config] \in {"none", "lock"}
    BY <1>4, <2>1, <1>p, Distinct DEF SpeakerWaited
  <2> QED  BY <1>4, <2>1, <2>2, <1>s DEF SpeakerWaited
<1>5. CASE TfaLock(Config, "read") \/ TfaLock(Writer, "clear")
  BY <1>5, <1>p, Distinct DEF TfaLock
<1>6. ASSUME NEW t \in {Config, Writer}, ReadMode(t)
      PROVE  Mode'
  BY <1>6, <1>p, Distinct DEF ReadMode
<1>7. ASSUME NEW ok \in BOOLEAN, ConfigSets(ok)
      PROVE  Mode'
  BY <1>7, <1>p, Distinct DEF ConfigSets, SetAmp
<1>8. ASSUME NEW ok \in BOOLEAN, WriteSets(ok)
      PROVE  Mode'
  BY <1>8, <1>p, Distinct DEF WriteSets, SetAmp
<1>9. ASSUME NEW m \in Modes, SetMode(m)
      PROVE  Mode'
  BY <1>9, <1>p, Distinct DEF SetMode
<1>a. CASE ModeChanged
  BY <1>a, <1>p, Distinct DEF ModeChanged
<1>b. CASE WriteSeesChange
  BY <1>b, <1>p, Distinct, <1>s DEF WriteSeesChange
<1>c. CASE WriteClears
  BY <1>c, <1>p, Distinct DEF WriteClears
<1>d. CASE WriteUnlocks
  BY <1>d, <1>p, Distinct DEF WriteUnlocks
<1>e. CASE UNCHANGED vars
  BY <1>e, <1>s DEF vars
<1> QED  BY <1>1, <1>2, <1>3, <1>4, <1>5, <1>6, <1>7, <1>8, <1>9, <1>a, <1>b, <1>c,
            <1>d, <1>e DEF Next, AdevOpen, ConfigThread, OutWrite

-----------------------------------------------------------------------------
(* The clock of the amplifier *)

\* A step of a thread other than the dummy threads and those in adev_open().
LEMMA OtherThreads ==
    ASSUME TypeOK,
           \/ \E t \in {Config, Writer}, next \in {"read", "clear"} : TfaLock(t, next)
           \/ \E t \in {Config, Writer} : ReadMode(t)
           \/ \E ok \in BOOLEAN : ConfigSets(ok) \/ WriteSets(ok)
           \/ \E m \in Modes : SetMode(m)
           \/ ModeChanged \/ WriteSeesChange \/ WriteClears \/ WriteUnlocks
    PROVE  /\ UNCHANGED <<dummybuf_thread_timeout, dummybuf_thread_cancel,
                           dummybuf_thread_active, dummybuf_thread_lock, pcm>>
           /\ \A d \in Dummies \cup {Opener} : pc'[d] = pc[d]
           /\ Configuring' => Configuring
<1> USE DEF dummy, shared, Goto, At, Configuring
<1>p. pc \in [Threads -> Labels]
  BY DEF TypeOK
<1>1. CASE \E t \in {Config, Writer}, next \in {"read", "clear"} : TfaLock(t, next)
  BY <1>1, <1>p, Distinct DEF TfaLock
<1>2. CASE \E t \in {Config, Writer} : ReadMode(t)
  BY <1>2, <1>p, Distinct DEF ReadMode
<1>3. CASE \E ok \in BOOLEAN : ConfigSets(ok) \/ WriteSets(ok)
  BY <1>3, <1>p, Distinct DEF ConfigSets, WriteSets, SetAmp
<1>4. CASE \E m \in Modes : SetMode(m)
  BY <1>4, <1>p, Distinct DEF SetMode
<1>5. CASE ModeChanged \/ WriteSeesChange \/ WriteClears \/ WriteUnlocks
  BY <1>5, <1>p, Distinct DEF ModeChanged, WriteSeesChange, WriteClears, WriteUnlocks
<1> QED  BY <1>1, <1>2, <1>3, <1>4, <1>5

\* While the speaker's thread is waited for or the amplifier configured.
Needed == At(Opener, "wait speaker") \/ Configuring

\* A thread that closes a dummy thread does so before or after that.
LEMMA ClosedOutside ==
    ASSUME TypeOK, Sequence, Close(Opener, "speaker") \/ Close(Config, "done")
    PROVE  ~Needed'
<1> USE DEF Needed, Configuring, Sequence, Close, CloseCancel, CloseJoin, CloseJoined,
            CloseDestroy, Goto, At
<1>p. pc \in [Threads -> Labels]
  BY DEF TypeOK
<1>1. CASE Close(Opener, "speaker")
  <2>1. pc[Config] = "none" /\ pc'[Config] = pc[Config]
    BY <1>1, <1>p, Distinct
  <2> QED  BY <1>1, <2>1, <1>p, Distinct
<1>2. CASE Close(Config, "done")
  <2>1. pc[Opener] = "opened" /\ pc'[Opener] = pc[Opener]
    BY <1>2, <1>p, Distinct
  <2> QED  BY <1>2, <2>1, <1>p, Distinct
<1> QED  BY <1>1, <1>2

\* Opening the headphones' thread is before that, too, and nothing but the opening of
\* the speaker's thread begins it.
LEMMA OpenedOutside ==
    ASSUME TypeOK, Sequence, OpenHeadphone \/ OpenSpeaker
    PROVE  ~Configuring' /\ (OpenHeadphone => ~Needed')
<1> USE DEF Needed, Configuring, Sequence, OpenHeadphone, OpenSpeaker, At
<1>p. pc \in [Threads -> Labels]
  BY DEF TypeOK
<1>1. pc[Config] = "none" /\ pc'[Config] = pc[Config]
  BY <1>p, Distinct DEF Dummies
<1> QED  BY <1>1, <1>p, Distinct DEF Dummies

LEMMA UncancelledStep == TypeOK /\ Sequence /\ Uncancelled /\ [Next]_vars => Uncancelled'
<1> SUFFICES ASSUME TypeOK, Sequence, Uncancelled, [Next]_vars PROVE Uncancelled'
  OBVIOUS
<1>p. pc \in [Threads -> Labels]
  BY DEF TypeOK
<1>s. ASSUME Needed' => Needed,
             dummybuf_thread_cancel' = dummybuf_thread_cancel \/ dummybuf_thread_cancel' = FALSE,
             \/ dummybuf_thread_lock' = dummybuf_thread_lock
             \/ dummybuf_thread_lock' # Destroyed
      PROVE  Uncancelled'
  BY <1>s DEF Uncancelled, Needed
<1>1. ASSUME NEW d \in Dummies, Dummy(d)
      PROVE  Uncancelled'
  <2> USE DEF Dummy, DummyStart, DummyLock, DummySetup, DummyWrite, DummyTest, DummyExit,
              Goto, At, dummy, shared
  <2>1. pc'[Config] = pc[Config] /\ pc'[Opener] = pc[Opener]
    BY <1>1, <1>p, Distinct
  <2>2. dummybuf_thread_cancel' = dummybuf_thread_cancel \/ dummybuf_thread_cancel' = FALSE
    BY <1>1
  <2>3. \/ dummybuf_thread_lock' = dummybuf_thread_lock
        \/ dummybuf_thread_lock' \in {d, Free}
    BY <1>1
  <2>4. d # Destroyed /\ Free # Destroyed
    OBVIOUS
  <2> QED  BY <2>1, <2>2, <2>3, <2>4, <1>s DEF Needed, Configuring
<1>2. CASE Close(Opener, "speaker") \/ Close(Config, "done")
  BY <1>2, ClosedOutside DEF Uncancelled, Needed
<1>3. CASE OpenHeadphone
  BY <1>3, OpenedOutside DEF Uncancelled, Needed
<1>4. CASE OpenSpeaker
  BY <1>4 DEF OpenSpeaker, DummyOpen, Uncancelled
<1>5. CASE SpeakerWaited
  <2>1. Needed
    BY <1>5 DEF SpeakerWaited, Needed
  <2> QED  BY <1>5, <2>1, <1>s DEF SpeakerWaited, dummy, shared
<1>6. ASSUME \/ \E t \in {Config, Writer}, next \in {"read", "clear"} : TfaLock(t, next)
             \/ \E t \in {Config, Writer} : ReadMode(t)
             \/ \E ok \in BOOLEAN : ConfigSets(ok) \/ WriteSets(ok)
             \/ \E m \in Modes : SetMode(m)
             \/ ModeChanged \/ WriteSeesChange \/ WriteClears \/ WriteUnlocks
      PROVE  Uncancelled'
  <2>1. /\ UNCHANGED <<dummybuf_thread_cancel, dummybuf_thread_lock>>
        /\ pc'[Opener] = pc[Opener] /\ (Configuring' => Configuring)
    BY <1>6, OtherThreads
  <2> QED  BY <2>1, <1>s DEF Needed, At
<1>7. CASE UNCHANGED vars
  BY <1>7, <1>s DEF vars, dummy, shared, Needed, Configuring, At
<1> QED  BY <1>1, <1>2, <1>3, <1>4, <1>5, <1>6, <1>7
         DEF Next, AdevOpen, ConfigThread, OutWrite

\* A dummy thread with the PCM, in its loop.
Plays(d) == d \in pcm /\ pc[d] \in {"write", "test", "sleep"}

LEMMA PlayingStep ==
    TypeOK /\ Sequence /\ Uncancelled /\ Playing /\ [Next]_vars => Playing'
<1> SUFFICES ASSUME TypeOK, Sequence, Uncancelled, Playing, [Next]_vars,
                    Needed', dummybuf_thread_timeout' >= 0,
                    dummybuf_thread_active' \/ Configuring'
             PROVE  \E d \in Dummies : Plays(d)'
  <2>1. ASSUME NEW d \in Dummies, Plays(d)'
        PROVE  \E e \in pcm' : pc'[e] \in {"write", "test", "sleep"}
    BY <2>1 DEF Plays
  <2> QED  BY <2>1 DEF Playing, Needed
<1>p. /\ pc \in [Threads -> Labels] /\ pcm \subseteq Dummies
      /\ dummybuf_thread_timeout \in Int
      /\ dummybuf_thread_active \in BOOLEAN /\ dummybuf_thread_cancel \in BOOLEAN
  BY DEF TypeOK
\* Before the step a thread plays, if one is needed and reported.
<1>q. ASSUME Needed, dummybuf_thread_timeout >= 0, dummybuf_thread_active \/ Configuring
      PROVE  \E d \in Dummies : Plays(d)
  BY <1>q, <1>p DEF Playing, Needed, Plays
<1>s. ASSUME UNCHANGED <<dummybuf_thread_timeout, dummybuf_thread_active, pcm>>,
             \A d \in Dummies : pc'[d] = pc[d],
             Needed, Configuring' => Configuring \/ dummybuf_thread_active
      PROVE  \E d \in Dummies : Plays(d)'
  <2>1. PICK d \in Dummies : Plays(d)
    BY <1>s, <1>q
  <2> QED  BY <1>s, <2>1 DEF Plays
<1>1. ASSUME NEW d \in Dummies, Dummy(d)
      PROVE  \E e \in Dummies : Plays(e)'
  <2> USE DEF Goto, At, dummy, shared
  <2>1. pc'[Config] = pc[Config] /\ pc'[Opener] = pc[Opener]
    BY <1>1, <1>p, Distinct DEF Dummy, DummyStart, DummyLock, DummySetup, DummyWrite,
       DummyTest, DummyExit
  <2>2. Needed /\ (Configuring' => Configuring)
    BY <2>1 DEF Needed, Configuring
  <2>3. dummybuf_thread_cancel = FALSE /\ dummybuf_thread_lock # Destroyed
    BY <2>2 DEF Needed, Uncancelled
  <2>4. ASSUME NEW e \in Dummies, Plays(e), e # d
        PROVE  Plays(e)'
    <3>1. pc'[e] = pc[e]
      BY <1>1, <2>4, <1>p, Distinct DEF Dummy, DummyStart, DummyLock, DummySetup,
         DummyWrite, DummyTest, DummyExit
    <3>2. e \in pcm'
      BY <1>1, <2>4 DEF Dummy, DummyStart, DummyLock, DummySetup, DummyWrite, DummyTest,
         DummyExit, PcmOpens, Plays
    <3> QED  BY <2>4, <3>1, <3>2 DEF Plays
  <2>5. ASSUME Plays(d)
        PROVE  Plays(d)'
    <3>1. CASE DummyLock(d)
      BY <3>1, <2>5, <2>3, <1>p, Distinct DEF DummyLock, Plays
    <3>2. CASE DummyWrite(d)
      BY <3>2, <2>5, <1>p, Distinct DEF DummyWrite, Plays
    <3>3. CASE DummyTest(d)
      <4>1. ~LoopEnds
        BY <3>3, <2>3, <1>p DEF DummyTest, LoopEnds
      <4> QED  BY <3>3, <4>1, <2>5, <1>p, Distinct DEF DummyTest, Plays
    <3> QED  BY <1>1, <2>5, <3>1, <3>2, <3>3 DEF Dummy, DummyStart, DummySetup, DummyExit,
             Plays
  <2>6. CASE DummyWrite(d) /\ d \in pcm
    BY <2>6, <1>p, Distinct DEF DummyWrite, Plays
  <2>7. CASE ~(DummyWrite(d) /\ d \in pcm)
    <3>1. dummybuf_thread_active' => dummybuf_thread_active
      BY <1>1, <2>7 DEF Dummy, DummyStart, DummyLock, DummySetup, DummyWrite, DummyTest,
         DummyExit
    <3>2. dummybuf_thread_timeout >= 0
      BY <1>1, <1>p DEF Dummy, DummyStart, DummyLock, DummySetup, DummyWrite, DummyTest,
         DummyExit
    <3>3. PICK e \in Dummies : Plays(e)
      BY <3>1, <3>2, <2>2, <1>q
    <3> QED  BY <3>3, <2>4, <2>5
  <2> QED  BY <2>6, <2>7
<1>2. CASE Close(Opener, "speaker") \/ Close(Config, "done")
  BY <1>2, ClosedOutside
<1>3. CASE OpenHeadphone
  BY <1>3, OpenedOutside
<1>4. CASE OpenSpeaker
  <2>1. ~dummybuf_thread_active'
    BY <1>4 DEF OpenSpeaker, DummyOpen
  <2> QED  BY <1>4, <2>1, OpenedOutside
<1>5. CASE SpeakerWaited
  <2>1. /\ UNCHANGED <<dummybuf_thread_timeout, dummybuf_thread_active, pcm>>
        /\ \A d \in Dummies : pc'[d] = pc[d]
        /\ Needed
    BY <1>5, <1>p, Distinct DEF SpeakerWaited, dummy, shared, Needed, Goto
  <2>2. Configuring' => Configuring \/ dummybuf_thread_active
    BY <1>5, <1>p, Distinct DEF SpeakerWaited, SpeakerActive, Configuring, Goto
  <2> QED  BY <2>1, <2>2, <1>s
<1>6. ASSUME \/ \E t \in {Config, Writer}, next \in {"read", "clear"} : TfaLock(t, next)
             \/ \E t \in {Config, Writer} : ReadMode(t)
             \/ \E ok \in BOOLEAN : ConfigSets(ok) \/ WriteSets(ok)
             \/ \E m \in Modes : SetMode(m)
             \/ ModeChanged \/ WriteSeesChange \/ WriteClears \/ WriteUnlocks
      PROVE  \E d \in Dummies : Plays(d)'
  <2>1. /\ UNCHANGED <<dummybuf_thread_timeout, dummybuf_thread_active, pcm>>
        /\ \A d \in Dummies \cup {Opener} : pc'[d] = pc[d]
        /\ Configuring' => Configuring
    BY <1>6, OtherThreads
  <2>2. Needed
    BY <2>1 DEF Needed, At
  <2> QED  BY <2>1, <2>2, <1>s
<1>7. CASE UNCHANGED vars
  BY <1>7, <1>s DEF vars, dummy, shared, Needed, Configuring, At
<1> QED  BY <1>1, <1>2, <1>3, <1>4, <1>5, <1>6, <1>7
         DEF Next, AdevOpen, ConfigThread, OutWrite

-----------------------------------------------------------------------------
(* The theorems *)

\* Every variable of the amplifier has its type.
THEOREM TypeCorrect == Spec => []TypeOK
<1>1. TypeOK /\ [Next]_vars => TypeOK'
  BY TypesStep
<1> QED  BY TypesInit, <1>1, PTL DEF Spec

LEMMA SequenceCorrect == Spec => []Sequence
<1>1. Init => Sequence
  BY Distinct DEF Init, Sequence
<1> QED  BY <1>1, TypeCorrect, SequenceStep, PTL DEF Spec

\* While the last configuration of the amplifier succeeded and no write released a
\* lock it never took, no change of the mode is lost on its way to the amplifier.
THEOREM ModeCorrect == Spec => []ModeIsNotLost
<1>1. Init => Mode
  BY Distinct DEF Init, Mode, Owners, Announced, ModeIsNotLost, At
<1>2. Mode => ModeIsNotLost
  BY DEF Mode
<1> QED  BY <1>1, <1>2, TypeCorrect, SequenceCorrect, ModeStep, PTL DEF Spec

\* The amplifier is configured while a dummy thread plays.
THEOREM PlayingCorrect == Spec => []ConfiguredWhilePlaying
<1>1. Init => Uncancelled /\ Playing
  BY Distinct DEF Init, Uncancelled, Playing, Configuring, At
<1>2. TypeOK /\ Playing => ConfiguredWhilePlaying
  <2> SUFFICES ASSUME TypeOK, Playing, Configuring, ~(dummybuf_thread_timeout < 0)
               PROVE  pcm # {}
    BY DEF Configuring, ConfiguredWhilePlaying
  <2>1. dummybuf_thread_timeout >= 0
    BY DEF TypeOK
  <2> QED  BY <2>1 DEF Playing
<1> QED  BY <1>1, <1>2, TypeCorrect, SequenceCorrect, UncancelledStep, PlayingStep, PTL
         DEF Spec

=============================================================================
