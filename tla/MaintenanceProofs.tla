-------------------------- MODULE MaintenanceProofs --------------------------
(***************************************************************************)
(* The plugin's background work for any channels, rows, batches and        *)
(* faults: the worker loop is drained and its timers are disarmed before   *)
(* its thread is joined, and no sweep settles a row against the channel.   *)
(***************************************************************************)
EXTENDS Maintenance, SequenceTheorems, TLAPS

(* x is an element of the sequence. *)
Holds(s, x) == \E i \in 1..Len(s) : s[i] = x

LEMMA ConcatHolds ==
  ASSUME NEW S, NEW s \in Seq(S), NEW t \in Seq(S), NEW x
  PROVE  Holds(s \o t, x) <=> Holds(s, x) \/ Holds(t, x)
<1>1. Len(s) \in Nat /\ Len(t) \in Nat /\ Len(s \o t) = Len(s) + Len(t)
  OBVIOUS
<1>2. \A i \in 1..Len(s) : (s \o t)[i] = s[i] /\ i \in 1..Len(s \o t)
  BY <1>1
<1>3. \A i \in 1..Len(t) : (s \o t)[Len(s) + i] = t[i] /\ Len(s) + i \in 1..Len(s \o t)
  BY <1>1
<1>4. ASSUME NEW i \in 1..Len(s \o t)
      PROVE  \/ i \in 1..Len(s)
             \/ i - Len(s) \in 1..Len(t) /\ (s \o t)[i] = t[i - Len(s)]
  BY <1>1
<1> QED
  BY <1>2, <1>3, <1>4 DEF Holds

LEMMA OneHolds ==
  ASSUME NEW S, NEW x \in S, NEW y
  PROVE  <<x>> \in Seq(S) /\ (Holds(<<x>>, y) <=> x = y)
BY DEF Holds

LEMMA NoneHolds ==
  ASSUME NEW S, NEW y
  PROVE  <<>> \in Seq(S) /\ ~Holds(<<>>, y)
BY DEF Holds

(* A task posted only when the sweep is configured. *)
LEMMA SweepTask ==
  ASSUME NEW task \in Tasks, NEW y
  PROVE  /\ WhenSweeping(task) \in Seq(Tasks)
         /\ Holds(WhenSweeping(task), y) => SweepEnabled /\ y = task
         /\ SweepEnabled => Holds(WhenSweeping(task), task)
<1>1. CASE SweepEnabled
  <2>1. WhenSweeping(task) = <<task>>
    BY <1>1 DEF WhenSweeping
  <2>2. /\ <<task>> \in Seq(Tasks)
        /\ Holds(<<task>>, y) => y = task
        /\ Holds(<<task>>, task)
    BY OneHolds
  <2> QED
    BY <1>1, <2>1, <2>2, Zenon
<1>2. CASE ~SweepEnabled
  <2>1. WhenSweeping(task) = <<>>
    BY <1>2 DEF WhenSweeping
  <2>2. <<>> \in Seq(Tasks) /\ ~Holds(<<>>, y)
    BY NoneHolds
  <2> QED
    BY <1>2, <2>1, <2>2, Zenon
<1> QED
  BY <1>1, <1>2, Zenon

(* And one posted only when the WeChat channel is registered. *)
LEMMA RefreshTask ==
  ASSUME NEW task \in Tasks, NEW reg, NEW y
  PROVE  /\ WhenRefreshing(task, reg) \in Seq(Tasks)
         /\ Holds(WhenRefreshing(task, reg), y) => "wechat" \in reg /\ y = task
         /\ "wechat" \in reg => Holds(WhenRefreshing(task, reg), task)
<1>1. CASE "wechat" \in reg
  <2>1. WhenRefreshing(task, reg) = <<task>>
    BY <1>1 DEF WhenRefreshing
  <2>2. /\ <<task>> \in Seq(Tasks)
        /\ Holds(<<task>>, y) => y = task
        /\ Holds(<<task>>, task)
    BY OneHolds
  <2> QED
    BY <1>1, <2>1, <2>2, Zenon
<1>2. CASE "wechat" \notin reg
  <2>1. WhenRefreshing(task, reg) = <<>>
    BY <1>2 DEF WhenRefreshing
  <2>2. <<>> \in Seq(Tasks) /\ ~Holds(<<>>, y)
    BY NoneHolds
  <2> QED
    BY <1>2, <2>1, <2>2, Zenon
<1> QED
  BY <1>1, <1>2, Zenon

(* The tasks posted at the start. *)
LEMMA StartTasks ==
  ASSUME NEW reg, NEW s, s = WhenSweeping("armSweep") \o <<"startAll">> \o WhenRefreshing("armRefresh", reg)
  PROVE  /\ s \in Seq(Tasks) /\ Holds(s, "startAll")
         /\ \A x : Holds(s, x) => \/ x = "armSweep" /\ SweepEnabled
                                  \/ x = "startAll"
                                  \/ x = "armRefresh" /\ "wechat" \in reg
<1> DEFINE a == WhenSweeping("armSweep")
           b == <<"startAll">>
           c == WhenRefreshing("armRefresh", reg)
<1>0. "armSweep" \in Tasks /\ "startAll" \in Tasks /\ "armRefresh" \in Tasks
  BY DEF Tasks
<1>1. a \in Seq(Tasks) /\ (\A x : Holds(a, x) => SweepEnabled /\ x = "armSweep")
  BY <1>0, SweepTask, Zenon
<1>2. b \in Seq(Tasks) /\ (\A x : Holds(b, x) <=> x = "startAll")
  <2>1. ASSUME NEW x PROVE b \in Seq(Tasks) /\ (Holds(b, x) <=> x = "startAll")
    BY <1>0, OneHolds
  <2> QED
    BY <2>1
<1>3. c \in Seq(Tasks) /\ (\A x : Holds(c, x) => "wechat" \in reg /\ x = "armRefresh")
  BY <1>0, RefreshTask, Zenon
<1> HIDE DEF a, b, c
<1> DEFINE ab == a \o b
<1>4. ab \in Seq(Tasks) /\ (\A x : Holds(ab, x) <=> Holds(a, x) \/ Holds(b, x))
  BY <1>1, <1>2, ConcatHolds
<1>5. s = ab \o c
  BY DEF a, b, c
<1> HIDE DEF ab
<1>6. ab \o c \in Seq(Tasks) /\ (\A x : Holds(ab \o c, x) <=> Holds(ab, x) \/ Holds(c, x))
  BY <1>3, <1>4, ConcatHolds
<1> QED
  BY <1>1, <1>2, <1>3, <1>4, <1>5, <1>6, Zenon

(* The tasks posted by shutdown. *)
LEMMA StopTasks ==
  ASSUME NEW reg, NEW s, s = WhenSweeping("disarmSweep") \o WhenRefreshing("disarmRefresh", reg)
  PROVE  /\ s \in Seq(Tasks)
         /\ \A x : Holds(s, x) => x \in {"disarmSweep", "disarmRefresh"}
         /\ SweepEnabled => Holds(s, "disarmSweep")
         /\ "wechat" \in reg => Holds(s, "disarmRefresh")
<1> DEFINE a == WhenSweeping("disarmSweep")
           c == WhenRefreshing("disarmRefresh", reg)
<1>0. "disarmSweep" \in Tasks /\ "disarmRefresh" \in Tasks
  BY DEF Tasks
<1>1. /\ a \in Seq(Tasks) /\ (\A x : Holds(a, x) => x = "disarmSweep")
      /\ SweepEnabled => Holds(a, "disarmSweep")
  BY <1>0, SweepTask, Zenon
<1>2. /\ c \in Seq(Tasks) /\ (\A x : Holds(c, x) => x = "disarmRefresh")
      /\ "wechat" \in reg => Holds(c, "disarmRefresh")
  BY <1>0, RefreshTask, Zenon
<1>3. s = a \o c
  OBVIOUS
<1> HIDE DEF a, c
<1>4. a \o c \in Seq(Tasks) /\ (\A x : Holds(a \o c, x) <=> Holds(a, x) \/ Holds(c, x))
  BY <1>1, <1>2, ConcatHolds
<1> QED
  BY <1>1, <1>2, <1>3, <1>4, Zenon

----------------------------------------------------------------------------
(* The worker loop's queue *)

LEMMA QueuedHolds == \A x : Queued(x) <=> Holds(queue, x)
BY DEF Queued, Holds

(* Every a comes before every b. *)
Before(s, a, b) == \A i, j \in 1..Len(s) : s[i] = a /\ s[j] = b => i < j

LEMMA ConcatBefore ==
  ASSUME NEW S, NEW s \in Seq(S), NEW t \in Seq(S), NEW a, NEW b,
         Before(s, a, b), ~Holds(t, a)
  PROVE  Before(s \o t, a, b)
<1>1. Len(s) \in Nat /\ Len(t) \in Nat /\ Len(s \o t) = Len(s) + Len(t)
  OBVIOUS
<1>2. ASSUME NEW i \in 1..Len(s \o t)
      PROVE  \/ i \in 1..Len(s) /\ (s \o t)[i] = s[i]
             \/ i > Len(s) /\ i - Len(s) \in 1..Len(t) /\ (s \o t)[i] = t[i - Len(s)]
  BY <1>1
<1>3. ASSUME NEW i \in 1..Len(s \o t), NEW j \in 1..Len(s \o t),
             (s \o t)[i] = a, (s \o t)[j] = b
      PROVE  i < j
  <2>1. i \in 1..Len(s) /\ s[i] = a
    BY <1>2, <1>3 DEF Holds
  <2>2. CASE j \in 1..Len(s) /\ (s \o t)[j] = s[j]
    BY <1>3, <2>1, <2>2 DEF Before
  <2>3. CASE j > Len(s)
    BY <1>1, <2>1, <2>3
  <2> QED
    BY <1>2, <2>2, <2>3
<1> QED
  BY <1>3 DEF Before

LEMMA NoneBefore ==
  ASSUME NEW s, NEW a, NEW b, ~Holds(s, a) \/ ~Holds(s, b)
  PROVE  Before(s, a, b)
BY DEF Holds, Before

(* Running the first task. *)
LEMMA TailFacts ==
  ASSUME NEW S, NEW s \in Seq(S), s # <<>>
  PROVE  /\ Tail(s) \in Seq(S) /\ Head(s) \in S /\ Len(s) \in Nat \ {0}
         /\ Len(Tail(s)) = Len(s) - 1
         /\ s[1] = Head(s)
         /\ \A i \in 1..Len(Tail(s)) : i + 1 \in 1..Len(s) /\ Tail(s)[i] = s[i + 1]
         /\ \A i \in 1..Len(s) : i = 1 \/ (i - 1 \in 1..Len(Tail(s)) /\ Tail(s)[i - 1] = s[i])
<1>1. Tail(s) \in Seq(S) /\ Head(s) \in S /\ Len(s) \in Nat \ {0} /\ Len(Tail(s)) = Len(s) - 1
  OBVIOUS
<1>2. s[1] = Head(s)
  OBVIOUS
<1>3. ASSUME NEW i \in 1..Len(Tail(s)) PROVE i + 1 \in 1..Len(s) /\ Tail(s)[i] = s[i + 1]
  BY <1>1
<1>4. ASSUME NEW i \in 1..Len(s), i # 1 PROVE i - 1 \in 1..Len(Tail(s)) /\ Tail(s)[i - 1] = s[i]
  <2>1. i - 1 \in 1..Len(Tail(s)) /\ (i - 1) + 1 = i
    BY <1>1, <1>4
  <2> QED
    BY <1>3, <2>1
<1> QED
  BY <1>1, <1>2, <1>3, <1>4

LEMMA TailHolds ==
  ASSUME NEW S, NEW s \in Seq(S), s # <<>>, NEW x
  PROVE  Holds(s, x) <=> Head(s) = x \/ Holds(Tail(s), x)
<1>1. 1 \in 1..Len(s) /\ s[1] = Head(s)
  BY TailFacts
<1>2. ASSUME NEW i \in 1..Len(s), s[i] = x PROVE Head(s) = x \/ Holds(Tail(s), x)
  <2>1. i = 1 \/ (i - 1 \in 1..Len(Tail(s)) /\ Tail(s)[i - 1] = s[i])
    BY TailFacts
  <2> QED
    BY <1>1, <1>2, <2>1 DEF Holds
<1>3. ASSUME NEW i \in 1..Len(Tail(s)), Tail(s)[i] = x PROVE Holds(s, x)
  <2>1. i + 1 \in 1..Len(s) /\ Tail(s)[i] = s[i + 1]
    BY TailFacts
  <2> QED
    BY <1>3, <2>1 DEF Holds
<1>4. Head(s) = x => Holds(s, x)
  BY <1>1 DEF Holds
<1> QED
  BY <1>2, <1>3, <1>4 DEF Holds

LEMMA TailBefore ==
  ASSUME NEW S, NEW s \in Seq(S), s # <<>>, NEW a, NEW b, Before(s, a, b), a # b
  PROVE  /\ Before(Tail(s), a, b)
         /\ Head(s) = b => ~Holds(s, a)
<1>1. ASSUME NEW i \in 1..Len(Tail(s)), NEW j \in 1..Len(Tail(s)), Tail(s)[i] = a, Tail(s)[j] = b
      PROVE  i < j
  <2>1. i + 1 \in 1..Len(s) /\ s[i + 1] = a /\ j + 1 \in 1..Len(s) /\ s[j + 1] = b
    BY <1>1, TailFacts
  <2>2. i + 1 < j + 1
    BY <2>1 DEF Before
  <2> QED
    BY <2>2
<1>2. ASSUME Head(s) = b, NEW i \in 1..Len(s), s[i] = a PROVE FALSE
  <2>1. 1 \in 1..Len(s) /\ s[1] = b
    BY <1>2, TailFacts
  <2>2. i < 1
    BY <1>2, <2>1 DEF Before
  <2> QED
    BY <2>2
<1> QED
  BY <1>1, <1>2 DEF Before, Holds

(* x is the last element and no other. *)
OnlyLast(s, x) == \A i \in 1..Len(s) : s[i] = x => i = Len(s)

LEMMA TailLast ==
  ASSUME NEW S, NEW s \in Seq(S), s # <<>>, NEW x, OnlyLast(s, x)
  PROVE  /\ OnlyLast(Tail(s), x)
         /\ Head(s) = x => Tail(s) = <<>>
         /\ s[Len(s)] = x /\ Head(s) # x => Tail(s) # <<>> /\ Tail(s)[Len(Tail(s))] = x
<1> DEFINE u == Tail(s)
           n == Len(s)
           m == Len(u)
<1>1. /\ n \in Nat \ {0} /\ m = n - 1 /\ s[1] = Head(s) /\ u \in Seq(S)
      /\ \A i \in 1..m : i + 1 \in 1..n /\ u[i] = s[i + 1]
  BY TailFacts
<1>2. \A i \in 1..n : s[i] = x => i = n
  BY DEF OnlyLast
<1>3. m = 0 <=> u = <<>>
  BY <1>1
<1> HIDE DEF u, n, m
<1>4. ASSUME NEW i \in 1..m, u[i] = x PROVE i = m
  <2>1. i + 1 = n
    BY <1>1, <1>2, <1>4
  <2> QED
    BY <1>1, <2>1
<1>5. ASSUME Head(s) = x PROVE u = <<>>
  <2>1. n = 1
    BY <1>1, <1>2, <1>5
  <2> QED
    BY <1>1, <1>3, <2>1
<1>6. ASSUME s[n] = x, Head(s) # x PROVE u # <<>> /\ u[m] = x
  <2>1. n # 1
    BY <1>1, <1>6
  <2>2. m \in 1..m /\ m + 1 = n
    BY <1>1, <2>1
  <2> QED
    BY <1>1, <1>3, <1>6, <2>2
<1>7. OnlyLast(u, x)
  BY <1>4 DEF OnlyLast, m
<1> QED
  BY <1>5, <1>6, <1>7 DEF u, n, m

----------------------------------------------------------------------------
(* What the host and the loop do to the worker's invariant. *)

(* The invariant with its queue as a sequence like any other. *)
LEMMA TimerForm ==
  ASSUME NEW t \in Timers
  PROVE  TimerHolds(t) <=>
           /\ t \in timers \/ Holds(queue, Arm[t])
                => IF t = "sweep" THEN SweepEnabled ELSE "wechat" \in registry
           /\ host \in {"stopping", "draining", "joined"} /\ (t \in timers \/ Holds(queue, Arm[t]))
                => Holds(queue, Disarm[t])
           /\ host \in {"off", "up"} => ~Holds(queue, Disarm[t])
           /\ Before(queue, Arm[t], Disarm[t])
BY QueuedHolds, Zenon DEF TimerHolds, Armable, Before

LEMMA TimerFormNext ==
  ASSUME NEW t \in Timers
  PROVE  TimerHolds(t)' <=>
           /\ t \in timers' \/ Holds(queue', Arm[t])
                => IF t = "sweep" THEN SweepEnabled ELSE "wechat" \in registry'
           /\ host' \in {"stopping", "draining", "joined"} /\ (t \in timers' \/ Holds(queue', Arm[t]))
                => Holds(queue', Disarm[t])
           /\ host' \in {"off", "up"} => ~Holds(queue', Disarm[t])
           /\ Before(queue', Arm[t], Disarm[t])
BY Zenon DEF TimerHolds, Armable, Before, Queued, Holds

LEMMA TimerNames ==
  ASSUME NEW t \in Timers
  PROVE  \/ t = "sweep" /\ Arm[t] = "armSweep" /\ Disarm[t] = "disarmSweep"
         \/ t = "refresh" /\ Arm[t] = "armRefresh" /\ Disarm[t] = "disarmRefresh"
BY DEF Timers, Arm, Disarm

LEMMA WorkerFacts ==
  ASSUME WorkerInv
  PROVE  /\ LifeTypeOK /\ (\A t \in Timers : TimerHolds(t)) /\ DrainIsLast
         /\ host = "off" => queue = <<>> /\ timers = {}
         /\ host # "off" => started = registry \/ Holds(queue, "startAll")
         /\ host \in {"draining", "joined"} => stopped = registry
         /\ queue \in Seq(Tasks) /\ Len(queue) \in Nat /\ timers \subseteq Timers
<1>1. queue \in Seq(Tasks) /\ timers \subseteq Timers
  BY DEF WorkerInv, LifeTypeOK
<1>2. Len(queue) \in Nat
  BY <1>1
<1> QED
  BY <1>1, <1>2, QueuedHolds, Zenon DEF WorkerInv

(* Outside shutdown's last phase there is no drain task, and then nothing
   to show about it. *)
LEMMA NoDrain ==
  ASSUME host' # "draining", host' # "joined", drained' = FALSE, ~Holds(queue', "drain")
  PROVE  DrainIsLast'
BY DEF DrainIsLast, Holds

LEMMA InitWorker == LifeInit => WorkerInv
<1> SUFFICES ASSUME LifeInit PROVE WorkerInv
  OBVIOUS
<1>1. LifeTypeOK
  <2>1. <<>> \in Seq(Tasks)
    OBVIOUS
  <2> QED
    BY <2>1, Zenon DEF LifeInit, LifeTypeOK
<1>2. Len(queue) = 0 /\ host = "off" /\ timers = {} /\ queue = <<>>
  BY DEF LifeInit
<1>3. \A task : ~Queued(task)
  BY <1>2 DEF Queued
<1>4. ASSUME NEW t \in Timers PROVE TimerHolds(t)
  BY <1>2, <1>3 DEF TimerHolds, Armable
<1>5. DrainIsLast
  <2>1. ~drained
    BY DEF LifeInit
  <2> QED
    BY <1>2, <2>1 DEF DrainIsLast
<1> QED
  BY <1>1, <1>2, <1>4, <1>5 DEF WorkerInv

LEMMA InitAndStartKeeps ==
  ASSUME WorkerInv, initAndStart
  PROVE  WorkerInv'
<1>1. PICK reg \in SUBSET Channels :
        /\ registry' = reg
        /\ queue' = queue \o (WhenSweeping("armSweep") \o <<"startAll">> \o WhenRefreshing("armRefresh", reg))
  BY DEF initAndStart, registerBuiltinChannels, Post
<1> DEFINE s == WhenSweeping("armSweep") \o <<"startAll">> \o WhenRefreshing("armRefresh", reg)
<1>2. /\ s \in Seq(Tasks) /\ Holds(s, "startAll")
      /\ \A x : Holds(s, x) => \/ x = "armSweep" /\ SweepEnabled
                               \/ x = "startAll"
                               \/ x = "armRefresh" /\ "wechat" \in reg
  BY StartTasks
<1>3. queue' = queue \o s
  BY <1>1
<1> HIDE DEF s
<1>4. /\ host = "off" /\ host' = "up" /\ queue = <<>> /\ timers = {} /\ timers' = {}
      /\ UNCHANGED <<started, stopped, drained>> /\ LifeTypeOK
  BY WorkerFacts DEF initAndStart
<1>5. queue' = s
  <2>1. <<>> \o s = s
    BY <1>2
  <2> QED
    BY <1>3, <1>4, <2>1
<1>6. drained' = FALSE
  <2>1. ~drained /\ drained \in BOOLEAN /\ drained' = drained
    BY <1>4, WorkerFacts, Zenon DEF DrainIsLast, LifeTypeOK
  <2> QED
    BY <2>1
<1>7. LifeTypeOK'
  <2>1. queue' \in Seq(Tasks) /\ drained' \in BOOLEAN
    BY <1>2, <1>5, <1>6
  <2>2. registry' \subseteq Channels /\ started' \subseteq Channels /\ stopped' \subseteq Channels
    BY <1>1, <1>4 DEF LifeTypeOK
  <2> QED
    BY <1>4, <2>1, <2>2 DEF LifeTypeOK
<1>8. ASSUME NEW t \in Timers PROVE TimerHolds(t)'
  <2>1. ~Holds(queue', Disarm[t])
    BY <1>2, <1>5, TimerNames
  <2>2. Before(queue', Arm[t], Disarm[t])
    BY <2>1, NoneBefore
  <2>3. Holds(queue', Arm[t]) => IF t = "sweep" THEN SweepEnabled ELSE "wechat" \in registry'
    BY <1>1, <1>2, <1>5, TimerNames, Zenon
  <2> QED
    BY <1>4, <2>1, <2>2, <2>3, TimerFormNext
<1>9. DrainIsLast'
  <2>1. ~Holds(queue', "drain")
    BY <1>2, <1>5
  <2> QED
    BY <1>4, <1>6, <2>1, NoDrain
<1>10. Queued("startAll")'
  BY <1>2, <1>5 DEF Queued, Holds
<1> QED
  BY <1>4, <1>7, <1>8, <1>9, <1>10 DEF WorkerInv

(* shutdown disarms behind whatever was armed. *)
LEMMA ShutdownKeeps ==
  ASSUME WorkerInv, shutdown
  PROVE  WorkerInv'
<1> DEFINE s == WhenSweeping("disarmSweep") \o WhenRefreshing("disarmRefresh", registry)
<1>1. /\ s \in Seq(Tasks)
      /\ \A x : Holds(s, x) => x \in {"disarmSweep", "disarmRefresh"}
      /\ SweepEnabled => Holds(s, "disarmSweep")
      /\ "wechat" \in registry => Holds(s, "disarmRefresh")
  BY StopTasks
<1>2. queue' = queue \o s
  BY DEF shutdown, Post
<1> HIDE DEF s
<1>3. /\ host = "up" /\ host' = "stopping" /\ queue \in Seq(Tasks) /\ LifeTypeOK
      /\ UNCHANGED <<registry, started, stopped, timers, drained>>
      /\ started = registry \/ Holds(queue, "startAll")
  BY WorkerFacts DEF shutdown
<1>4. queue' \in Seq(Tasks) /\ (\A x : Holds(queue', x) <=> Holds(queue, x) \/ Holds(s, x))
  BY <1>1, <1>2, <1>3, ConcatHolds
<1>5. drained' = FALSE
  <2>1. ~drained /\ drained \in BOOLEAN /\ drained' = drained
    BY <1>3, WorkerFacts, Zenon DEF DrainIsLast, LifeTypeOK
  <2> QED
    BY <2>1
<1>6. LifeTypeOK'
  <2>1. drained' \in BOOLEAN
    BY <1>5
  <2> QED
    BY <1>3, <1>4, <2>1 DEF LifeTypeOK
<1>7. ASSUME NEW t \in Timers PROVE TimerHolds(t)'
  <2>1. /\ t \in timers \/ Holds(queue, Arm[t])
             => IF t = "sweep" THEN SweepEnabled ELSE "wechat" \in registry
        /\ Before(queue, Arm[t], Disarm[t])
    BY WorkerFacts, TimerForm, Zenon
  <2>2. ~Holds(s, Arm[t]) /\ ~(Arm[t] \in {"disarmSweep", "disarmRefresh"})
    BY <1>1, TimerNames
  <2>3. Before(queue', Arm[t], Disarm[t])
    BY <1>1, <1>2, <1>3, <2>1, <2>2, ConcatBefore
  <2>4. t \in timers' \/ Holds(queue', Arm[t]) <=> t \in timers \/ Holds(queue, Arm[t])
    BY <1>3, <1>4, <2>2
  <2>5. (IF t = "sweep" THEN SweepEnabled ELSE "wechat" \in registry) => Holds(queue', Disarm[t])
    BY <1>1, <1>4, TimerNames, Zenon
  <2>6. (IF t = "sweep" THEN SweepEnabled ELSE "wechat" \in registry')
          <=> (IF t = "sweep" THEN SweepEnabled ELSE "wechat" \in registry)
    BY <1>3
  <2> QED
    BY <1>3, <2>1, <2>3, <2>4, <2>5, <2>6, TimerFormNext
<1>8. DrainIsLast'
  <2>1. ~Holds(queue, "drain")
    BY <1>3, WorkerFacts DEF DrainIsLast, Holds
  <2>2. ~Holds(queue', "drain")
    BY <1>1, <1>4, <2>1
  <2> QED
    BY <1>3, <1>5, <2>2, NoDrain
<1>9. started' = registry' \/ Queued("startAll")'
  <2>1. Queued("startAll")' <=> Holds(queue', "startAll")
    BY DEF Queued, Holds
  <2> QED
    BY <1>3, <1>4, <2>1
<1> QED
  BY <1>3, <1>6, <1>7, <1>8, <1>9 DEF WorkerInv

(* Nothing is posted behind the drain task. *)
LEMMA StopAllKeeps ==
  ASSUME WorkerInv, stopAll
  PROVE  WorkerInv'
<1> DEFINE s == <<"drain">>
<1>1. s \in Seq(Tasks) /\ (\A x : Holds(s, x) <=> x = "drain") /\ Len(s) = 1 /\ s[1] = "drain"
  <2>1. "drain" \in Tasks
    BY DEF Tasks
  <2>2. ASSUME NEW x PROVE s \in Seq(Tasks) /\ (Holds(s, x) <=> x = "drain")
    BY <2>1, OneHolds
  <2> QED
    BY <2>2
<1>2. queue' = queue \o s
  BY DEF stopAll, Post
<1> HIDE DEF s
<1>3. /\ host = "stopping" /\ host' = "draining" /\ queue \in Seq(Tasks) /\ LifeTypeOK
      /\ UNCHANGED <<registry, started, timers, drained>> /\ stopped' = registry
      /\ started = registry \/ Holds(queue, "startAll")
  BY WorkerFacts DEF stopAll
<1>4. queue' \in Seq(Tasks) /\ (\A x : Holds(queue', x) <=> Holds(queue, x) \/ Holds(s, x))
  BY <1>1, <1>2, <1>3, ConcatHolds
<1>5. drained' = FALSE
  <2>1. ~drained /\ drained \in BOOLEAN /\ drained' = drained
    BY <1>3, WorkerFacts, Zenon DEF DrainIsLast, LifeTypeOK
  <2> QED
    BY <2>1
<1>6. LifeTypeOK'
  <2>1. drained' \in BOOLEAN
    BY <1>5
  <2> QED
    BY <1>3, <1>4, <2>1 DEF LifeTypeOK
<1>7. ASSUME NEW t \in Timers PROVE TimerHolds(t)'
  <2>1. /\ t \in timers \/ Holds(queue, Arm[t])
             => IF t = "sweep" THEN SweepEnabled ELSE "wechat" \in registry
        /\ t \in timers \/ Holds(queue, Arm[t]) => Holds(queue, Disarm[t])
        /\ Before(queue, Arm[t], Disarm[t])
    BY <1>3, WorkerFacts, TimerForm, Zenon
  <2>2. ~Holds(s, Arm[t])
    BY <1>1, TimerNames
  <2>3. Before(queue', Arm[t], Disarm[t])
    BY <1>1, <1>2, <1>3, <2>1, <2>2, ConcatBefore
  <2>4. t \in timers' \/ Holds(queue', Arm[t]) <=> t \in timers \/ Holds(queue, Arm[t])
    BY <1>3, <1>4, <2>2
  <2>5. Holds(queue, Disarm[t]) => Holds(queue', Disarm[t])
    BY <1>4
  <2>6. (IF t = "sweep" THEN SweepEnabled ELSE "wechat" \in registry')
          <=> (IF t = "sweep" THEN SweepEnabled ELSE "wechat" \in registry)
    BY <1>3
  <2> QED
    BY <1>3, <2>1, <2>3, <2>4, <2>5, <2>6, TimerFormNext
<1>8. DrainIsLast'
  <2>1. ~Holds(queue, "drain")
    BY <1>3, WorkerFacts DEF DrainIsLast, Holds
  <2>2. Len(queue) \in Nat /\ Len(queue') = Len(queue) + 1
    <3>1. Len(queue \o s) = Len(queue) + Len(s) /\ Len(queue) \in Nat
      BY <1>1, <1>3, ConcatProperties, LenProperties
    <3> QED
      BY <1>1, <1>2, <3>1
  <2>3. queue'[Len(queue')] = "drain" /\ queue' # <<>>
    BY <1>1, <1>2, <1>3, <2>2
  <2>4. ASSUME NEW i \in 1..Len(queue'), queue'[i] = "drain" PROVE i = Len(queue')
    <3>1. CASE i \in 1..Len(queue)
      <4>1. queue'[i] = queue[i]
        BY <1>1, <1>2, <1>3, <3>1
      <4> QED
        BY <2>1, <2>4, <3>1, <4>1 DEF Holds
    <3>2. CASE i > Len(queue)
      BY <2>2, <3>2
    <3> QED
      BY <2>2, <3>1, <3>2
  <2> QED
    BY <1>3, <1>5, <2>3, <2>4 DEF DrainIsLast
<1>9. started' = registry' \/ Queued("startAll")'
  <2>1. Queued("startAll")' <=> Holds(queue', "startAll")
    BY DEF Queued, Holds
  <2> QED
    BY <1>3, <1>4, <2>1
<1> QED
  BY <1>3, <1>6, <1>7, <1>8, <1>9 DEF WorkerInv

LEMMA JoinWorkerKeeps ==
  ASSUME WorkerInv, JoinWorker
  PROVE  WorkerInv'
<1>1. /\ host = "draining" /\ host' = "joined" /\ drained
      /\ UNCHANGED <<registry, started, stopped, queue, timers, drained>>
  BY DEF JoinWorker
<1>2. LifeTypeOK'
  BY <1>1, WorkerFacts, Zenon DEF LifeTypeOK
<1>3. ASSUME NEW t \in Timers PROVE TimerHolds(t)'
  <2>1. TimerHolds(t)
    BY WorkerFacts
  <2> QED
    BY <1>1, <2>1, TimerForm, TimerFormNext
<1>4. queue' = <<>> /\ Len(queue') = 0
  <2>1. queue = <<>>
    BY <1>1, WorkerFacts, Zenon DEF DrainIsLast
  <2> QED
    BY <1>1, <2>1
<1>5. DrainIsLast'
  <2>1. drained'
    BY <1>1, Zenon
  <2> QED
    BY <1>1, <1>4, <2>1 DEF DrainIsLast
<1>6. started' = registry' \/ Queued("startAll")'
  BY <1>1, WorkerFacts DEF Queued, Holds
<1> QED
  BY <1>1, <1>2, <1>3, <1>5, <1>6, WorkerFacts DEF WorkerInv

LEMMA ExitKeeps ==
  ASSUME WorkerInv, Exit
  PROVE  WorkerInv'
<1>1. /\ host' = "off" /\ registry' = {} /\ started' = {} /\ stopped' = {}
      /\ queue' = <<>> /\ timers' = {} /\ drained' = FALSE
  BY DEF Exit
<1>2. LifeInit'
  BY <1>1, Zenon DEF LifeInit
<1> QED
  BY <1>2, InitWorker, PTL

(* A step of the sweep, or none at all. *)
LEMMA WorkerStutters ==
  ASSUME WorkerInv, UNCHANGED lifeVars
  PROVE  WorkerInv'
<1>1. /\ host' = host /\ registry' = registry /\ started' = started /\ stopped' = stopped
      /\ queue' = queue /\ timers' = timers /\ drained' = drained
  BY Zenon DEF lifeVars
<1>2. LifeTypeOK'
  BY <1>1, WorkerFacts, Zenon DEF LifeTypeOK
<1>3. ASSUME NEW t \in Timers PROVE TimerHolds(t)'
  <2>1. TimerHolds(t)
    BY WorkerFacts
  <2> QED
    BY <1>1, <2>1, TimerForm, TimerFormNext
<1>4. DrainIsLast'
  BY <1>1, WorkerFacts, Zenon DEF DrainIsLast
<1>5. Queued("startAll")' <=> Queued("startAll")
  BY <1>1 DEF Queued
<1> QED
  BY <1>1, <1>2, <1>3, <1>4, <1>5 DEF WorkerInv

(* A timer that is disarmed was armed before and is not armed again. *)
LEMMA RunTaskKeeps ==
  ASSUME WorkerInv, RunTask
  PROVE  WorkerInv'
<1> DEFINE h == Head(queue)
<1>1. /\ host \in {"up", "stopping", "draining"} /\ queue # <<>> /\ queue' = Tail(queue)
      /\ UNCHANGED <<host, registry, stopped>> /\ queue \in Seq(Tasks)
      /\ started' = IF h = "startAll" THEN registry ELSE started
  BY WorkerFacts DEF RunTask, LoopRuns
<1>2. /\ queue' \in Seq(Tasks) /\ h \in Tasks /\ Len(queue) \in Nat \ {0} /\ Len(queue') = Len(queue) - 1
      /\ queue[1] = h
      /\ \A i \in 1..Len(queue') : i + 1 \in 1..Len(queue) /\ queue'[i] = queue[i + 1]
  BY <1>1, TailFacts
<1>3. \A x : Holds(queue, x) <=> h = x \/ Holds(queue', x)
  BY <1>1, TailHolds
<1>4. /\ h = "armSweep" => timers' = timers \cup {"sweep"}
      /\ h = "armRefresh" => timers' = timers \cup {"refresh"}
      /\ h = "disarmSweep" => timers' = timers \ {"sweep"}
      /\ h = "disarmRefresh" => timers' = timers \ {"refresh"}
      /\ h \in {"startAll", "drain"} => timers' = timers
  BY DEF RunTask
<1>5. drained' <=> drained \/ h = "drain"
  BY Zenon DEF RunTask
<1>6. drained' \in BOOLEAN
  BY Zenon DEF RunTask
<1> HIDE DEF h
<1>7. LifeTypeOK'
  <2>1. timers' \subseteq Timers
    BY <1>2, <1>4, WorkerFacts DEF Tasks, Timers
  <2>2. started' \subseteq Channels
    BY <1>1, WorkerFacts DEF LifeTypeOK
  <2> QED
    BY <1>1, <1>2, <1>6, <2>1, <2>2, WorkerFacts DEF LifeTypeOK
<1>8. ASSUME NEW t \in Timers PROVE TimerHolds(t)'
  <2>1. /\ t \in timers \/ Holds(queue, Arm[t])
             => IF t = "sweep" THEN SweepEnabled ELSE "wechat" \in registry
        /\ host \in {"stopping", "draining", "joined"} /\ (t \in timers \/ Holds(queue, Arm[t]))
             => Holds(queue, Disarm[t])
        /\ host \in {"off", "up"} => ~Holds(queue, Disarm[t])
        /\ Before(queue, Arm[t], Disarm[t])
    BY WorkerFacts, TimerForm, Zenon
  <2>2. Arm[t] # Disarm[t]
    BY TimerNames
  <2>3. Before(queue', Arm[t], Disarm[t]) /\ (h = Disarm[t] => ~Holds(queue, Arm[t]))
    BY <1>1, <2>1, <2>2, TailBefore DEF h
  <2>4. /\ t \in timers' => t \in timers \/ h = Arm[t]
        /\ h = Disarm[t] => t \notin timers'
    BY <1>2, <1>4, TimerNames DEF Tasks
  <2>5. t \in timers' \/ Holds(queue', Arm[t]) => h # Disarm[t] /\ (t \in timers \/ Holds(queue, Arm[t]))
    BY <1>3, <2>3, <2>4
  <2>6. (IF t = "sweep" THEN SweepEnabled ELSE "wechat" \in registry')
          <=> (IF t = "sweep" THEN SweepEnabled ELSE "wechat" \in registry)
    BY <1>1
  <2>7. host' = host /\ (Holds(queue, Disarm[t]) <=> h = Disarm[t] \/ Holds(queue', Disarm[t]))
    BY <1>1, <1>3
  <2> QED
    BY <2>1, <2>3, <2>5, <2>6, <2>7, TimerFormNext, Zenon
<1>9. DrainIsLast'
  <2>1. ~drained
    BY <1>1, WorkerFacts, Zenon DEF DrainIsLast
  <2>2. OnlyLast(queue, "drain") /\ (Holds(queue, "drain") => host = "draining")
    BY WorkerFacts, Zenon DEF DrainIsLast, OnlyLast, Holds
  <2>3. /\ OnlyLast(queue', "drain")
        /\ h = "drain" => queue' = <<>>
        /\ queue[Len(queue)] = "drain" /\ h # "drain" => queue' # <<>> /\ queue'[Len(queue')] = "drain"
    BY <1>1, <2>2, TailLast DEF h
  <2>4. host' # "joined" /\ host' = host
    BY <1>1
  <2>5. ASSUME drained' PROVE queue' = <<>> /\ host' = "draining"
    BY <1>3, <1>5, <2>1, <2>2, <2>3, <2>4, <2>5
  <2>6. ASSUME host' = "draining", ~drained' PROVE queue' # <<>> /\ queue'[Len(queue')] = "drain"
    <3>1. h # "drain"
      BY <1>5, <2>6
    <3>2. queue[Len(queue)] = "drain"
      BY <2>1, <2>4, <2>6, WorkerFacts, Zenon DEF DrainIsLast
    <3> QED
      BY <2>3, <3>1, <3>2
  <2>7. \A i \in 1..Len(queue') : queue'[i] = "drain" => host' = "draining" /\ i = Len(queue')
    <3>1. Holds(queue', "drain") => host' = "draining"
      BY <1>3, <2>2, <2>4
    <3> QED
      BY <2>3, <3>1 DEF OnlyLast, Holds
  <2> QED
    BY <2>4, <2>5, <2>6, <2>7 DEF DrainIsLast
<1>10. started' = registry' \/ Queued("startAll")'
  <2>1. Queued("startAll")' <=> Holds(queue', "startAll")
    BY DEF Queued, Holds
  <2>2. started = registry \/ Holds(queue, "startAll")
    BY <1>1, WorkerFacts
  <2> QED
    BY <1>1, <1>3, <2>1, <2>2
<1>11. host' # "off" /\ (host' \in {"draining", "joined"} => stopped' = registry')
  BY <1>1, WorkerFacts
<1> QED
  BY <1>7, <1>8, <1>9, <1>10, <1>11 DEF WorkerInv

(* What the host and the worker loop know of each other, in every state: the
   worker's invariant. *)
THEOREM WorkerInductive == Spec => []WorkerInv
<1>1. Init => WorkerInv
  BY InitWorker DEF Init
<1>2. WorkerInv /\ [Next]_vars => WorkerInv'
  <2> SUFFICES ASSUME WorkerInv, [Next]_vars PROVE WorkerInv'
    OBVIOUS
  <2>1. \/ initAndStart \/ shutdown \/ stopAll \/ JoinWorker \/ RunTask \/ Exit
        \/ UNCHANGED lifeVars
    BY Zenon DEF Next, vars, LifeStep, SweepTick, ProcessEnds
  <2> QED
    BY <2>1, InitAndStartKeeps, ShutdownKeeps, StopAllKeeps, JoinWorkerKeeps, RunTaskKeeps,
       ExitKeeps, WorkerStutters
<1> QED
  BY <1>1, <1>2, PTL DEF Spec

(* shutdown joins the thread only after the loop has run every task, has been
   rid of both timers, and every channel was started and stopped. *)
THEOREM TeardownClean == Spec => []TeardownIsClean
<1>1. WorkerInv => TeardownIsClean
  <2> SUFFICES ASSUME WorkerInv, host = "joined"
               PROVE  queue = <<>> /\ timers = {} /\ started = registry /\ stopped = registry
    BY DEF TeardownIsClean
  <2>1. queue = <<>>
    BY WorkerFacts, Zenon DEF DrainIsLast
  <2>2. \A x : ~Holds(queue, x)
    BY <2>1, NoneHolds
  <2>3. ASSUME NEW t \in Timers PROVE t \notin timers
    BY <2>2, WorkerFacts, TimerForm
  <2> QED
    BY <2>1, <2>2, <2>3, WorkerFacts
<1> QED
  BY <1>1, WorkerInductive, PTL

----------------------------------------------------------------------------
(* The sweeps *)

LEMMA SweepFacts ==
  ASSUME SweepInv, NEW r \in Rows
  PROVE  /\ row \in [Rows -> RowState] /\ trade \in [Rows -> TradeState] /\ flight \in [Rows -> Flight]
         /\ flight[r] \in {"SUCCESS", "CLOSED"} => trade[r] = flight[r]
         /\ row[r] = "paid" => trade[r] = "SUCCESS"
         /\ row[r] = "closed" => trade[r] = "CLOSED"
BY DEF SweepInv, AnswersHold, SettledAgrees

(* The three parts of a row agree. *)
Agrees(a, b, c) ==
  /\ c \in {"SUCCESS", "CLOSED"} => b = c
  /\ a = "paid" => b = "SUCCESS"
  /\ a = "closed" => b = "CLOSED"

(* A step writes a, b and c to one row, of what it does not leave alone. *)
Writes(r, a, b, c) ==
  /\ a \in RowState /\ b \in TradeState /\ c \in Flight
  /\ row' = [row EXCEPT ![r] = a]
  /\ trade' = [trade EXCEPT ![r] = b]
  /\ flight' = [flight EXCEPT ![r] = c]

LEMMA OneRow ==
  ASSUME SweepInv, NEW r \in Rows, NEW a, NEW b, NEW c, Writes(r, a, b, c), Agrees(a, b, c)
  PROVE  SweepInv'
<1>1. row \in [Rows -> RowState] /\ trade \in [Rows -> TradeState] /\ flight \in [Rows -> Flight]
  BY SweepFacts
<1>2. row' \in [Rows -> RowState] /\ trade' \in [Rows -> TradeState] /\ flight' \in [Rows -> Flight]
  BY <1>1 DEF Writes
<1>3. ASSUME NEW q \in Rows PROVE Agrees(row'[q], trade'[q], flight'[q])
  <2>1. CASE q = r
    BY <1>1, <2>1 DEF Writes
  <2>2. CASE q # r
    <3>1. row'[q] = row[q] /\ trade'[q] = trade[q] /\ flight'[q] = flight[q]
      BY <1>1, <2>2 DEF Writes
    <3> QED
      BY <3>1, SweepFacts DEF Agrees
  <2> QED
    BY <2>1, <2>2
<1> QED
  BY <1>2, <1>3 DEF SweepInv, AnswersHold, SettledAgrees, Agrees

(* What a step leaves as it was is an update with the old value. *)
LEMMA SameRow ==
  ASSUME SweepInv, NEW r \in Rows
  PROVE  /\ row = [row EXCEPT ![r] = row[r]] /\ row[r] \in RowState
         /\ trade = [trade EXCEPT ![r] = trade[r]] /\ trade[r] \in TradeState
         /\ flight = [flight EXCEPT ![r] = flight[r]] /\ flight[r] \in Flight
         /\ Agrees(row[r], trade[r], flight[r])
BY SweepFacts DEF Agrees

LEMMA SyncRow ==
  ASSUME SweepInv, NEW r \in Rows, NEW s \in TradeState, Sync(r, s)
  PROVE  \E a \in RowState : /\ row' = [row EXCEPT ![r] = a]
                             /\ \/ a = Settled(s)
                                \/ a = row[r]
<1>1. Settled(s) \in RowState
  BY DEF Settled, TradeState, RowState
<1>2. CASE KindOf[r] = "refund" \/ row[r] \in {"fresh", "created", "pending"}
  <2>1. row' = [row EXCEPT ![r] = Settled(s)]
    BY <1>2 DEF Sync
  <2> QED
    BY <1>1, <2>1
<1>3. CASE ~(KindOf[r] = "refund" \/ row[r] \in {"fresh", "created", "pending"})
  <2>1. row' = row
    BY <1>3 DEF Sync
  <2> QED
    BY <2>1, SameRow
<1> QED
  BY <1>2, <1>3

LEMMA SettledSays ==
  ASSUME NEW s \in TradeState
  PROVE  /\ Settled(s) = "paid" => s = "SUCCESS"
         /\ Settled(s) = "closed" => s = "CLOSED"
BY DEF Settled, TradeState

LEMMA SweepStepKeeps ==
  ASSUME SweepInv, NEW r \in Rows, SweepStep(r)
  PROVE  SweepInv'
<1>1. CASE Answers(r)
  <2>1. flight' = [flight EXCEPT ![r] = trade[r]] /\ row' = row /\ trade' = trade
    BY <1>1 DEF Answers
  <2>2. trade[r] \in Flight
    BY SameRow DEF Flight
  <2>3. Writes(r, row[r], trade[r], trade[r])
    BY <2>1, <2>2, SameRow DEF Writes
  <2>4. Agrees(row[r], trade[r], trade[r])
    BY <2>1, <2>2, SameRow DEF Agrees
  <2> QED
    BY <2>3, <2>4, OneRow
<1>2. CASE QueryFails(r) \/ CloseFails(r)
  <2>1. flight' = [flight EXCEPT ![r] = "none"] /\ row' = row /\ trade' = trade
    BY <1>2 DEF QueryFails, CloseFails
  <2>2. "none" \in Flight
    BY DEF Flight
  <2>3. Writes(r, row[r], trade[r], "none")
    BY <2>1, <2>2, SameRow DEF Writes
  <2>4. Agrees(row[r], trade[r], "none")
    BY <2>1, <2>2, SameRow DEF Agrees
  <2> QED
    BY <2>3, <2>4, OneRow
<1>3. CASE Apply(r)
  <2>1. /\ flight[r] \in TradeState /\ trade' = trade /\ Sync(r, flight[r])
        /\ flight' = [flight EXCEPT ![r] = CloseIfExpired(r)]
    BY <1>3 DEF Apply
  <2>2. CloseIfExpired(r) \in {"none", "closing"} /\ {"none", "closing"} \subseteq Flight
    BY DEF CloseIfExpired, Flight
  <2>3. PICK a \in RowState : row' = [row EXCEPT ![r] = a] /\ (a = Settled(flight[r]) \/ a = row[r])
    BY <2>1, SyncRow
  <2>4. /\ a = "paid" => trade[r] = "SUCCESS"
        /\ a = "closed" => trade[r] = "CLOSED"
    BY <2>1, <2>3, SettledSays, SweepFacts
  <2>5. Writes(r, a, trade[r], CloseIfExpired(r))
    BY <2>1, <2>2, <2>3, <2>4, SameRow DEF Writes
  <2>6. Agrees(a, trade[r], CloseIfExpired(r))
    BY <2>1, <2>2, <2>3, <2>4, SameRow DEF Agrees
  <2> QED
    BY <2>5, <2>6, OneRow
<1>4. CASE ApplyFails(r)
  <2>1. flight' = [flight EXCEPT ![r] = CloseIfExpired(r)] /\ row' = row /\ trade' = trade
    BY <1>4 DEF ApplyFails
  <2>2. CloseIfExpired(r) \in {"none", "closing"} /\ {"none", "closing"} \subseteq Flight
    BY DEF CloseIfExpired, Flight
  <2>3. Writes(r, row[r], trade[r], CloseIfExpired(r))
    BY <2>1, <2>2, SameRow DEF Writes
  <2>4. Agrees(row[r], trade[r], CloseIfExpired(r))
    BY <2>1, <2>2, SameRow DEF Agrees
  <2> QED
    BY <2>3, <2>4, OneRow
<1>5. CASE closeOrder(r)
  <2>1. /\ flight' = [flight EXCEPT ![r] = "none"] /\ row' = row
        /\ trade' = IF trade[r] = "NOTPAY" THEN [trade EXCEPT ![r] = "CLOSED"] ELSE trade
    BY <1>5 DEF closeOrder
  <2>2. "none" \in Flight /\ "CLOSED" \in TradeState
    BY DEF Flight, TradeState
  <2>3. CASE trade[r] = "NOTPAY"
    <3>1. trade' = [trade EXCEPT ![r] = "CLOSED"]
      BY <2>1, <2>3
    <3>2. row[r] # "paid" /\ row[r] # "closed"
      BY <2>3, SweepFacts
    <3>3. Writes(r, row[r], "CLOSED", "none")
      BY <2>1, <2>2, <3>1, <3>2, SameRow DEF Writes
    <3>4. Agrees(row[r], "CLOSED", "none")
      BY <2>1, <2>2, <3>1, <3>2, SameRow DEF Agrees
    <3> QED
      BY <3>3, <3>4, OneRow
  <2>4. CASE trade[r] # "NOTPAY"
    <3>1. trade' = trade
      BY <2>1, <2>4
    <3>2. Writes(r, row[r], trade[r], "none")
      BY <2>1, <2>2, <3>1, SameRow DEF Writes
    <3>3. Agrees(row[r], trade[r], "none")
      BY <2>1, <2>2, <3>1, SameRow DEF Agrees
    <3> QED
      BY <3>2, <3>3, OneRow
  <2> QED
    BY <2>3, <2>4
<1> QED
  BY <1>1, <1>2, <1>3, <1>4, <1>5 DEF SweepStep

(* A buyer pays only what is unpaid, and a notification writes what the channel
   says. *)
LEMMA OutsideStepKeeps ==
  ASSUME SweepInv, NEW r \in Rows, OutsideStep(r)
  PROVE  SweepInv'
<1>1. CASE Ages(r)
  <2>1. row' = [row EXCEPT ![r] = "created"] /\ trade' = trade /\ flight' = flight
    BY <1>1 DEF Ages
  <2>2. "created" \in RowState
    BY DEF RowState
  <2>3. Writes(r, "created", trade[r], flight[r])
    BY <2>1, <2>2, SameRow DEF Writes
  <2>4. Agrees("created", trade[r], flight[r])
    BY <2>1, <2>2, SameRow DEF Agrees
  <2> QED
    BY <2>3, <2>4, OneRow
<1>2. CASE OthersWrite(r)
  <2>1. Sync(r, trade[r]) /\ trade' = trade /\ flight' = flight
    BY <1>2 DEF OthersWrite
  <2>2. PICK a \in RowState : row' = [row EXCEPT ![r] = a] /\ (a = Settled(trade[r]) \/ a = row[r])
    BY <2>1, SameRow, SyncRow
  <2>3. /\ a = "paid" => trade[r] = "SUCCESS"
        /\ a = "closed" => trade[r] = "CLOSED"
    BY <2>2, SameRow, SettledSays, SweepFacts
  <2>4. Writes(r, a, trade[r], flight[r])
    BY <2>1, <2>2, <2>3, SameRow DEF Writes
  <2>5. Agrees(a, trade[r], flight[r])
    BY <2>1, <2>2, <2>3, SameRow DEF Agrees
  <2> QED
    BY <2>4, <2>5, OneRow
<1>3. CASE Pays(r)
  <2>1. trade[r] = "NOTPAY" /\ trade' = [trade EXCEPT ![r] = "SUCCESS"] /\ row' = row /\ flight' = flight
    BY <1>3 DEF Pays
  <2>2. "SUCCESS" \in TradeState /\ row[r] # "paid" /\ row[r] # "closed" /\ flight[r] \notin {"SUCCESS", "CLOSED"}
    BY <2>1, SweepFacts DEF TradeState
  <2>3. Writes(r, row[r], "SUCCESS", flight[r])
    BY <2>1, <2>2, SameRow DEF Writes
  <2>4. Agrees(row[r], "SUCCESS", flight[r])
    BY <2>1, <2>2, SameRow DEF Agrees
  <2> QED
    BY <2>3, <2>4, OneRow
<1>4. CASE Expires(r)
  <2>1. row' = row /\ trade' = trade /\ flight' = flight
    BY <1>4 DEF Expires
  <2>2. Writes(r, row[r], trade[r], flight[r])
    BY <2>1, SameRow DEF Writes
  <2>3. Agrees(row[r], trade[r], flight[r])
    BY <2>1, SameRow DEF Agrees
  <2> QED
    BY <2>2, <2>3, OneRow
<1> QED
  BY <1>1, <1>2, <1>3, <1>4 DEF OutsideStep

LEMMA SameSweep ==
  ASSUME SweepInv, row' = row, trade' = trade, flight' = flight
  PROVE  SweepInv'
BY DEF SweepInv, AnswersHold, SettledAgrees

(* Questions begin, or go with the process. *)
LEMMA FlightKeeps ==
  ASSUME SweepInv, row' = row, trade' = trade, NEW a \in [Rows -> BOOLEAN], NEW c \in {"asked", "none"},
         flight' = [r \in Rows |-> IF a[r] THEN c ELSE flight[r]]
  PROVE  SweepInv'
<1>1. c \in Flight
  BY DEF Flight
<1>2. flight' \in [Rows -> Flight]
  BY <1>1, SweepFacts
<1>3. \A r \in Rows : flight'[r] = c \/ flight'[r] = flight[r]
  OBVIOUS
<1> QED
  BY <1>2, <1>3 DEF SweepInv, AnswersHold, SettledAgrees

(* What a sweep holds of the channel's answers stays true until it is applied,
   in every state. *)
THEOREM SweepInductive == Spec => []SweepInv
<1>1. Init => SweepInv
  BY DEF Init, SweepInit, SweepInv, AnswersHold, SettledAgrees, RowState, TradeState, Flight
<1>2. SweepInv /\ [Next]_vars => SweepInv'
  <2> SUFFICES ASSUME SweepInv, [Next]_vars PROVE SweepInv'
    OBVIOUS
  <2>1. CASE LifeStep /\ UNCHANGED sweepVars
    BY <2>1, SameSweep DEF sweepVars
  <2>2. CASE SweepTick
    BY <2>2, SameSweep DEF SweepTick, reconcile
  <2>3. CASE ProcessEnds
    <3>1. row' = row /\ trade' = trade /\ flight' = [r \in Rows |-> "none"]
      BY <2>3 DEF ProcessEnds
    <3> DEFINE a == [r \in Rows |-> TRUE]
    <3>2. a \in [Rows -> BOOLEAN]
      OBVIOUS
    <3>3. flight' = [r \in Rows |-> IF a[r] THEN "none" ELSE flight[r]]
      BY <3>1
    <3> HIDE DEF a
    <3> QED
      BY <3>1, <3>2, <3>3, FlightKeeps
  <2>4. ASSUME NEW k \in Kinds, syncPending(k) PROVE SweepInv'
    <3> DEFINE a == [r \in Rows |-> r \in Chosen(k) /\ flight[r] = "none"]
    <3>1. /\ row' = row /\ trade' = trade
          /\ flight' = [r \in Rows |-> IF r \in Chosen(k) /\ flight[r] = "none" THEN "asked" ELSE flight[r]]
      BY <2>4 DEF syncPending
    <3>2. a \in [Rows -> BOOLEAN]
      OBVIOUS
    <3>3. flight' = [r \in Rows |-> IF a[r] THEN "asked" ELSE flight[r]]
      BY <3>1
    <3> HIDE DEF a
    <3> QED
      BY <3>1, <3>2, <3>3, FlightKeeps
  <2>5. ASSUME NEW k \in Kinds, SelectFails(k) PROVE SweepInv'
    BY <2>5, SameSweep DEF SelectFails
  <2>6. CASE UNCHANGED vars
    BY <2>6, SameSweep DEF vars, sweepVars
  <2> QED
    BY <2>1, <2>2, <2>3, <2>4, <2>5, <2>6, SweepStepKeeps, OutsideStepKeeps DEF Next
<1> QED
  BY <1>1, <1>2, PTL DEF Spec

(* No sweep settles a row against the channel: an answer that is old when it is
   applied, or a close that lost the race with the buyer, leaves no paid trade
   under a closed row. *)
THEOREM SettledRowsAgree == Spec => []SettledAgrees
<1>1. SweepInv => SettledAgrees
  BY DEF SweepInv
<1> QED
  BY <1>1, SweepInductive, PTL
==============================================================================
