-------------------------- MODULE PluginLifecycle ----------------------------
(***************************************************************************)
(* PayPlugin's life: initAndStart assembles and freezes the channel        *)
(* registry, starts the worker loop and posts its timers and the channels' *)
(* onStart to it; shutdown takes the timers back, stops the channels from  *)
(* the host's own thread, waits for the loop to run what was posted before *)
(* and joins it. The loop runs one posted task at a time, in order, and    *)
(* the callbacks of its armed timers in between.                           *)
(***************************************************************************)
EXTENDS Sequences

CONSTANTS
  Channels,      \* built-in channels and factories that are enabled
  SweepEnabled   \* reconcile.enabled

ASSUME LifecycleAssumption ==
  /\ Channels \subseteq STRING
  /\ SweepEnabled \in BOOLEAN

VARIABLES
  host,      \* where the thread that owns the plugin is
  registry,  \* names of the registered channels, frozen once the plugin is up
  started,   \* channels whose onStart has run
  stopped,   \* channels whose onStop has run
  queue,     \* tasks posted to the worker loop, oldest first
  timers,    \* timers armed on the worker loop
  drained    \* shutdown's last task has run

lifeVars == <<host, registry, started, stopped, queue, timers, drained>>

Timers == {"sweep", "refresh"}
Tasks == {"armSweep", "armRefresh", "disarmSweep", "disarmRefresh", "startAll", "drain"}

LifeTypeOK ==
  /\ host \in {"off", "up", "stopping", "draining", "joined"}
  /\ registry \subseteq Channels
  /\ started \subseteq Channels
  /\ stopped \subseteq Channels
  /\ queue \in Seq(Tasks)
  /\ timers \subseteq Timers
  /\ drained \in BOOLEAN

LifeInit ==
  /\ host = "off"
  /\ registry = {}
  /\ started = {}
  /\ stopped = {}
  /\ queue = <<>>
  /\ timers = {}
  /\ drained = FALSE

----------------------------------------------------------------------------
(* The host's thread *)

Post(tasks) == queue' = queue \o tasks

WhenSweeping(task) == IF SweepEnabled THEN <<task>> ELSE <<>>
WhenRefreshing(task, reg) == IF "wechat" \in reg THEN <<task>> ELSE <<>>

(* Every enabled channel is added unless its constructor throws, which is
   logged: any part of them may be there. *)
registerBuiltinChannels == SUBSET Channels

(* The channels and the factories that shadow none of them are registered and
   frozen before anything is posted. A removed configuration key or a missing
   database client refuses to start, which leaves the plugin off. *)
initAndStart ==
  /\ host = "off"
  /\ host' = "up"
  /\ \E reg \in registerBuiltinChannels :
       /\ registry' = reg
       /\ Post(WhenSweeping("armSweep") \o <<"startAll">> \o WhenRefreshing("armRefresh", reg))
  /\ UNCHANGED <<started, stopped, timers, drained>>

(* Mutant: the reconciliation timer is left armed. *)
shutdown_KeepsSweeping ==
  /\ host = "up"
  /\ host' = "stopping"
  /\ Post(WhenRefreshing("disarmRefresh", registry))
  /\ UNCHANGED <<registry, started, stopped, timers, drained>>

(* stopReconcileTimer and the certificate timer's invalidation are posted. *)
shutdown ==
  /\ host = "up"
  /\ host' = "stopping"
  /\ Post(WhenSweeping("disarmSweep") \o WhenRefreshing("disarmRefresh", registry))
  /\ UNCHANGED <<registry, started, stopped, timers, drained>>

(* Every onStop runs here and now, perhaps before a queued onStart. *)
stopAll ==
  /\ host = "stopping"
  /\ host' = "draining"
  /\ stopped' = registry
  /\ Post(<<"drain">>)
  /\ UNCHANGED <<registry, started, timers, drained>>

(* The promise is kept: the thread is joined, whatever is still posted. *)
JoinWorker ==
  /\ host = "draining"
  /\ drained
  /\ host' = "joined"
  /\ UNCHANGED <<registry, started, stopped, queue, timers, drained>>

(* The process ends; the next one starts afresh. *)
Exit ==
  /\ host = "joined"
  /\ host' = "off"
  /\ registry' = {} /\ started' = {} /\ stopped' = {}
  /\ queue' = <<>> /\ timers' = {} /\ drained' = FALSE

----------------------------------------------------------------------------
(* The worker loop *)

LoopRuns == host \in {"up", "stopping", "draining"}

RunTask ==
  /\ LoopRuns
  /\ queue # <<>>
  /\ queue' = Tail(queue)
  /\ timers' = CASE Head(queue) = "armSweep"      -> timers \cup {"sweep"}
                 [] Head(queue) = "armRefresh"    -> timers \cup {"refresh"}
                 [] Head(queue) = "disarmSweep"   -> timers \ {"sweep"}
                 [] Head(queue) = "disarmRefresh" -> timers \ {"refresh"}
                 [] OTHER                         -> timers
  /\ started' = IF Head(queue) = "startAll" THEN registry ELSE started
  /\ drained' = (drained \/ Head(queue) = "drain")
  /\ UNCHANGED <<host, registry, stopped>>

LifeStep == initAndStart \/ shutdown \/ stopAll \/ JoinWorker \/ RunTask
==============================================================================
