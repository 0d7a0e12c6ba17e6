----------------------------- MODULE Maintenance -----------------------------
(***************************************************************************)
(* The plugin's background work as a whole: the worker loop ticks the      *)
(* reconciliation and certificate timers while the plugin comes up, runs,  *)
(* shuts down and comes up again, and the sweeps' questions and answers    *)
(* race buyers, notifications and deadlines.                               *)
(***************************************************************************)
EXTENDS PluginLifecycle, Reconciliation

CONSTANT Configured   \* channels whose isConfigured finds no placeholder

ASSUME MaintenanceAssumption == Configured \subseteq {"wechat", "alipay"}

vars == <<lifeVars, sweepVars>>

Init == LifeInit /\ SweepInit

(* The reconciliation timer fires. *)
SweepTick ==
  /\ LoopRuns
  /\ "sweep" \in timers
  /\ reconcile(registry \cap Configured)
  /\ UNCHANGED lifeVars

(* With the process go the questions in flight; rows and trades remain. *)
ProcessEnds ==
  /\ Exit
  /\ selecting' = {}
  /\ flight' = [r \in Rows |-> "none"]
  /\ UNCHANGED <<row, trade, expired, recent, faults>>

Next ==
  \/ LifeStep /\ UNCHANGED sweepVars
  \/ SweepTick
  \/ ProcessEnds
  \/ \E k \in Kinds : (syncPending(k) \/ SelectFails(k)) /\ UNCHANGED lifeVars
  \/ \E r \in Rows : (SweepStep(r) \/ OutsideStep(r)) /\ UNCHANGED lifeVars

Spec == Init /\ [][Next]_vars

(* The loop runs what it was given, its timer keeps firing, and statements and
   channel calls come back. *)
Fairness ==
  /\ WF_vars(RunTask /\ UNCHANGED sweepVars)
  /\ WF_vars(SweepTick)
  /\ \A k \in Kinds : WF_vars(syncPending(k) /\ UNCHANGED lifeVars)
  /\ \A r \in Rows : /\ WF_vars(SweepStep(r) /\ UNCHANGED lifeVars)
                     /\ WF_vars(Ages(r) /\ UNCHANGED lifeVars)

FairSpec == Spec /\ Fairness

----------------------------------------------------------------------------
(* The value every variable may take. *)
TypeOK == LifeTypeOK /\ SweepTypeOK

(* "Drain in-flight worker tasks before tearing the thread down": when the
   thread is joined no task is lost, no timer can fire into a service that is
   about to go, and every channel was started and stopped. *)
TeardownIsClean ==
  host = "joined" => queue = <<>> /\ timers = {} /\ started = registry /\ stopped = registry

(* A sweep never settles a row against the channel: answers that are old when
   they are applied, and closes that lose the race with the buyer, leave no
   row closed under a paid trade. *)
SettledAgrees ==
  \A r \in Rows : /\ row[r] = "paid" => trade[r] = "SUCCESS"
                  /\ row[r] = "closed" => trade[r] = "CLOSED"

(* As many other pending rows of its kind as a batch holds: they may keep a row
   out of every batch, since each sweep renews their updated_at. *)
Crowded(r) == Cardinality(Listed(KindOf[r]) \ {r}) >= Batch

Serves(r) ==
  /\ host = "up"
  /\ SweepEnabled
  /\ Asks[KindOf[r]] \in registry \cap Configured

(* "An order whose third-party trade was created but whose local status update
   failed is recovered": a row the notification never reached is settled by
   the sweep in the end, unless others crowd it out for good. *)
MissedIsRecovered ==
  \A r \in Rows \ Unknown :
    <>[]Serves(r) =>
      \/ <>[]Crowded(r)
      \/ trade[r] # "NOTPAY" ~> row[r] \in {"paid", "closed"}

(* "The sweep closes it": an unpaid WeChat order past its deadline does not
   stay payable, and is booked, if its trade was ever made: about one that the
   channel does not know every query fails, and it stays CREATED. *)
ExpiredIsSettled ==
  \A r \in Deadline \ Unknown :
    <>[]Serves(r) =>
      \/ <>[]Crowded(r)
      \/ r \in expired ~> row[r] \in {"paid", "closed"}

----------------------------------------------------------------------------
(* What makes the two invariants inductive. *)

Queued(task) == \E i \in 1..Len(queue) : queue[i] = task

Arm == [sweep |-> "armSweep", refresh |-> "armRefresh"]
Disarm == [sweep |-> "disarmSweep", refresh |-> "disarmRefresh"]

(* The timer can fire, now or once the loop has come that far. *)
Armable(t) == t \in timers \/ Queued(Arm[t])

(* A timer is posted for arming when its part is configured, and shutdown posts
   its disarming behind that. *)
TimerHolds(t) ==
  /\ Armable(t) => IF t = "sweep" THEN SweepEnabled ELSE "wechat" \in registry
  /\ host \in {"stopping", "draining", "joined"} /\ Armable(t) => Queued(Disarm[t])
  /\ host \in {"off", "up"} => ~Queued(Disarm[t])
  /\ \A i, j \in 1..Len(queue) : queue[i] = Arm[t] /\ queue[j] = Disarm[t] => i < j

(* shutdown's own task is the last one the loop runs. *)
DrainIsLast ==
  /\ \A i \in 1..Len(queue) : queue[i] = "drain" => host = "draining" /\ i = Len(queue)
  /\ host = "draining" /\ ~drained => queue # <<>> /\ queue[Len(queue)] = "drain"
  /\ drained => queue = <<>> /\ host \in {"draining", "joined"}
  /\ host = "joined" => drained

WorkerInv ==
  /\ LifeTypeOK
  /\ host = "off" => queue = <<>> /\ timers = {}
  /\ \A t \in Timers : TimerHolds(t)
  /\ host # "off" => started = registry \/ Queued("startAll")
  /\ host \in {"draining", "joined"} => stopped = registry
  /\ DrainIsLast

(* An answer a sweep holds that says paid or closed stays true. *)
AnswersHold ==
  /\ row \in [Rows -> RowState] /\ trade \in [Rows -> TradeState] /\ flight \in [Rows -> Flight]
  /\ \A r \in Rows : flight[r] \in {"SUCCESS", "CLOSED"} => trade[r] = flight[r]

SweepInv == AnswersHold /\ SettledAgrees
==============================================================================
