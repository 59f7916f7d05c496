--------------------------- MODULE GatewayDaemon ----------------------------
(***************************************************************************)
(* The supervision of adapters in cmd_run (gateway/omp/cli.py): which      *)
(* machine has which adapter thread, how a reload compares the registry    *)
(* with what runs, how a thread is stopped, joined and retried, and how    *)
(* the process ends, past a drain that may never end.                      *)
(*                                                                         *)
(* Actors: the main thread; one thread per started adapter, running        *)
(* _supervise around the adapter's start(); an operator who edits the      *)
(* registry file and sends SIGHUP.  Envelopes are GatewayPipeline's.       *)
(***************************************************************************)
EXTENDS Naturals, FiniteSets

CONSTANTS
  Machines,     \* machine_ids
  Specs,        \* registry entries of a machine: adapter, config, location
  NoSpec,       \* "not in the registry"
  Registries,   \* what the file may hold: [kind, want], see below
  MaxCrashes,   \* --max-crashes
  SlowStop,     \* may a stopped adapter, or the drain its emit() is in, take
                \* more than the join's 10 seconds?
  MaxInstances, \* bounds: adapter objects at a time,
  MaxEdits      \* and edits of the registry

(* "valid": loads, and so do its adapters.  "invalid": load_registry or an *)
(* adapter's import raises.  "missing": an adapter directory holds no      *)
(* Adapter class, for which load_adapter_class raises SystemExit.          *)
Registry == [kind : {"valid", "invalid", "missing"},
             want : [Machines -> Specs \cup {NoSpec}]]

ASSUME DaemonAssumption ==
  /\ Machines # {}
  /\ NoSpec \notin Specs
  /\ Registries \subseteq Registry
  /\ MaxCrashes \in Nat \ {0}
  /\ SlowStop \in BOOLEAN
  /\ MaxInstances \in Nat /\ MaxEdits \in Nat

Instances == 1 .. MaxInstances
NoInstance == 0
MainThread == MaxInstances + 1

VARIABLES
  file,      \* the registry file
  reloaded,  \* has the operator asked for a reload since the last edit?
  edits,
  sighup,    \* the event reload_requested
  main,      \* where cmd_run is
  todo,      \* machines it has still to stop, to restart and to start
  joining,   \* the adapter thread it is joining
  wanted,    \* the registry last accepted
  running,   \* the dict `running`: machine -> adapter object
  unprobed,  \* machines whose last probe failed, which is only printed
  stopEvt,   \* the event stop_evt
  of, spec,  \* adapter object -> its machine, the registry entry it was given
  where,     \* adapter object -> where its thread is in _supervise
  ev,        \* adapter object -> its attribute _stop, an event start() makes
  crashes,   \* adapter object -> the count in _supervise
  lock       \* who holds drain_lock: an adapter's thread, MainThread, nobody

operVars == <<file, reloaded, edits>>
mainVars == <<main, todo, joining, wanted, running, unprobed>>
threadVars == <<of, spec, where, ev, crashes, lock>>
vars == <<operVars, sighup, mainVars, stopEvt, threadVars>>

Places == {"free", "new", "enter", "in", "drain", "retry", "done", "failed"}

TypeOK ==
  /\ file \in Registry
  /\ reloaded \in BOOLEAN
  /\ edits \in Nat
  /\ sighup \in BOOLEAN
  /\ main \in {"starting", "startup_drain", "tick", "loading", "applying",
               "stopping", "last_drain", "down", "raised"}
  /\ todo \in [stop : SUBSET Machines, restart : SUBSET Machines, add : SUBSET Machines]
  /\ joining \in Instances \cup {NoInstance}
  /\ wanted \in [Machines -> Specs \cup {NoSpec}]
  /\ running \in [Machines -> Instances \cup {NoInstance}]
  /\ unprobed \in SUBSET Machines
  /\ stopEvt \in BOOLEAN
  /\ of \in [Instances -> Machines]
  /\ spec \in [Instances -> Specs \cup {NoSpec}]
  /\ where \in [Instances -> Places]
  /\ ev \in [Instances -> {"none", "clear", "set"}]
  /\ crashes \in [Instances -> 0 .. MaxCrashes]
  /\ lock \in Instances \cup {NoInstance, MainThread}

Listed(want) == {m \in Machines : want[m] # NoSpec}

(* cmd_run has loaded a registry, written its pidfile and taken SIGHUP.    *)
Init ==
  /\ file \in {r \in Registries : r.kind = "valid"}
  /\ reloaded = TRUE
  /\ edits = 0
  /\ sighup = FALSE
  /\ main = "starting"
  /\ todo = [stop |-> {}, restart |-> {}, add |-> Listed(file.want)]
  /\ joining = NoInstance
  /\ wanted = file.want
  /\ running = [m \in Machines |-> NoInstance]
  /\ unprobed = {}
  /\ stopEvt = FALSE
  /\ of = [i \in Instances |-> CHOOSE m \in Machines : TRUE]
  /\ spec = [i \in Instances |-> NoSpec]
  /\ where = [i \in Instances |-> "free"]
  /\ ev = [i \in Instances |-> "none"]
  /\ crashes = [i \in Instances |-> 0]
  /\ lock = NoInstance

-----------------------------------------------------------------------------
Alive == main \notin {"down", "raised"}
Working == main \in {"starting", "applying", "stopping"}
Stopping == main \in {"stopping", "last_drain"}
Live(i) == where[i] \in {"new", "enter", "in", "drain", "retry"}
IsRunning(m) == running[m] # NoInstance

(* An adapter object is garbage once nothing refers to it.                 *)
Free(i) == /\ ~Live(i) /\ joining # i
           /\ \A m \in Machines : running[m] # i

-----------------------------------------------------------------------------
(* The operator edits the registry file.                                   *)
Edit ==
  /\ edits < MaxEdits
  /\ edits' = edits + 1
  /\ file' \in Registries \ {file}
  /\ reloaded' = FALSE
  /\ UNCHANGED <<sighup, mainVars, stopEvt, threadVars>>

(* `omp-gateway reload`: SIGHUP to the process named in the pidfile; its   *)
(* handler sets the event.                                                 *)
Reload ==
  /\ Alive
  /\ reloaded' = TRUE
  /\ sighup' = TRUE
  /\ UNCHANGED <<file, edits, mainVars, stopEvt, threadVars>>

-----------------------------------------------------------------------------
(* Mutations: every listed machine restarted; only new entries looked at.  *)
Changed_All(want) == {m \in Listed(want) : IsRunning(m)}
Removed_None(want) == {}

(* The lists that apply_reload makes of the new registry.                  *)
Removed(want) == {m \in Machines : IsRunning(m) /\ want[m] = NoSpec}
Changed(want) == {m \in Listed(want) : IsRunning(m) /\ spec[running[m]] # want[m]}
Added(want) == {m \in Listed(want) : ~IsRunning(m)}

(* The main loop's wait(prune_interval) timed out and a reload is asked    *)
(* for: the event is cleared before the file is read.                      *)
Wake ==
  /\ main = "tick" /\ ~stopEvt
  /\ sighup
  /\ sighup' = FALSE
  /\ main' = "loading"
  /\ UNCHANGED <<operVars, todo, joining, wanted, running, unprobed, stopEvt, threadVars>>

(* apply_reload up to the three lists: an exception refuses the registry,  *)
(* SystemExit is no Exception and leaves cmd_run.                          *)
Load ==
  /\ main = "loading"
  /\ \/ /\ file.kind = "valid"
        /\ main' = "applying"
        /\ wanted' = file.want
        /\ todo' = [stop |-> Removed(file.want), restart |-> Changed(file.want),
                    add |-> Added(file.want)]
     \/ /\ file.kind = "invalid"
        /\ main' = "tick"
        /\ UNCHANGED <<wanted, todo>>
     \/ /\ file.kind = "missing"
        /\ main' = "raised"
        /\ UNCHANGED <<wanted, todo>>
  /\ UNCHANGED <<operVars, sighup, joining, running, unprobed, stopEvt, threadVars>>

-----------------------------------------------------------------------------
(* Removed machines first, then each changed one is stopped and started,   *)
(* then the added ones.                                                    *)
MayStop(m) ==
  /\ joining = NoInstance
  /\ \/ m \in todo.stop
     \/ /\ todo.stop = {} /\ m \in todo.restart
        /\ \A r \in todo.restart : IsRunning(r)

MayStart(m) ==
  /\ joining = NoInstance /\ todo.stop = {}
  /\ \/ m \in todo.restart /\ ~IsRunning(m)
     \/ todo.restart = {} /\ m \in todo.add

(* Mutation: the machine is dropped from `running` without calling stop(). *)
Stopped_NotCalled(e) == e

(* What stop() makes of the adapter's event.                               *)
Stopped(e) == "set"

(* stop_machine up to the join.  The event is an attribute that start()    *)
(* creates: before that, stop() raises AttributeError through cmd_run.     *)
StopMachine(m) ==
  /\ Working /\ MayStop(m)
  /\ todo' = [todo EXCEPT !.stop = @ \ {m}]
  /\ running' = [running EXCEPT ![m] = NoInstance]
  /\ IF ev[running[m]] = "none"
     THEN /\ main' = "raised"
          /\ UNCHANGED <<joining, ev>>
     ELSE /\ joining' = running[m]
          /\ ev' = [ev EXCEPT ![running[m]] = Stopped(@)]
          /\ UNCHANGED main
  /\ UNCHANGED <<operVars, sighup, wanted, unprobed, stopEvt, of, spec, where, crashes,
                 lock>>

(* Mutation: join() without a timeout.                                     *)
Outlasts_Never(i) == FALSE

(* Can the thread outlast the ten seconds?  While it waits for a retry it  *)
(* does not look at its adapter's event (the delay grows to 5 minutes, and *)
(* the adapter's own reconnects use the same counter), and a new start()   *)
(* has made a new event.  With SlowStop the adapter may be slow, or its    *)
(* emit() wait for drain_lock or for a destination.                        *)
Outlasts(i) ==
  \/ where[i] = "retry"
  \/ where[i] \in {"in", "drain"} /\ (ev[i] = "clear" \/ SlowStop)

(* thread.join(timeout=10) returns: the thread ended, or time is up.       *)
Join ==
  /\ Working
  /\ joining # NoInstance
  /\ ~Live(joining) \/ Outlasts(joining)
  /\ joining' = NoInstance
  /\ UNCHANGED <<operVars, sighup, main, todo, wanted, running, unprobed, stopEvt,
                 threadVars>>

(* start_machine: the probe raised or overran, or the announcement raised. *)
ProbeFails(m) ==
  /\ Working /\ MayStart(m)
  /\ todo' = [todo EXCEPT !.restart = @ \ {m}, !.add = @ \ {m}]
  /\ unprobed' = unprobed \cup {m}
  /\ UNCHANGED <<operVars, sighup, main, joining, wanted, running, stopEvt, threadVars>>

(* start_machine: a new adapter object and its thread.                     *)
Launch(m) ==
  /\ Working /\ MayStart(m)
  /\ \E i \in Instances :
       /\ Free(i) /\ \A j \in Instances : Free(j) => i <= j
       /\ running' = [running EXCEPT ![m] = i]
       /\ of' = [of EXCEPT ![i] = m]
       /\ spec' = [spec EXCEPT ![i] = wanted[m]]
       /\ where' = [where EXCEPT ![i] = "new"]
       /\ ev' = [ev EXCEPT ![i] = "none"]
       /\ crashes' = [crashes EXCEPT ![i] = 0]
  /\ todo' = [todo EXCEPT !.restart = @ \ {m}, !.add = @ \ {m}]
  /\ unprobed' = unprobed \ {m}
  /\ UNCHANGED <<operVars, sighup, main, joining, wanted, stopEvt, lock>>

(* Every machine is started and the startup drain is next, the reload is   *)
(* applied, or every machine is stopped and the last drain is next.        *)
AllDone ==
  /\ joining = NoInstance
  /\ todo.stop = {} /\ todo.restart = {} /\ todo.add = {}
  /\ \/ main = "starting" /\ main' = "startup_drain"
     \/ main = "applying" /\ main' = "tick"
     \/ main = "stopping" /\ main' = "last_drain"
  /\ UNCHANGED <<operVars, todo, joining, wanted, running, unprobed, stopEvt, threadVars>>

(* Mutation: the event is cleared after apply_reload.                      *)
Finished_ClearsLate == AllDone /\ sighup' = (sighup /\ main # "applying")

Finished == AllDone /\ UNCHANGED sighup

(* The main thread's drains, at startup and after the last join, wait for  *)
(* drain_lock like an adapter's.                                           *)
MainLocks ==
  /\ main \in {"startup_drain", "last_drain"}
  /\ lock = NoInstance
  /\ lock' = MainThread
  /\ UNCHANGED <<operVars, sighup, mainVars, stopEvt, of, spec, where, ev, crashes>>

(* drain() returns, having met a closed pipe or not, or raises.            *)
MainDrained ==
  /\ main \in {"startup_drain", "last_drain"} /\ lock = MainThread
  /\ lock' = NoInstance
  /\ main' \in {IF main = "last_drain" THEN "down" ELSE "tick", "raised"}
  /\ stopEvt' \in {stopEvt, TRUE}
  /\ UNCHANGED <<operVars, sighup, todo, joining, wanted, running, unprobed,
                 of, spec, where, ev, crashes>>

StopAll ==
  /\ main' = "stopping"
  /\ todo' = [stop |-> {m \in Machines : IsRunning(m)}, restart |-> {}, add |-> {}]
  /\ joining' = NoInstance

(* The main loop sees stop_evt.                                            *)
Shutdown ==
  /\ main = "tick" /\ stopEvt
  /\ StopAll
  /\ UNCHANGED <<operVars, sighup, wanted, running, unprobed, stopEvt, threadVars>>

(* --duration is over, or KeyboardInterrupt anywhere in the main loop,     *)
(* a reload included; stop_evt is not set.                                 *)
Interrupt ==
  /\ main \in {"tick", "loading", "applying"}
  /\ StopAll
  /\ UNCHANGED <<operVars, sighup, wanted, running, unprobed, stopEvt, threadVars>>

(* SIGTERM, SIGKILL, or KeyboardInterrupt outside the main loop's try.     *)
Killed ==
  /\ Alive
  /\ main' = "down"
  /\ UNCHANGED <<operVars, sighup, todo, joining, wanted, running, unprobed, stopEvt,
                 threadVars>>

-----------------------------------------------------------------------------
(* _supervise looks at stop_evt: before the first start(), and when the    *)
(* wait for a retry ends.                                                  *)
Supervise(i) ==
  /\ Alive
  /\ where[i] \in {"new", "retry"}
  /\ where' = [where EXCEPT ![i] = IF stopEvt THEN "done" ELSE "enter"]
  /\ UNCHANGED <<operVars, sighup, mainVars, stopEvt, of, spec, ev, crashes, lock>>

(* start(emit): every adapter begins by making its event anew.             *)
Enter(i) ==
  /\ Alive
  /\ where[i] = "enter"
  /\ where' = [where EXCEPT ![i] = "in"]
  /\ ev' = [ev EXCEPT ![i] = "clear"]
  /\ UNCHANGED <<operVars, sighup, mainVars, stopEvt, of, spec, crashes, lock>>

(* start() returns: stopped, or at the end of what it was given to read.   *)
Returns(i) ==
  /\ Alive
  /\ where[i] = "in"
  /\ where' = [where EXCEPT ![i] = "done"]
  /\ UNCHANGED <<operVars, sighup, mainVars, stopEvt, of, spec, ev, crashes, lock>>

(* emit(): process() returned, and the thread has drain_lock.              *)
DrainBegins(i) ==
  /\ Alive
  /\ where[i] = "in"
  /\ lock = NoInstance
  /\ lock' = i
  /\ where' = [where EXCEPT ![i] = "drain"]
  /\ UNCHANGED <<operVars, sighup, mainVars, stopEvt, of, spec, ev, crashes>>

LeavesDrain(i) == lock' = IF where[i] = "drain" THEN NoInstance ELSE lock

(* emit() returns, every exporter drained.                                 *)
DrainEnds(i) ==
  /\ Alive
  /\ where[i] = "drain"
  /\ LeavesDrain(i)
  /\ where' = [where EXCEPT ![i] = "in"]
  /\ UNCHANGED <<operVars, sighup, mainVars, stopEvt, of, spec, ev, crashes>>

(* Mutations: one retry too many, or one too few.                          *)
GivesUp_OneLate(count) == count > MaxCrashes
GivesUp_OneEarly(count) == count + 1 >= MaxCrashes

(* Does _supervise give up after so many crashes?                          *)
GivesUp(count) == count >= MaxCrashes

(* An exception leaves start(): the adapter's own, or emit()'s.            *)
Crashes(i) ==
  /\ Alive
  /\ where[i] \in {"in", "drain"}
  /\ LeavesDrain(i)
  /\ crashes' = [crashes EXCEPT ![i] = @ + 1]
  /\ where' = [where EXCEPT ![i] = IF GivesUp(crashes[i] + 1) THEN "failed" ELSE "retry"]
  /\ UNCHANGED <<operVars, sighup, mainVars, stopEvt, of, spec, ev>>

(* emit: drain() met ExporterClosed, so the gateway is to stop, and this   *)
(* adapter at once.                                                        *)
DestinationGone(i) ==
  /\ Alive
  /\ where[i] = "drain"
  /\ LeavesDrain(i)
  /\ where' = [where EXCEPT ![i] = "in"]
  /\ stopEvt' = TRUE
  /\ ev' = [ev EXCEPT ![i] = "set"]
  /\ UNCHANGED <<operVars, sighup, mainVars, of, spec, crashes>>

-----------------------------------------------------------------------------
MainStep ==
  \/ Wake \/ Load \/ Join \/ Finished \/ Shutdown
  \/ \E m \in Machines : StopMachine(m) \/ ProbeFails(m) \/ Launch(m)

ThreadStep(i) ==
  \/ Supervise(i) \/ Enter(i) \/ Returns(i) \/ Crashes(i)
  \/ DrainBegins(i) \/ DrainEnds(i) \/ DestinationGone(i)

Next ==
  \/ Edit \/ Reload \/ Interrupt \/ Killed
  \/ MainStep \/ MainLocks \/ MainDrained
  \/ \E i \in Instances : ThreadStep(i)

Spec == Init /\ [][Next]_vars

(* The main thread runs, its waits and its probes end, a free drain_lock   *)
(* is not withheld from it for ever, and _supervise gets to the adapter.   *)
(* Nothing is assumed of adapters, of the operator, or of a drain that has *)
(* begun: wait_for_publish has no timeout (mqtt.py 47).                    *)
FairSpec ==
  /\ Spec
  /\ WF_vars(MainStep)
  /\ SF_vars(MainLocks)
  /\ \A i \in Instances : WF_vars(Supervise(i) \/ Enter(i))

-----------------------------------------------------------------------------
(* The inductive invariant.                                                *)

(* A machine marked failed has had max_crashes crashes and is left alone;  *)
(* one that has had them is not retried (_supervise, 192-198).             *)
FailedIsLeftAlone ==
  \A i \in Instances :
    /\ Live(i) => crashes[i] < MaxCrashes
    /\ where[i] = "failed" => crashes[i] = MaxCrashes

(* A running adapter is its machine's own.                                 *)
OnePerMachine ==
  \A m \in Machines : IsRunning(m) =>
    /\ of[running[m]] = m
    /\ spec[running[m]] \in Specs
    /\ running[m] # joining

(* What m runs is what the registry in use says.                           *)
Settled(m) ==
  IF IsRunning(m) THEN spec[running[m]] = wanted[m]
                  ELSE wanted[m] = NoSpec \/ m \in unprobed

(* The lists cover every machine not settled, and say why.                 *)
PlanCovers ==
  /\ main \in {"startup_drain", "tick", "loading"} =>
       joining = NoInstance /\ \A m \in Machines : Settled(m)
  /\ Working => \A m \in todo.stop : IsRunning(m)
  /\ main \in {"starting", "applying"} =>
       /\ \A m \in Machines :
            Settled(m) \/ m \in todo.stop \cup todo.restart \cup todo.add
       /\ \A m \in todo.stop : wanted[m] = NoSpec
       /\ \A m \in todo.restart :
            wanted[m] # NoSpec /\ (IsRunning(m) => spec[running[m]] # wanted[m])
       /\ \A m \in todo.add : wanted[m] # NoSpec /\ ~IsRunning(m)
  /\ main = "stopping" => todo.restart = {} /\ todo.add = {}

(* No reload is lost between the flag and the file.                        *)
FlagFirst ==
  main \in {"starting", "startup_drain", "tick", "applying"} =>
    (~sighup /\ reloaded /\ file.kind = "valid" => wanted = file.want)

(* A live thread that never crashed is in `running` or being joined; while *)
(* it is joined it is inside start() with its event set.                   *)
Held ==
  \A i \in Instances : Live(i) /\ crashes[i] = 0 =>
    /\ where[i] # "retry"
    /\ where[i] \in {"new", "enter"} => ev[i] = "none"
    /\ joining = i => where[i] \in {"in", "drain"} /\ ev[i] = "set"
    /\ main \in {"starting", "startup_drain", "tick", "loading", "applying"} =>
         running[of[i]] = i \/ joining = i

-----------------------------------------------------------------------------
(* Between two reloads the running threads are those of the registry last  *)
(* accepted: an entry that is not running failed its probe, and one that   *)
(* runs was started with exactly this entry (apply_reload, 452-463).       *)
Applied == main = "tick" => \A m \in Machines : Settled(m)

(* A reload the operator asked for is not lost, however it falls between   *)
(* the check of the flag, the reading of the file and the restarts: at a   *)
(* tick with nothing asked, a valid file is the registry in use (486-488). *)
NotLost ==
  main = "tick" /\ ~sighup /\ reloaded /\ file.kind = "valid" => wanted = file.want

(* "Machines whose config is unchanged keep streaming untouched" (442):    *)
(* only a changed or removed entry, a closed destination or a shutdown     *)
(* makes an adapter stop.                                                  *)
StoppedForCause ==
  [][\A i \in Instances :
       ev[i] # "set" /\ ev'[i] = "set" =>
         stopEvt' \/ main = "stopping" \/ spec[i] # wanted[of[i]]]_vars

(* When the gateway is at rest every adapter thread that lives is one it   *)
(* can still stop, so no machine has two: "stop() -> start() returns ->    *)
(* thread joined" (adapter-plugin-api.md 122).                             *)
Owned ==
  main = "tick" => \A i \in Instances : Live(i) => running[of[i]] = i

(* Only an adapter that has crashed gets away from a stop: when adapters   *)
(* stop in time, a live thread the gateway has let go of is one whose      *)
(* supervisor retried it (_supervise, 186-204; stop_machine, 421-425).     *)
EscapedHaveCrashed ==
  main = "tick" =>
    \A i \in Instances : Live(i) /\ running[of[i]] # i => crashes[i] > 0

(* The part of the invariant that the proofs need when adapters may be     *)
(* slow, and all of it when they are not.                                  *)
IInv == TypeOK /\ FailedIsLeftAlone /\ OnePerMachine /\ PlanCovers /\ FlagFirst
PromptInv == IInv /\ Held

(* Whoever takes drain_lock gives it back.                                 *)
DrainsEnd ==
  \A h \in Instances \cup {MainThread} : []<>(lock # h \/ ~Alive)

(* A stop is obeyed even when an adapter never returns: a shutdown that    *)
(* began, and a destination that closed, end the process (478-509).  The   *)
(* exception is a drain that never ends: the joins time out, but the last  *)
(* drain (499) waits for drain_lock and for its destinations without a     *)
(* limit.                                                                  *)
StopIsObeyed == DrainsEnd => (stopEvt \/ Stopping ~> ~Alive)

(* A reload that was asked for is taken up, unless the gateway stops or    *)
(* its startup drain (471) never ends.                                     *)
ReloadIsTaken == DrainsEnd => (sighup ~> ~sighup \/ Stopping \/ ~Alive)
=============================================================================
