----------------------- MODULE GatewayDaemonProofs --------------------------
(***************************************************************************)
(* Proofs about GatewayDaemon, for any registries, any number of adapter   *)
(* objects and edits, and any max_crashes.                                 *)
(***************************************************************************)
EXTENDS GatewayDaemon, TLAPS

(* Types; that a crash count stays in its range is FailedIsLeftAlone.      *)
LEMMA TypeStep ==
  ASSUME IInv, [Next]_vars
  PROVE  TypeOK'
<1> USE DaemonAssumption DEF Instances, NoInstance, IInv, TypeOK, Places
<1>1. CASE Wake
  BY <1>1 DEF Wake, operVars, mainVars, threadVars, StopAll
<1>2. CASE Load
  BY <1>2 DEF Load, Registry, Removed, Changed, Added, Listed,
     operVars, threadVars
<1>3. CASE Join
  BY <1>3 DEF Join, operVars, mainVars, threadVars, StopAll
<1>4. CASE Finished
  BY <1>4 DEF Finished, AllDone, operVars, mainVars, threadVars, StopAll
<1>5. CASE Shutdown
  BY <1>5 DEF Shutdown, operVars, mainVars, threadVars, StopAll
<1>6. CASE Edit
  <2>1. file' \in Registries /\ edits' \in Nat
    BY <1>6 DEF Edit
  <2>2. file' \in Registry
    BY <2>1
  <2> QED
    BY <1>6, <2>1, <2>2 DEF Edit, mainVars, threadVars
<1>7. CASE Reload
  BY <1>7 DEF Reload, operVars, mainVars, threadVars, StopAll
<1>8. CASE Interrupt
  BY <1>8 DEF Interrupt, operVars, mainVars, threadVars, StopAll
<1>9. CASE Killed
  BY <1>9 DEF Killed, operVars, mainVars, threadVars, StopAll
<1>10. ASSUME NEW m \in Machines, StopMachine(m) PROVE TypeOK'
  <2>1. running[m] \in Instances
    BY <1>10 DEF StopMachine, MayStop, PlanCovers, IsRunning
  <2>2. todo' \in [stop : SUBSET Machines, restart : SUBSET Machines, add : SUBSET Machines]
    BY <1>10 DEF StopMachine
  <2>3. running' \in [Machines -> Instances \cup {NoInstance}]
    BY <1>10 DEF StopMachine
  <2>4. /\ joining' \in Instances \cup {NoInstance}
        /\ ev' \in [Instances -> {"none", "clear", "set"}]
        /\ main' \in {main, "raised"}
    BY <1>10, <2>1 DEF StopMachine, Stopped
  <2> QED
    BY <1>10, <2>2, <2>3, <2>4 DEF StopMachine, operVars
<1>11. ASSUME NEW m \in Machines, ProbeFails(m) PROVE TypeOK'
  BY <1>11 DEF ProbeFails, operVars, mainVars, threadVars
<1>12. ASSUME NEW m \in Machines, Launch(m) PROVE TypeOK'
  <2>1. PICK i \in Instances :
          /\ running' = [running EXCEPT ![m] = i]
          /\ of' = [of EXCEPT ![i] = m]
          /\ spec' = [spec EXCEPT ![i] = wanted[m]]
          /\ where' = [where EXCEPT ![i] = "new"]
          /\ ev' = [ev EXCEPT ![i] = "none"]
          /\ crashes' = [crashes EXCEPT ![i] = 0]
    BY <1>12 DEF Launch
  <2>2. /\ running' \in [Machines -> Instances \cup {NoInstance}]
        /\ of' \in [Instances -> Machines]
        /\ spec' \in [Instances -> Specs \cup {NoSpec}]
    BY <2>1
  <2>3. /\ where' \in [Instances -> Places]
        /\ ev' \in [Instances -> {"none", "clear", "set"}]
        /\ crashes' \in [Instances -> 0 .. MaxCrashes]
    BY <2>1
  <2>4. /\ todo' \in [stop : SUBSET Machines, restart : SUBSET Machines, add : SUBSET Machines]
        /\ unprobed' \in SUBSET Machines
    BY <1>12 DEF Launch
  <2> QED
    BY <1>12, <2>2, <2>3, <2>4 DEF Launch, operVars
<1>13. ASSUME NEW i \in Instances, Supervise(i) PROVE TypeOK'
  BY <1>13 DEF Supervise, operVars, mainVars, threadVars
<1>14. ASSUME NEW i \in Instances, Enter(i) PROVE TypeOK'
  BY <1>14 DEF Enter, operVars, mainVars, threadVars
<1>15. ASSUME NEW i \in Instances, Returns(i) PROVE TypeOK'
  BY <1>15 DEF Returns, operVars, mainVars, threadVars
<1>16. ASSUME NEW i \in Instances, Crashes(i) PROVE TypeOK'
  BY <1>16 DEF Crashes, LeavesDrain, FailedIsLeftAlone, Live, GivesUp, operVars, mainVars
<1>17. ASSUME NEW i \in Instances, DestinationGone(i) PROVE TypeOK'
  BY <1>17 DEF DestinationGone, LeavesDrain, operVars, mainVars, threadVars
<1>19. ASSUME NEW i \in Instances, DrainBegins(i) PROVE TypeOK'
  BY <1>19 DEF DrainBegins, operVars, mainVars, threadVars
<1>20. ASSUME NEW i \in Instances, DrainEnds(i) PROVE TypeOK'
  BY <1>20 DEF DrainEnds, LeavesDrain, operVars, mainVars, threadVars
<1>21. CASE MainLocks
  BY <1>21 DEF MainLocks, operVars, mainVars, threadVars
<1>22. CASE MainDrained
  BY <1>22 DEF MainDrained, operVars, mainVars, threadVars
<1>18. CASE UNCHANGED vars
  BY <1>18 DEF vars, operVars, mainVars, threadVars
<1> QED
  BY <1>1, <1>2, <1>3, <1>4, <1>5, <1>6, <1>7, <1>8, <1>9, <1>10, <1>11, <1>12,
     <1>13, <1>14, <1>15, <1>16, <1>17, <1>18, <1>19, <1>20, <1>21, <1>22
  DEF Next, MainStep, ThreadStep

(* A thread that has had its crashes is not alive.                         *)
LEMMA CrashStep ==
  ASSUME IInv, [Next]_vars
  PROVE  FailedIsLeftAlone'
<1> USE DaemonAssumption DEF Instances, NoInstance, IInv, TypeOK,
   FailedIsLeftAlone, Live, Places
<1>1. CASE Wake
  BY <1>1 DEF Wake, operVars, mainVars, threadVars, StopAll
<1>2. CASE Load
  BY <1>2 DEF Load, Removed, Changed, Added, Listed, operVars,
     threadVars
<1>3. CASE Join
  BY <1>3 DEF Join, operVars, mainVars, threadVars, StopAll
<1>4. CASE Finished
  BY <1>4 DEF Finished, AllDone, operVars, mainVars, threadVars, StopAll
<1>5. CASE Shutdown
  BY <1>5 DEF Shutdown, operVars, mainVars, threadVars, StopAll
<1>6. CASE Edit
  BY <1>6 DEF Edit, operVars, mainVars, threadVars, StopAll
<1>7. CASE Reload
  BY <1>7 DEF Reload, operVars, mainVars, threadVars, StopAll
<1>8. CASE Interrupt
  BY <1>8 DEF Interrupt, operVars, mainVars, threadVars, StopAll
<1>9. CASE Killed
  BY <1>9 DEF Killed, operVars, mainVars, threadVars, StopAll
<1>10. ASSUME NEW m \in Machines, StopMachine(m) PROVE FailedIsLeftAlone'
  BY <1>10 DEF StopMachine, operVars, mainVars, threadVars
<1>11. ASSUME NEW m \in Machines, ProbeFails(m) PROVE FailedIsLeftAlone'
  BY <1>11 DEF ProbeFails, operVars, mainVars, threadVars
<1>12. ASSUME NEW m \in Machines, Launch(m) PROVE FailedIsLeftAlone'
  BY <1>12 DEF Launch, operVars, mainVars, threadVars
<1>13. ASSUME NEW i \in Instances, Supervise(i) PROVE FailedIsLeftAlone'
  BY <1>13 DEF Supervise, operVars, mainVars, threadVars
<1>14. ASSUME NEW i \in Instances, Enter(i) PROVE FailedIsLeftAlone'
  BY <1>14 DEF Enter, operVars, mainVars, threadVars
<1>15. ASSUME NEW i \in Instances, Returns(i) PROVE FailedIsLeftAlone'
  BY <1>15 DEF Returns, operVars, mainVars, threadVars
<1>16. ASSUME NEW i \in Instances, Crashes(i) PROVE FailedIsLeftAlone'
  <2>1. where[i] \in {"in", "drain"} /\ crashes[i] < MaxCrashes /\ crashes[i] \in Nat
    BY <1>16 DEF Crashes
  <2>2. /\ crashes'[i] = crashes[i] + 1
        /\ where'[i] = IF crashes[i] + 1 >= MaxCrashes THEN "failed" ELSE "retry"
    BY <1>16 DEF Crashes, LeavesDrain, GivesUp
  <2>3. \A j \in Instances : j # i => crashes'[j] = crashes[j] /\ where'[j] = where[j]
    BY <1>16 DEF Crashes
  <2>4. /\ where'[i] = "retry" => crashes'[i] < MaxCrashes
        /\ where'[i] = "failed" => crashes'[i] = MaxCrashes
        /\ where'[i] \in {"retry", "failed"}
    BY <2>1, <2>2
  <2> QED
    BY <2>3, <2>4
<1>17. ASSUME NEW i \in Instances, DestinationGone(i) PROVE FailedIsLeftAlone'
  BY <1>17 DEF DestinationGone, LeavesDrain, operVars, mainVars, threadVars
<1>19. ASSUME NEW i \in Instances, DrainBegins(i) PROVE FailedIsLeftAlone'
  BY <1>19 DEF DrainBegins, operVars, mainVars, threadVars
<1>20. ASSUME NEW i \in Instances, DrainEnds(i) PROVE FailedIsLeftAlone'
  BY <1>20 DEF DrainEnds, LeavesDrain, operVars, mainVars, threadVars
<1>21. CASE MainLocks
  BY <1>21 DEF MainLocks, operVars, mainVars, threadVars
<1>22. CASE MainDrained
  BY <1>22 DEF MainDrained, operVars, mainVars, threadVars
<1>18. CASE UNCHANGED vars
  BY <1>18 DEF vars, operVars, mainVars, threadVars
<1> QED
  BY <1>1, <1>2, <1>3, <1>4, <1>5, <1>6, <1>7, <1>8, <1>9, <1>10, <1>11, <1>12,
     <1>13, <1>14, <1>15, <1>16, <1>17, <1>18, <1>19, <1>20, <1>21, <1>22
  DEF Next, MainStep, ThreadStep

(* A new adapter object is no other machine's and is not being joined.     *)
LEMMA OwnStep ==
  ASSUME IInv, [Next]_vars
  PROVE  OnePerMachine'
<1> USE DaemonAssumption DEF Instances, NoInstance, IInv, TypeOK, OnePerMachine,
   IsRunning
<1>1. CASE Wake
  BY <1>1 DEF Wake, operVars, mainVars, threadVars, StopAll
<1>2. CASE Load
  BY <1>2 DEF Load, Removed, Changed, Added, Listed, operVars,
     threadVars
<1>3. CASE Join
  BY <1>3 DEF Join, operVars, mainVars, threadVars, StopAll
<1>4. CASE Finished
  BY <1>4 DEF Finished, AllDone, operVars, mainVars, threadVars, StopAll
<1>5. CASE Shutdown
  BY <1>5 DEF Shutdown, operVars, mainVars, threadVars, StopAll
<1>6. CASE Edit
  BY <1>6 DEF Edit, operVars, mainVars, threadVars, StopAll
<1>7. CASE Reload
  BY <1>7 DEF Reload, operVars, mainVars, threadVars, StopAll
<1>8. CASE Interrupt
  BY <1>8 DEF Interrupt, operVars, mainVars, threadVars, StopAll
<1>9. CASE Killed
  BY <1>9 DEF Killed, operVars, mainVars, threadVars, StopAll
<1>10. ASSUME NEW m \in Machines, StopMachine(m) PROVE OnePerMachine'
  BY <1>10 DEF StopMachine, MayStop, PlanCovers, operVars
<1>11. ASSUME NEW m \in Machines, ProbeFails(m) PROVE OnePerMachine'
  BY <1>11 DEF ProbeFails, operVars, mainVars, threadVars
<1>12. ASSUME NEW m \in Machines, Launch(m) PROVE OnePerMachine'
  BY <1>12 DEF Launch, Free, MayStart, PlanCovers, Working, operVars
<1>13. ASSUME NEW i \in Instances, Supervise(i) PROVE OnePerMachine'
  BY <1>13 DEF Supervise, operVars, mainVars, threadVars
<1>14. ASSUME NEW i \in Instances, Enter(i) PROVE OnePerMachine'
  BY <1>14 DEF Enter, operVars, mainVars, threadVars
<1>15. ASSUME NEW i \in Instances, Returns(i) PROVE OnePerMachine'
  BY <1>15 DEF Returns, operVars, mainVars, threadVars
<1>16. ASSUME NEW i \in Instances, Crashes(i) PROVE OnePerMachine'
  BY <1>16 DEF Crashes, LeavesDrain, operVars, mainVars, threadVars
<1>17. ASSUME NEW i \in Instances, DestinationGone(i) PROVE OnePerMachine'
  BY <1>17 DEF DestinationGone, LeavesDrain, operVars, mainVars, threadVars
<1>19. ASSUME NEW i \in Instances, DrainBegins(i) PROVE OnePerMachine'
  BY <1>19 DEF DrainBegins, operVars, mainVars, threadVars
<1>20. ASSUME NEW i \in Instances, DrainEnds(i) PROVE OnePerMachine'
  BY <1>20 DEF DrainEnds, LeavesDrain, operVars, mainVars, threadVars
<1>21. CASE MainLocks
  BY <1>21 DEF MainLocks, operVars, mainVars, threadVars
<1>22. CASE MainDrained
  BY <1>22 DEF MainDrained, operVars, mainVars, threadVars
<1>18. CASE UNCHANGED vars
  BY <1>18 DEF vars, operVars, mainVars, threadVars
<1> QED
  BY <1>1, <1>2, <1>3, <1>4, <1>5, <1>6, <1>7, <1>8, <1>9, <1>10, <1>11, <1>12,
     <1>13, <1>14, <1>15, <1>16, <1>17, <1>18, <1>19, <1>20, <1>21, <1>22
  DEF Next, MainStep, ThreadStep

(* The lists of a reload stay true of what runs while they are worked off. *)
LEMMA PlanStep ==
  ASSUME IInv, [Next]_vars
  PROVE  PlanCovers'
<1> USE DaemonAssumption DEF Instances, NoInstance, IInv, TypeOK, PlanCovers,
   Settled, IsRunning, Working
<1>1. CASE Wake
  BY <1>1 DEF Wake, operVars, mainVars, threadVars, StopAll
<1>2. CASE Load
  BY <1>2 DEF Load, Removed, Changed, Added, Listed, operVars,
     threadVars
<1>3. CASE Join
  BY <1>3 DEF Join, operVars, mainVars, threadVars, StopAll
<1>4. CASE Finished
  BY <1>4 DEF Finished, AllDone, operVars, mainVars, threadVars, StopAll
<1>5. CASE Shutdown
  BY <1>5 DEF Shutdown, operVars, mainVars, threadVars, StopAll
<1>6. CASE Edit
  BY <1>6 DEF Edit, operVars, mainVars, threadVars, StopAll
<1>7. CASE Reload
  BY <1>7 DEF Reload, operVars, mainVars, threadVars, StopAll
<1>8. CASE Interrupt
  BY <1>8 DEF Interrupt, operVars, mainVars, threadVars, StopAll
<1>9. CASE Killed
  BY <1>9 DEF Killed, operVars, mainVars, threadVars, StopAll
<1>10. ASSUME NEW m \in Machines, StopMachine(m) PROVE PlanCovers'
  BY <1>10 DEF StopMachine, MayStop, OnePerMachine, operVars
<1>11. ASSUME NEW m \in Machines, ProbeFails(m) PROVE PlanCovers'
  BY <1>11 DEF ProbeFails, MayStart, operVars, threadVars
<1>12. ASSUME NEW m \in Machines, Launch(m) PROVE PlanCovers'
  BY <1>12 DEF Launch, Free, MayStart, OnePerMachine, operVars
<1>13. ASSUME NEW i \in Instances, Supervise(i) PROVE PlanCovers'
  BY <1>13 DEF Supervise, operVars, mainVars, threadVars
<1>14. ASSUME NEW i \in Instances, Enter(i) PROVE PlanCovers'
  BY <1>14 DEF Enter, operVars, mainVars, threadVars
<1>15. ASSUME NEW i \in Instances, Returns(i) PROVE PlanCovers'
  BY <1>15 DEF Returns, operVars, mainVars, threadVars
<1>16. ASSUME NEW i \in Instances, Crashes(i) PROVE PlanCovers'
  BY <1>16 DEF Crashes, LeavesDrain, operVars, mainVars, threadVars
<1>17. ASSUME NEW i \in Instances, DestinationGone(i) PROVE PlanCovers'
  BY <1>17 DEF DestinationGone, LeavesDrain, operVars, mainVars, threadVars
<1>19. ASSUME NEW i \in Instances, DrainBegins(i) PROVE PlanCovers'
  BY <1>19 DEF DrainBegins, operVars, mainVars, threadVars
<1>20. ASSUME NEW i \in Instances, DrainEnds(i) PROVE PlanCovers'
  BY <1>20 DEF DrainEnds, LeavesDrain, operVars, mainVars, threadVars
<1>21. CASE MainLocks
  BY <1>21 DEF MainLocks, operVars, mainVars, threadVars
<1>22. CASE MainDrained
  BY <1>22 DEF MainDrained, operVars, mainVars, threadVars
<1>18. CASE UNCHANGED vars
  BY <1>18 DEF vars, operVars, mainVars, threadVars
<1> QED
  BY <1>1, <1>2, <1>3, <1>4, <1>5, <1>6, <1>7, <1>8, <1>9, <1>10, <1>11, <1>12,
     <1>13, <1>14, <1>15, <1>16, <1>17, <1>18, <1>19, <1>20, <1>21, <1>22
  DEF Next, MainStep, ThreadStep

(* Only Load gives up what the file said, and it reads the file.           *)
LEMMA FlagStep ==
  ASSUME IInv, [Next]_vars
  PROVE  FlagFirst'
<1> USE DaemonAssumption DEF Instances, NoInstance, IInv, TypeOK, FlagFirst, Working
<1>1. CASE Wake
  BY <1>1 DEF Wake, operVars, mainVars, threadVars, StopAll
<1>2. CASE Load
  BY <1>2 DEF Load, operVars, threadVars
<1>3. CASE Join
  BY <1>3 DEF Join, operVars, mainVars, threadVars, StopAll
<1>4. CASE Finished
  BY <1>4 DEF Finished, AllDone, operVars, mainVars, threadVars, StopAll
<1>5. CASE Shutdown
  BY <1>5 DEF Shutdown, operVars, mainVars, threadVars, StopAll
<1>6. CASE Edit
  BY <1>6 DEF Edit, operVars, mainVars, threadVars, StopAll
<1>7. CASE Reload
  BY <1>7 DEF Reload, operVars, mainVars, threadVars, StopAll
<1>8. CASE Interrupt
  BY <1>8 DEF Interrupt, operVars, mainVars, threadVars, StopAll
<1>9. CASE Killed
  BY <1>9 DEF Killed, operVars, mainVars, threadVars, StopAll
<1>10. ASSUME NEW m \in Machines, StopMachine(m) PROVE FlagFirst'
  BY <1>10 DEF StopMachine, operVars, mainVars, threadVars
<1>11. ASSUME NEW m \in Machines, ProbeFails(m) PROVE FlagFirst'
  BY <1>11 DEF ProbeFails, operVars, mainVars, threadVars
<1>12. ASSUME NEW m \in Machines, Launch(m) PROVE FlagFirst'
  BY <1>12 DEF Launch, operVars, mainVars, threadVars
<1>13. ASSUME NEW i \in Instances, Supervise(i) PROVE FlagFirst'
  BY <1>13 DEF Supervise, operVars, mainVars, threadVars
<1>14. ASSUME NEW i \in Instances, Enter(i) PROVE FlagFirst'
  BY <1>14 DEF Enter, operVars, mainVars, threadVars
<1>15. ASSUME NEW i \in Instances, Returns(i) PROVE FlagFirst'
  BY <1>15 DEF Returns, operVars, mainVars, threadVars
<1>16. ASSUME NEW i \in Instances, Crashes(i) PROVE FlagFirst'
  BY <1>16 DEF Crashes, LeavesDrain, operVars, mainVars, threadVars
<1>17. ASSUME NEW i \in Instances, DestinationGone(i) PROVE FlagFirst'
  BY <1>17 DEF DestinationGone, LeavesDrain, operVars, mainVars, threadVars
<1>19. ASSUME NEW i \in Instances, DrainBegins(i) PROVE FlagFirst'
  BY <1>19 DEF DrainBegins, operVars, mainVars, threadVars
<1>20. ASSUME NEW i \in Instances, DrainEnds(i) PROVE FlagFirst'
  BY <1>20 DEF DrainEnds, LeavesDrain, operVars, mainVars, threadVars
<1>21. CASE MainLocks
  BY <1>21 DEF MainLocks, operVars, mainVars, threadVars
<1>22. CASE MainDrained
  BY <1>22 DEF MainDrained, operVars, mainVars, threadVars
<1>18. CASE UNCHANGED vars
  BY <1>18 DEF vars, operVars, mainVars, threadVars
<1> QED
  BY <1>1, <1>2, <1>3, <1>4, <1>5, <1>6, <1>7, <1>8, <1>9, <1>10, <1>11, <1>12,
     <1>13, <1>14, <1>15, <1>16, <1>17, <1>18, <1>19, <1>20, <1>21, <1>22
  DEF Next, MainStep, ThreadStep

(* A stop reaches an adapter that never crashed, and it is joined.         *)
LEMMA HeldStep ==
  ASSUME PromptInv, ~SlowStop, [Next]_vars
  PROVE  Held'
<1> USE DaemonAssumption DEF Instances, NoInstance, PromptInv, IInv, TypeOK, Held,
   Live, Places
<1>1. CASE Wake
  BY <1>1 DEF Wake, operVars, mainVars, threadVars, StopAll
<1>2. CASE Load
  BY <1>2 DEF Load, Removed, Changed, Added, Listed, operVars,
     threadVars
<1>3. CASE Join
  BY <1>3 DEF Join, Outlasts, operVars, mainVars, threadVars
<1>4. CASE Finished
  <2>1. /\ main \in {"starting", "applying", "stopping"}
        /\ main = "stopping" => main' = "last_drain"
    BY <1>4 DEF Finished, AllDone
  <2>2. UNCHANGED <<where, ev, crashes, of, running, joining>>
    BY <1>4 DEF Finished, AllDone, threadVars
  <2> QED
    BY <2>1, <2>2
<1>5. CASE Shutdown
  BY <1>5 DEF Shutdown, operVars, mainVars, threadVars, StopAll
<1>6. CASE Edit
  BY <1>6 DEF Edit, operVars, mainVars, threadVars, StopAll
<1>7. CASE Reload
  BY <1>7 DEF Reload, operVars, mainVars, threadVars, StopAll
<1>8. CASE Interrupt
  BY <1>8 DEF Interrupt, operVars, mainVars, threadVars, StopAll
<1>9. CASE Killed
  BY <1>9 DEF Killed, operVars, mainVars, threadVars, StopAll
<1>10. ASSUME NEW m \in Machines, StopMachine(m) PROVE Held'
  BY <1>10 DEF StopMachine, MayStop, Stopped, OnePerMachine, PlanCovers, Working,
     IsRunning, operVars
<1>11. ASSUME NEW m \in Machines, ProbeFails(m) PROVE Held'
  BY <1>11 DEF ProbeFails, operVars, mainVars, threadVars
<1>12. ASSUME NEW m \in Machines, Launch(m) PROVE Held'
  <2>1. PICK i \in Instances :
          /\ Free(i)
          /\ running' = [running EXCEPT ![m] = i]
          /\ of' = [of EXCEPT ![i] = m]
          /\ where' = [where EXCEPT ![i] = "new"]
          /\ ev' = [ev EXCEPT ![i] = "none"]
          /\ crashes' = [crashes EXCEPT ![i] = 0]
    BY <1>12 DEF Launch
  <2>2. joining = NoInstance /\ joining' = joining /\ main' = main
    BY <1>12 DEF Launch, MayStart
  <2>3. ~IsRunning(m) \/ main = "stopping"
    BY <1>12 DEF Launch, MayStart, PlanCovers, Working
  <2>4. /\ where'[i] = "new" /\ ev'[i] = "none"
        /\ running'[of'[i]] = i /\ joining' # i
    BY <2>1, <2>2
  <2>5. ASSUME NEW j \in Instances, j # i, Live(j), crashes[j] = 0, main # "stopping",
               running[of[j]] = j
        PROVE  running'[of'[j]] = j
    <3>1. of[j] # m
      BY <2>3, <2>5 DEF IsRunning
    <3> QED
      BY <2>1, <2>5, <3>1
  <2>6. \A j \in Instances : j # i =>
          where'[j] = where[j] /\ ev'[j] = ev[j] /\ crashes'[j] = crashes[j]
    BY <2>1
  <2> QED
    BY <2>2, <2>4, <2>5, <2>6
<1>13. ASSUME NEW i \in Instances, Supervise(i) PROVE Held'
  BY <1>13 DEF Supervise, operVars, mainVars, threadVars
<1>14. ASSUME NEW i \in Instances, Enter(i) PROVE Held'
  BY <1>14 DEF Enter, operVars, mainVars, threadVars
<1>15. ASSUME NEW i \in Instances, Returns(i) PROVE Held'
  BY <1>15 DEF Returns, operVars, mainVars, threadVars
<1>16. ASSUME NEW i \in Instances, Crashes(i) PROVE Held'
  BY <1>16 DEF Crashes, LeavesDrain, operVars, mainVars, threadVars
<1>17. ASSUME NEW i \in Instances, DestinationGone(i) PROVE Held'
  BY <1>17 DEF DestinationGone, LeavesDrain, operVars, mainVars, threadVars
<1>19. ASSUME NEW i \in Instances, DrainBegins(i) PROVE Held'
  BY <1>19 DEF DrainBegins, operVars, mainVars, threadVars
<1>20. ASSUME NEW i \in Instances, DrainEnds(i) PROVE Held'
  BY <1>20 DEF DrainEnds, LeavesDrain, operVars, mainVars, threadVars
<1>21. CASE MainLocks
  BY <1>21 DEF MainLocks, operVars, mainVars, threadVars
<1>22. CASE MainDrained
  BY <1>22 DEF MainDrained, operVars, mainVars, threadVars
<1>18. CASE UNCHANGED vars
  BY <1>18 DEF vars, operVars, mainVars, threadVars
<1> QED
  BY <1>1, <1>2, <1>3, <1>4, <1>5, <1>6, <1>7, <1>8, <1>9, <1>10, <1>11, <1>12,
     <1>13, <1>14, <1>15, <1>16, <1>17, <1>18, <1>19, <1>20, <1>21, <1>22
  DEF Next, MainStep, ThreadStep

-----------------------------------------------------------------------------
(* The start of the daemon: all listed machines are to be started.         *)
LEMMA InitHolds == Init => PromptInv
<1> SUFFICES ASSUME Init PROVE PromptInv
  OBVIOUS
<1> USE DaemonAssumption DEF Init, Instances, NoInstance
<1>1. file \in Registry
  OBVIOUS
<1>2. TypeOK
  <2>1. (CHOOSE m \in Machines : TRUE) \in Machines
    OBVIOUS
  <2>2. Listed(file.want) \in SUBSET Machines
    BY DEF Listed
  <2>3. file.want \in [Machines -> Specs \cup {NoSpec}]
    BY <1>1 DEF Registry
  <2>4. of \in [Instances -> Machines]
    BY <2>1
  <2>5. /\ main = "starting" /\ unprobed \in SUBSET Machines
        /\ todo \in [stop : SUBSET Machines, restart : SUBSET Machines, add : SUBSET Machines]
    BY <2>2
  <2>6. /\ running \in [Machines -> Instances \cup {NoInstance}]
        /\ spec \in [Instances -> Specs \cup {NoSpec}]
        /\ ev \in [Instances -> {"none", "clear", "set"}]
        /\ crashes \in [Instances -> 0 .. MaxCrashes]
    OBVIOUS
  <2>7. where \in [Instances -> Places]
    BY DEF Places
  <2>8. /\ reloaded \in BOOLEAN /\ edits \in Nat /\ sighup \in BOOLEAN /\ stopEvt \in BOOLEAN
        /\ joining \in Instances \cup {NoInstance} /\ wanted = file.want
    OBVIOUS
  <2> QED
    BY <1>1, <2>3, <2>4, <2>5, <2>6, <2>7, <2>8 DEF TypeOK
<1>3. FailedIsLeftAlone
  BY DEF FailedIsLeftAlone, Live
<1>4. OnePerMachine
  BY DEF OnePerMachine, IsRunning
<1>5. PlanCovers
  BY DEF PlanCovers, Settled, IsRunning, Working, Listed
<1>6. FlagFirst /\ Held
  BY DEF FlagFirst, Held, Live
<1> QED
  BY <1>2, <1>3, <1>4, <1>5, <1>6 DEF PromptInv, IInv

(* The invariant of the supervision.                                       *)
LEMMA Supervised == Spec => []IInv
<1>1. Init => IInv
  BY InitHolds DEF PromptInv
<1>2. IInv /\ [Next]_vars => IInv'
  BY TypeStep, CrashStep, OwnStep, PlanStep, FlagStep DEF IInv
<1> QED
  BY <1>1, <1>2, PTL DEF Spec

(* The same when adapters stop in time.                                    *)
LEMMA SupervisedPrompt == ASSUME ~SlowStop PROVE Spec => []PromptInv
<1>1. PromptInv /\ [Next]_vars => PromptInv'
  BY TypeStep, CrashStep, OwnStep, PlanStep, FlagStep, HeldStep DEF PromptInv, IInv
<1> QED
  BY <1>1, InitHolds, PTL DEF Spec

(* Every variable keeps its type; no crash count passes max_crashes.       *)
THEOREM DaemonTypeCorrect == Spec => []TypeOK
<1>1. IInv => TypeOK
  BY DEF IInv
<1> QED
  BY <1>1, Supervised, PTL

(* When the gateway is at rest, what runs is the registry it accepted,     *)
(* except for machines whose probe failed.                                 *)
THEOREM RegistryIsApplied == Spec => []Applied
<1>1. IInv => Applied
  BY DEF IInv, PlanCovers, Applied
<1> QED
  BY <1>1, Supervised, PTL

(* SIGHUPs and edits that fall anywhere into a reload are not lost.        *)
THEOREM ReloadNotLost == Spec => []NotLost
<1>1. IInv => NotLost
  BY DEF IInv, FlagFirst, NotLost
<1> QED
  BY <1>1, Supervised, PTL

(* A machine marked failed has crashed max_crashes times; no other has.    *)
THEOREM FailedStaysStopped == Spec => []FailedIsLeftAlone
<1>1. IInv => FailedIsLeftAlone
  BY DEF IInv
<1> QED
  BY <1>1, Supervised, PTL

(* A reload stops the adapters of changed and removed entries only.        *)
THEOREM UntouchedKeepStreaming == Spec => StoppedForCause
<1> DEFINE Cause(i) ==
      ev[i] # "set" /\ ev'[i] = "set" =>
        stopEvt' \/ main = "stopping" \/ spec[i] # wanted[of[i]]
<1>1. ASSUME IInv, [Next]_vars, NEW i \in Instances
      PROVE  Cause(i)
  <2> USE DaemonAssumption DEF Instances, NoInstance, IInv, TypeOK
  <2>1. ASSUME NEW m \in Machines, StopMachine(m) PROVE Cause(i)
    <3>1. main # "stopping" => IsRunning(m) /\ spec[running[m]] # wanted[m]
      BY <1>1, <2>1 DEF StopMachine, MayStop, PlanCovers, Working, OnePerMachine,
         IsRunning
    <3>2. IsRunning(m) => of[running[m]] = m
      BY <1>1 DEF OnePerMachine
    <3> QED
      BY <1>1, <2>1, <3>1, <3>2 DEF StopMachine, IsRunning
  <2>2. ASSUME NEW m \in Machines, Launch(m) PROVE Cause(i)
    BY <1>1, <2>2 DEF Launch
  <2>3. ASSUME NEW j \in Instances, DestinationGone(j) PROVE Cause(i)
    BY <2>3 DEF DestinationGone
  <2>4. ASSUME NEW j \in Instances, Enter(j) PROVE Cause(i)
    BY <1>1, <2>4 DEF Enter
  <2>5. CASE UNCHANGED ev
    BY <2>5
  <2>6. \/ UNCHANGED ev
        \/ \E m \in Machines : StopMachine(m) \/ Launch(m)
        \/ \E j \in Instances : Enter(j) \/ DestinationGone(j)
    BY <1>1
  DEF Next, MainStep, ThreadStep, Edit, Reload, Interrupt, Killed, Wake, Load,
       Join, Finished, AllDone, Shutdown, ProbeFails, Supervise, Returns, Crashes,
       DrainBegins, DrainEnds, MainLocks, MainDrained,
       vars, operVars, mainVars, threadVars
  <2> QED
    BY <2>1, <2>2, <2>3, <2>4, <2>5, <2>6
<1>2. IInv /\ [Next]_vars => [\A i \in Instances : Cause(i)]_vars
  BY <1>1
<1> QED
  BY <1>2, Supervised, PTL DEF Spec, StoppedForCause

(* When adapters stop in time, a thread that outlives its stop is one that *)
(* has crashed.                                                            *)
THEOREM EscapeNeedsCrash == ASSUME ~SlowStop PROVE Spec => []EscapedHaveCrashed
<1>1. PromptInv => EscapedHaveCrashed
  BY DaemonAssumption DEF PromptInv, IInv, TypeOK, Held, EscapedHaveCrashed,
     PlanCovers,
     Instances, NoInstance
<1> QED
  BY <1>1, SupervisedPrompt, PTL
=============================================================================
