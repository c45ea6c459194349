------------------------------ MODULE MCMonitoring ------------------------------
(* What tells an operator how the system does: the alarm registry as the health  *)
(* monitor, the time synchronisation and a detector lane use it, the logs, and   *)
(* the database file every start opens.  A behaviour is one of these.            *)
EXTENDS HealthMonitor, TimeSync, LaneAlarms, Logging, DatabaseFile

VARIABLE active

MCProvided == [m \in Metrics |-> "process"]
MCSources == <<"process">>

MCAlarms ==
    HealthAlarms \union TimeAlarms \union LaneAlarmCodes
    \union {LowSpace, MaintenanceFailed} \union {SourceChanged(e) : e \in Entities}

InertDatabase == file = NoFile /\ ~legacy

MCInit ==
    /\ active \in {"health", "time", "lane", "logs", "database"}
    /\ RegistryInit /\ HealthInit /\ TimeInit /\ LaneInit /\ LoggingInit /\ DatabaseInit
    /\ active = "database" \/ InertDatabase

\* Every thread makes the calls it has planned, one at a time.
Calling(threads) ==
    (\E t \in threads : Call(t)) /\ UNCHANGED <<healthVars, timeVars, laneVars>>

MCNext ==
    /\ \/ /\ active \in {"health", "time", "lane"}
          /\ \/ active = "health" /\ HealthNext /\ UNCHANGED <<timeVars, laneVars>>
             \/ active = "time" /\ TimeNext /\ UNCHANGED <<healthVars, laneVars>>
             \/ active = "lane" /\ LaneNext /\ UNCHANGED <<healthVars, timeVars>>
             \/ Calling(Threads)
          /\ UNCHANGED <<loggingVars, databaseVars>>
       \/ active = "logs" /\ LoggingNext
          /\ UNCHANGED <<registryVars, healthVars, timeVars, laneVars, databaseVars>>
       \/ active = "database" /\ DatabaseNext
          /\ UNCHANGED <<registryVars, healthVars, timeVars, laneVars, loggingVars>>
    /\ UNCHANGED active

MCVars ==
    <<active, registryVars, healthVars, timeVars, laneVars, loggingVars, databaseVars>>

MCSpec == MCInit /\ [][MCNext]_MCVars
=================================================================================
