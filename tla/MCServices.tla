----------------------------- MODULE MCServices -----------------------------
(* The rate limit, the tenants, the address pool, the request logger and   *)
(* the config watcher for TLC: parts that share no state, so a behaviour is*)
(* of one of them and the others stay as they began.                       *)
EXTENDS TokenBucket, TenantManager, IpPool, RequestLogger, ConfigWatcher

CONSTANT a

VARIABLE subject

allVars == <<vars, tenantVars, poolVars, loggerVars, watcherVars, subject>>

OneListener == [l \in {a} |-> 1]

MCIps     == <<"a", "b", "c">>
MCWeight  == [a |-> 2, b |-> 1, c |-> 1]
MCAllowed == [any |-> {"a", "b", "c"}, some |-> {"b", "c"}]

ServicesInit ==
  /\ Init /\ TenantInit /\ PoolInit /\ LoggerInit /\ WatcherInit
  /\ subject \in {"limiter", "tenants", "pool", "logger", "watcher"}
  /\ subject # "limiter" => backend = "memory"
  /\ subject # "tenants" => tenants = Empty /\ budget = {}
  /\ subject # "pool"    => strategy = "round-robin"
  /\ subject # "logger"  => ~asyncWrite
  /\ subject # "watcher" => ~parser /\ file = CHOOSE f \in File : f.valid /\ f.safe = f.fixed

ServicesNext ==
  /\ UNCHANGED subject
  /\ \/ /\ subject = "limiter" /\ Next
        /\ UNCHANGED <<tenantVars, poolVars, loggerVars, watcherVars>>
     \/ /\ subject = "tenants" /\ TenantNext
        /\ UNCHANGED <<vars, poolVars, loggerVars, watcherVars>>
     \/ /\ subject = "pool"    /\ PoolNext
        /\ UNCHANGED <<vars, tenantVars, loggerVars, watcherVars>>
     \/ /\ subject = "logger"  /\ LoggerNext
        /\ UNCHANGED <<vars, tenantVars, poolVars, watcherVars>>
     \/ /\ subject = "watcher" /\ WatcherNext
        /\ UNCHANGED <<vars, tenantVars, poolVars, loggerVars>>

(* In a part that stays as it began no step is owed.                       *)
ServicesSpec ==
  ServicesInit /\ [][ServicesNext]_allVars /\ LoggerFairness /\ WatcherFairness
=============================================================================
