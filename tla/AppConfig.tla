------------------------------- MODULE AppConfig -------------------------------
(***************************************************************************)
(* config/app_config.cc: which configuration files the process accepts and *)
(* what it makes of them.                                                  *)
(*                                                                         *)
(* A file is a record of sections, a section a record of fields. A field   *)
(* that is absent and one that cannot be converted to its type both make   *)
(* the constructor throw: the file then does not have the field. A text is *)
(* "" or anything else. The order of the checks makes no difference, as    *)
(* any failure throws out of the constructor.                              *)
(***************************************************************************)
EXTENDS Integers

ValidatePort(port) == 1 <= port /\ port <= 65535

ValidateNotEmpty(value) == value # ""

PoolSizeOK(n) == 0 < n /\ n <= 1000

Has(file, section, fields) ==
    section \in DOMAIN file /\ fields \subseteq DOMAIN file[section]

ParseServerConfig(file) ==
    /\ Has(file, "server", {"name", "bind_ip", "port", "registry_ip",
                            "listen_threads", "worker_threads"})
    /\ \A x \in {"name", "bind_ip", "registry_ip"} : ValidateNotEmpty(file.server[x])
    /\ ValidatePort(file.server.port)
    /\ file.server.listen_threads >= 0 /\ file.server.worker_threads >= 0

ParseConsulConfig(file) ==
    /\ Has(file, "consul", {"host", "port", "check_interval", "check_timeout"})
    /\ ValidateNotEmpty(file.consul.host)
    /\ ValidatePort(file.consul.port)
    /\ file.consul.check_interval > 0 /\ file.consul.check_timeout > 0

AllMethods == {"register", "send_code", "login_pw", "login_code", "get_user_info"}

(* Mutant: a limit of zero is accepted. *)
ParseRpcLimitsConfig_AllowZero(file) ==
    /\ Has(file, "rpc_limits", AllMethods)
    /\ \A x \in AllMethods : file.rpc_limits[x] >= 0

ParseRpcLimitsConfig(file) ==
    /\ Has(file, "rpc_limits", AllMethods)
    /\ \A x \in AllMethods : file.rpc_limits[x] > 0

ParseRedisConfig(file) ==
    /\ Has(file, "redis", {"host", "port", "pool_size"})
    /\ ValidateNotEmpty(file.redis.host)
    /\ ValidatePort(file.redis.port)
    /\ PoolSizeOK(file.redis.pool_size)

(* An empty password is accepted. *)
ParseDbConfig(file) ==
    /\ Has(file, "postgresql", {"host", "port", "user", "password", "dbname", "pool_size"})
    /\ \A x \in {"host", "user", "dbname"} : ValidateNotEmpty(file.postgresql[x])
    /\ ValidatePort(file.postgresql.port)
    /\ PoolSizeOK(file.postgresql.pool_size)

ParseJwtConfig(file) ==
    /\ Has(file, "jwt", {"secret_key", "issuer", "expiration_seconds"})
    /\ \A x \in {"secret_key", "issuer"} : ValidateNotEmpty(file.jwt[x])
    /\ file.jwt.expiration_seconds > 0

(* The constructor does not throw. *)
Accepts(file) ==
    /\ ParseServerConfig(file) /\ ParseConsulConfig(file) /\ ParseRpcLimitsConfig(file)
    /\ ParseRedisConfig(file) /\ ParseDbConfig(file) /\ ParseJwtConfig(file)

(* hardware_concurrency() may return 0 for "unknown". *)
AutoCpuCores(hw) == IF hw > 0 THEN hw ELSE 2

ThreadCount(n, hw) == IF n = 0 THEN AutoCpuCores(hw) ELSE n

(* What the rest of the program gets from an accepted file. *)
Config(file, hw) ==
    [workers   |-> ThreadCount(file.server.worker_threads, hw),
     redisPool |-> file.redis.pool_size,
     dbPool    |-> file.postgresql.pool_size,
     limit     |-> [m \in AllMethods |-> file.rpc_limits[m]]]
================================================================================
