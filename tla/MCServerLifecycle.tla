--------------------------- MODULE MCServerLifecycle ---------------------------
(* Instances of ServerLifecycle for TLC. *)
EXTENDS ServerLifecycle, TLC

CONSTANTS d1, d2, d3, w1, w2, t1, t2

(* config.yaml with small numbers. *)
Plain ==
    [server     |-> [name |-> "text", bind_ip |-> "text", port |-> 50051,
                     registry_ip |-> "text", listen_threads |-> 2, worker_threads |-> 2],
     consul     |-> [host |-> "text", port |-> 8500, check_interval |-> 10, check_timeout |-> 2],
     rpc_limits |-> [m \in AllMethods |-> 1],
     redis      |-> [host |-> "text", port |-> 6379, pool_size |-> 2],
     postgresql |-> [host |-> "text", port |-> 5432, user |-> "text", password |-> "text",
                     dbname |-> "text", pool_size |-> 2],
     jwt        |-> [secret_key |-> "text", issuer |-> "text", expiration_seconds |-> 1]]

(* Values at the limits of what a field may be. *)
Border(field) ==
    CASE field = "port"      -> {0, 1, 65535, 65536}
      [] field = "pool_size" -> {-1, 0, 1, 1000, 1001}
      [] field = "login_code" -> -1..0
      [] field \in {"listen_threads", "worker_threads", "check_interval", "check_timeout",
                    "expiration_seconds"} \cup AllMethods -> -1..2
      [] OTHER -> {""}

Without(f, x) == [y \in DOMAIN f \ {x} |-> f[y]]

(* Every file that differs from Plain in at most one place: a section or a  *)
(* field is missing, or a field has another value.                          *)
MCFiles ==
    {Plain} \cup {Without(Plain, s) : s \in DOMAIN Plain}
    \cup UNION {{[Plain EXCEPT ![s] = Without(@, x)] : x \in DOMAIN Plain[s]} : s \in DOMAIN Plain}
    \cup UNION {UNION {{[Plain EXCEPT ![s] = [@ EXCEPT ![x] = v]] : v \in Border(x)} :
                       x \in DOMAIN Plain[s]} : s \in DOMAIN Plain}

MCMethods  == {"login_code", "get_user_info"}
MCMethodOf == (d1 :> "login_code") @@ (d2 :> "get_user_info") @@ (d3 :> "get_user_info")
MCPlain    == {Plain}
================================================================================
