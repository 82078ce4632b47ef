------------------------------ MODULE ApiProcess ------------------------------
(***************************************************************************)
(* The API process (api/main.py, api/auth.py) and what it finds around it: *)
(* start-up by lifespan, a stop at any time with a restart after it, the   *)
(* roles its routes ask for, PostgreSQL and Redis.                         *)
(***************************************************************************)

CONSTANTS
    Requests,  \* HTTP requests
    KeyOf      \* the list of settings each request's X-API-KEY is in, if any

Roles == {"Admin", "Analyst"}

ASSUME KeyAssumption ==
    KeyOf \in [Requests -> {"ADMIN_API_KEYS", "ANALYST_API_KEYS", "none"}]

VARIABLES
    server,   \* "schema", "connect": in lifespan; "serving" after its yield
    client,   \* whether init_redis has left a redis_client
    redisUp,  \* whether Redis answers
    dbUp,     \* whether PostgreSQL answers
    tables    \* whether the tables exist, in a volume of the database

process == <<server, client, redisUp, dbUp, tables>>

ProcessTypeOK ==
    /\ server \in {"schema", "connect", "serving"}
    /\ client \in BOOLEAN
    /\ redisUp \in BOOLEAN
    /\ dbUp \in BOOLEAN
    /\ tables \in BOOLEAN

ProcessInit ==
    /\ server = "schema"
    /\ client = FALSE
    /\ redisUp \in BOOLEAN
    /\ dbUp \in BOOLEAN
    /\ tables \in BOOLEAN

------------------------------------------------------------------------------
(* lifespan                                                                 *)

\* Mutant of InitDb: the exception is not caught, and the process dies.
InitDbUncaught ==
    /\ server = "schema"
    /\ tables' = (tables \/ dbUp)
    /\ server' = IF dbUp THEN "connect" ELSE "schema"
    /\ UNCHANGED <<client, redisUp, dbUp>>

\* create_all; without a database a critical log line, and start-up goes on.
InitDb ==
    /\ server = "schema"
    /\ tables' = (tables \/ dbUp)
    /\ server' = "connect"
    /\ UNCHANGED <<client, redisUp, dbUp>>

\* init_redis pings: without an answer redis_client is None until a restart.
InitRedis ==
    /\ server = "connect"
    /\ client' = redisUp
    /\ server' = "serving"
    /\ UNCHANGED <<redisUp, dbUp, tables>>

\* A crash, in a start-up too, or a shutdown and close_redis; "restart: always"
\* starts it anew.  A crash before init_db has done anything changes nothing.
ServerStops ==
    /\ server \in {"connect", "serving"}
    /\ server' = "schema"
    /\ client' = FALSE
    /\ UNCHANGED <<redisUp, dbUp, tables>>

StartStep == InitDb \/ InitRedis

------------------------------------------------------------------------------
(* PostgreSQL and Redis                                                     *)

DbStops ==
    /\ dbUp /\ dbUp' = FALSE
    /\ UNCHANGED <<server, client, redisUp, tables>>

DbStarts ==
    /\ ~dbUp /\ dbUp' = TRUE
    /\ UNCHANGED <<server, client, redisUp, tables>>

RedisDown ==
    /\ redisUp /\ redisUp' = FALSE
    /\ UNCHANGED <<server, client, dbUp, tables>>

RedisUp ==
    /\ ~redisUp /\ redisUp' = TRUE
    /\ UNCHANGED <<server, client, dbUp, tables>>

------------------------------------------------------------------------------
(* Dependencies, resolved before a route and its decorators run             *)

\* verify_api_key: the admin list is looked at first; no role is a 401.
RoleOf(r) ==
    CASE KeyOf[r] = "ADMIN_API_KEYS"   -> {"Admin"}
      [] KeyOf[r] = "ANALYST_API_KEYS" -> {"Analyst"}
      [] OTHER -> {}

\* RoleChecker: a role that is not in its set is a 403.
Allowed(r, roles) == RoleOf(r) \cap roles # {}

require_analyst == {"Analyst", "Admin"}
==============================================================================
