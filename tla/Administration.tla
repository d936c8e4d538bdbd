--------------------------- MODULE Administration ---------------------------
(***************************************************************************)
(* The administrative side of the gateway: the API keys, the password, the *)
(* login, the runtime configuration with the shared client, and the        *)
(* queries of the log.  No step of one part reads or writes the variables  *)
(* of another (the queries let the table of keys change at will), so every *)
(* behaviour of all of them together is, on the variables of one part, a   *)
(* behaviour of that part alone.  A behaviour here exercises one part,     *)
(* which `part' names from the start.                                      *)
(***************************************************************************)
EXTENDS ApiKeys, AdminPassword, LoginLockout, HttpClient,
        LogQueries

VARIABLE part

adminVars == <<keysVars, passwordVars, clockVars, lockoutVars, configVars,
               clientVars, queryVars, part>>

AdminInit ==
    /\ KeysInit
    /\ PasswordInit
    /\ ClockInit
    /\ LockoutInit
    /\ ConfigInit
    /\ ClientInit
    /\ QueriesInit
    /\ part \in {"keys", "password", "login", "config", "queries"}
    /\ part # "password" => file = Nothing /\ local = Nothing
    /\ part # "queries" => nameOf = [k \in KeyId |-> NoName]

KeysStep ==
    /\ part = "keys"
    /\ KeysNext
    /\ UNCHANGED <<passwordVars, clockVars, lockoutVars, configVars, clientVars,
                   queryVars>>

PasswordStep ==
    /\ part = "password"
    /\ PasswordNext
    /\ UNCHANGED <<keysVars, clockVars, lockoutVars, configVars, clientVars,
                   queryVars>>

LoginStep ==
    /\ part = "login"
    /\ LockoutNext
    /\ UNCHANGED <<keysVars, passwordVars, configVars, clientVars,
                   queryVars>>

ConfigStep ==
    /\ part = "config"
    /\ ClientNext
    /\ UNCHANGED <<keysVars, passwordVars, clockVars, lockoutVars, queryVars>>

QueriesStep ==
    /\ part = "queries"
    /\ QueriesNext
    /\ UNCHANGED <<keysVars, passwordVars, clockVars, lockoutVars, configVars,
                   clientVars>>

AdminNext ==
    /\ KeysStep \/ PasswordStep \/ LoginStep \/ ConfigStep \/ QueriesStep
    /\ UNCHANGED part

AdminSpec == AdminInit /\ [][AdminNext]_adminVars

AdminTypeOK ==
    /\ KeysTypeOK
    /\ PasswordTypeOK
    /\ LockoutTypeOK
    /\ ConfigTypeOK
    /\ ClientTypeOK
    /\ QueriesTypeOK

=============================================================================
