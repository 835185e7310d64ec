----------------------------- MODULE RedisExit -----------------------------
(***************************************************************************)
(* The three procedures by which the application leaves Redis: the lists   *)
(* of work (LegacyRetirement), the single keys (KeyRetirement), the event  *)
(* markers (EventLedger).  They touch disjoint parts of Redis and of       *)
(* PostgreSQL and each has its own report, so a behaviour of one at a time *)
(* shows all that any of them can do.                                      *)
(***************************************************************************)
EXTENDS LegacyRetirement, KeyRetirement, EventLedger

VARIABLE procedure    \* the one a behaviour follows

exitVars == <<procedure, vars, keyVars, ledgerVars>>

ExitInit ==
    /\ procedure \in {"lists", "keys", "events"}
    /\ Init /\ KeyInit /\ LedgerInit

RetireLists ==
    procedure = "lists" /\ Next /\ UNCHANGED <<procedure, keyVars, ledgerVars>>

RetireKeys ==
    procedure = "keys" /\ KeyNext /\ UNCHANGED <<procedure, vars, ledgerVars>>

HandOverEvents ==
    procedure = "events" /\ LedgerNext /\ UNCHANGED <<procedure, vars, keyVars>>

ExitNext == RetireLists \/ RetireKeys \/ HandOverEvents

ExitSpec == ExitInit /\ [][ExitNext]_exitVars
=============================================================================
