--------------------------- MODULE MCLogRecovery ---------------------------
(* The service alone, one lane, with the operator beside it.                *)
(* And Migrations, the first step of every start: the schema and the log    *)
(* share no table, so a behaviour is of one of the two.                     *)
EXTENDS LogRecovery, Migrations

CONSTANTS serve, crawl

ServeOnly == [t \in {crawl} |-> serve]

SameWidth(n) == 0

VARIABLE about  \* "log" or "schema"

LogStep == about = "log" /\ RecoveryNext /\ UNCHANGED <<schema, about>>
SchemaStep == about = "schema" /\ Migrating /\ UNCHANGED <<vars, recovery, about>>

\* While a behaviour is about the log, the database is new and so are the builds.
MCInit ==
    /\ RecoveryInit /\ MigrationsInit
    /\ \/ about = "log" /\ applied = {} /\ \A b \in Builds : head[b] = Newest
       \/ about = "schema"
MCSpec ==
    /\ MCInit /\ [][LogStep \/ SchemaStep]_<<vars, recovery, schema, about>>
    /\ about = "schema" => MigrationsFairness

\* Two processes that migrate at once do not refuse one another forever (Migrations.NewestComesUp).
StartsAgain == about = "schema" => NewestComesUp
=============================================================================
