----------------------------- MODULE Migrations -----------------------------
(***************************************************************************)
(* The schema of one database under the processes that open it             *)
(* (migrations.apply_migrations, service.build): the service, a command    *)
(* beside it, a release before or after it.  A build knows the revisions   *)
(* up to its head.  It reads which are applied in no transaction, applies  *)
(* each of the others in one of its own, then reads again what is there.   *)
(***************************************************************************)
EXTENDS Naturals, FiniteSets

CONSTANTS Builds,      \* processes that open the database
          Newest,      \* the newest revision there is
          OfTargets    \* those that change the columns of targets

ASSUME MigrationsAssumption ==
    Newest \in Nat \ {0} /\ OfTargets \subseteq 1..Newest

Revisions == 1..Newest

VARIABLES
    head,      \* process -> the newest revision its build knows
    stage,     \* process -> where its start is
    believes,  \* process -> the revisions it takes as applied
    applied,   \* database: schema_migrations
    executed   \* database: how often the statements of each revision were committed

schema == <<head, stage, believes, applied, executed>>

Known(b) == 1..head[b]

MigrationsInit ==
    /\ head \in [Builds -> Revisions]
    /\ stage = [b \in Builds |-> "down"] /\ believes = [b \in Builds |-> {}]
    /\ \E r \in Revisions \cup {0} : applied = 1..r
    /\ executed = [r \in Revisions |-> IF r \in applied THEN 1 ELSE 0]

-----------------------------------------------------------------------------
\* Mutant: what was applied is remembered from before the refusal.
ReadAppliedOnce(b) ==
    /\ stage[b] \in {"down", "refused"}
    /\ stage' = [stage EXCEPT ![b] = "applying"]
    /\ believes' = [believes EXCEPT ![b] = IF stage[b] = "refused" THEN @ ELSE applied]
    /\ UNCHANGED <<head, applied, executed>>

\* Docker starts what has stopped, a refused process too (restart: unless-stopped).
ReadApplied(b) ==
    /\ stage[b] \in {"down", "refused"}
    /\ stage' = [stage EXCEPT ![b] = "applying"] /\ believes' = [believes EXCEPT ![b] = applied]
    /\ UNCHANGED <<head, applied, executed>>

Pending(b) == Known(b) \ believes[b]

Oldest(revisions) == CHOOSE r \in revisions : \A q \in revisions : r <= q

\* Mutant: the row of a revision another process has applied is kept (ON CONFLICT DO NOTHING).
AppliesWith(r) == TRUE

\* The INSERT of a revision that is there by now fails, and the statements with it.
Applies(r) == r \notin applied

\* One transaction: the statements of the oldest pending revision, and its row.
Apply(b) ==
    /\ stage[b] = "applying" /\ Pending(b) # {}
    /\ LET r == Oldest(Pending(b)) IN
        /\ Applies(r)
        /\ applied' = applied \cup {r} /\ executed' = [executed EXCEPT ![r] = @ + 1]
        /\ believes' = [believes EXCEPT ![b] = @ \cup {r}]
    /\ UNCHANGED <<head, stage>>

\* MigrationError: the process does not serve.
RefuseBuild(b) ==
    stage' = [stage EXCEPT ![b] = "refused"] /\ UNCHANGED <<head, believes, applied, executed>>

ApplyFails(b) ==
    /\ stage[b] = "applying" /\ Pending(b) # {} /\ ~Applies(Oldest(Pending(b)))
    /\ RefuseBuild(b)

\* Nothing is pending; "a database a newer HISTOR migrated" is refused.
CheckRevisions(b) ==
    /\ stage[b] = "applying" /\ Pending(b) = {}
    /\ IF applied \subseteq Known(b)
       THEN stage' = [stage EXCEPT ![b] = "checked"] /\ UNCHANGED <<head, believes, applied, executed>>
       ELSE RefuseBuild(b)

\* target_columns, in a read of its own, against the contract of the build.
CheckColumns(b) ==
    /\ stage[b] = "checked"
    /\ IF applied \cap OfTargets = Known(b) \cap OfTargets
       THEN stage' = [stage EXCEPT ![b] = "up"] /\ UNCHANGED <<head, believes, applied, executed>>
       ELSE RefuseBuild(b)

-----------------------------------------------------------------------------
\* Stopped or killed, wherever it was; perhaps another release is installed.
StopBuild(b) ==
    /\ stage[b] \notin {"down", "refused"}
    /\ stage' = [stage EXCEPT ![b] = "down"]
    /\ \E r \in Revisions : head' = [head EXCEPT ![b] = r]
    /\ UNCHANGED <<believes, applied, executed>>

\* A refused one is replaced with a newer release.
Release(b) ==
    /\ stage[b] = "refused"
    /\ \E r \in Revisions : r > head[b] /\ head' = [head EXCEPT ![b] = r]
    /\ UNCHANGED <<stage, believes, applied, executed>>

Starts(b) == ReadApplied(b) \/ Apply(b) \/ ApplyFails(b) \/ CheckRevisions(b) \/ CheckColumns(b)

Migrating == \E b \in Builds : Starts(b) \/ StopBuild(b) \/ Release(b)

\* A start goes on until it is up or refused, what was refused is started again, and the releases end.
MigrationsFairness ==
    /\ \A b \in Builds : WF_schema(Starts(b))
    /\ <>[][~ \E b \in Builds : StopBuild(b)]_schema

MigrationsSpec == MigrationsInit /\ [][Migrating]_schema /\ MigrationsFairness

-----------------------------------------------------------------------------
(***************************************************************************)
(* "Do not serve a half-migrated log" (migrations.py:559): whatever starts *)
(* at once, is killed or replaced, no revision is executed twice, none is  *)
(* skipped, and one that comes up finds what its build was written for.    *)
(***************************************************************************)
SchemaIsWhole ==
    /\ applied = 1..Cardinality(applied)
    /\ \A r \in Revisions : executed[r] = (IF r \in applied THEN 1 ELSE 0)
    /\ \A b \in Builds : stage[b] = "up" => Known(b) \subseteq applied

\* Two processes that migrate at once do not refuse one another forever: the newest build comes up.
NewestComesUp ==
    \A b \in Builds : <>[](\A c \in Builds : head[c] <= head[b] /\ applied \subseteq Known(b)) ~> stage[b] = "up"

(***************************************************************************)
(* "Serving it with older code would read columns this build does not know *)
(* how to keep consistent" (migrations.py:626-627): the check is made at   *)
(* the start, and what came up before a newer process migrated still runs. *)
(***************************************************************************)
OlderBuildIsNotServing == \A b \in Builds : stage[b] = "up" => applied \subseteq Known(b)
=============================================================================
