------------------------------ MODULE Migrations ------------------------------
(***************************************************************************)
(* PostgresClient.run_migrations (storage/postgres_client.py), called by   *)
(* the bot's startup and by scripts/migrate.py, each in a process of its   *)
(* own.  A script and its row in schema_migrations are two statements,     *)
(* each a transaction of its own.                                          *)
(***************************************************************************)
EXTENDS Integers, Sequences, FiniteSets, FiniteSetsExt

CONSTANT Versions      \* of the migration files

ASSUME VersionsAssumption == Versions \in SUBSET Nat /\ Versions # {} /\ IsFiniteSet(Versions)

VARIABLES
  scripts,   \* the scripts applied to the database, in order
  recorded,  \* versions in schema_migrations
  runner,    \* process -> where its run_migrations() is
  torn       \* version -> how often a run ended between a script and its row (history)

schema == <<scripts, recorded, runner, torn>>

Runners == {"bot", "migrate"}
Off == [at |-> "off", pending |-> {}]

MigrationsInit ==
  /\ scripts = <<>> /\ recorded = {}
  /\ runner = [r \in Runners |-> Off]
  /\ torn = [v \in Versions |-> 0]

\* The file a run is at: sorted() by name, and names begin with the version.
Current(r) == Min(runner[r].pending)

StartRunner(r) == runner' = [runner EXCEPT ![r] = [at |-> "reading", pending |-> {}]]

\* SELECT version FROM schema_migrations: once, before the loop over the files.
ReadVersions(r) ==
  /\ runner[r].at = "reading"
  /\ LET pending == Versions \ recorded
     IN  runner' = [runner EXCEPT ![r] =
                      [at |-> IF pending = {} THEN "done" ELSE "script", pending |-> pending]]
  /\ UNCHANGED <<scripts, recorded, torn>>

RunScript(r) ==
  /\ runner[r].at = "script"
  /\ scripts' = Append(scripts, Current(r))
  /\ runner' = [runner EXCEPT ![r].at = "row"]
  /\ UNCHANGED <<recorded, torn>>

\* The run ends with an exception or with its process.
RunEnds(r, how) ==
  /\ torn' = IF runner[r].at = "row" THEN [torn EXCEPT ![Current(r)] = @ + 1] ELSE torn
  /\ runner' = [runner EXCEPT ![r] = [at |-> how, pending |-> {}]]

\* Mutant of RecordVersion: ON CONFLICT DO NOTHING.
RecordVersionOrIgnore(r) ==
  /\ runner[r].at = "row"
  /\ LET left == runner[r].pending \ {Current(r)}
     IN  /\ recorded' = recorded \cup {Current(r)}
         /\ runner' = [runner EXCEPT ![r] =
                         [at |-> IF left = {} THEN "done" ELSE "script", pending |-> left]]
  /\ UNCHANGED <<scripts, torn>>

\* INSERT INTO schema_migrations: a row that is there already violates the key.
RecordVersion(r) ==
  /\ runner[r].at = "row"
  /\ IF Current(r) \in recorded
     THEN RunEnds(r, "raised") /\ UNCHANGED recorded
     ELSE LET left == runner[r].pending \ {Current(r)}
          IN  /\ recorded' = recorded \cup {Current(r)}
              /\ runner' = [runner EXCEPT ![r] =
                              [at |-> IF left = {} THEN "done" ELSE "script", pending |-> left]]
              /\ UNCHANGED torn
  /\ UNCHANGED scripts

\* The database cannot be reached or refuses a statement.
StatementFails(r) ==
  /\ runner[r].at \in {"reading", "script", "row"}
  /\ RunEnds(r, "raised")
  /\ UNCHANGED <<scripts, recorded>>

MigrationStep(r) == ReadVersions(r) \/ RunScript(r) \/ RecordVersion(r) \/ StatementFails(r)

-----------------------------------------------------------------------------
Runs(v) == Cardinality({i \in DOMAIN scripts : scripts[i] = v})

MigrationsTypeOK ==
  /\ scripts \in Seq(Versions) /\ recorded \subseteq Versions
  /\ runner \in [Runners -> [at : {"off", "reading", "script", "row", "done", "raised"},
                             pending : SUBSET Versions]]
  /\ \A r \in Runners : runner[r].at \in {"script", "row"} <=> runner[r].pending # {}

\* storage/postgres_client.py:72: "Skips already-applied versions. Records each applied
\* version".  A script is applied once, and once more for each run that ended between
\* it and its row, be it by a crash, by an error or by the row another process wrote.
RunsAccounted ==
  \A v \in Versions :
    Runs(v) = torn[v] + (IF v \in recorded THEN 1 ELSE 0)
              + Cardinality({r \in Runners : runner[r].at = "row" /\ Current(r) = v})
=============================================================================
