------------------------------- MODULE Schema -------------------------------
(***************************************************************************)
(* RunMigrations (db/db.go), statement by statement: each commits by       *)
(* itself, and the manager may go down between any two.  It meets a fresh  *)
(* database or one an older build left.                                    *)
(***************************************************************************)
EXTENDS Naturals, Sequences, FiniteSets

CONSTANTS
    SchemaServers,     \* servers (or proxies) an old database has
    ServerNames,       \* their names and what these sanitize to
    Sanitize,          \* SanitizeName
    OldVersions,       \* versions an older build has left, {} for none
    MaxCrashes,        \* bound
    SchemaNone

(* The rows of players and backups that the migrations tell apart. *)
SchemaRows == [row : {1, 2}, uuid : {1, 2}]

Constrained == [strict : BOOLEAN, rows : SUBSET SchemaRows]

ASSUME SchemaAssumption ==
    /\ IsFiniteSet(SchemaServers) /\ SchemaServers = 1 .. Cardinality(SchemaServers)
    /\ MaxCrashes \in Nat /\ OldVersions \subseteq Nat
    /\ Sanitize \in [ServerNames -> ServerNames]
    /\ \A n \in ServerNames : Sanitize[Sanitize[n]] = Sanitize[n]
    /\ SchemaNone \notin ServerNames /\ SchemaNone \notin Constrained

VARIABLES
    stmt,                \* the next statement, 0 while the manager is down
    currentVersion, applied, migrating,   \* RunMigrations' own
    columns,           \* columns there are
    version,           \* the largest of schema_version
    tables,            \* by name: SchemaNone, or whether the constraint or
                       \* column of its recreation is there, and its rows
    name, sanitized,   \* columns of servers
    directory,         \* where a server's files are
    indexed,           \* idx_servers_sanitized_name
    crashes,
    older              \* history: the rows the first boot met

memVars == <<stmt, currentVersion, applied, migrating>>
rowVars == <<name, sanitized, directory, indexed>>
dbVars == <<columns, version, tables>>
schemaVars == <<memVars, dbVars, rowVars, crashes, older>>

Tables == {"players", "players_new", "backups", "backups_new"}

(* recreateMigrations *)
Recreated == [v \in {2, 3} |-> IF v = 2 THEN [old |-> "players", new |-> "players_new"]
                               ELSE [old |-> "backups", new |-> "backups_new"]]

(* The statements of RunMigrations in their order. *)
Statement(op, v, col) == [op |-> op, v |-> v, col |-> col]

RecreateStatements(v) ==
    <<Statement("test", v, "none"), Statement("create", v, "none"), Statement("copy", v, "none"),
      Statement("drop", v, "none"), Statement("rename", v, "none"), Statement("recorded", v, "none")>>

(* A column to add, for version 7 to drop, and its version. *)
AlterStatements ==
    <<Statement("alter", 1, "canvas_x"), Statement("alter", 1, "jar_build"),
      Statement("record", 1, "none"),
      Statement("alter", 4, "java_override"), Statement("record", 4, "none"),
      Statement("alter", 5, "sanitized_name"), Statement("record", 5, "none"),
      Statement("alter", 6, "udp_port"), Statement("record", 6, "none"),
      Statement("alter", 7, "auto_shutdown_minutes"), Statement("record", 7, "none")>>

(* The k-th statement of migrateSanitizedNames' loop. *)
NameStatement(k) ==
    Statement(IF k % 2 = 1 THEN "sanitize" ELSE "move", (k + 1) \div 2, "none")

Program ==
    [i \in 1 .. 26 + 2 * Cardinality(SchemaServers) |->
        CASE i = 1 -> Statement("tables", 0, "none")
          [] i \in 2 .. 12 -> AlterStatements[i - 1]
          [] i \in 13 .. 18 -> RecreateStatements(2)[i - 12]
          [] i \in 19 .. 24 -> RecreateStatements(3)[i - 18]
          [] i = 25 -> Statement("names", 0, "none")
          [] i = 26 + 2 * Cardinality(SchemaServers) -> Statement("index", 0, "none")
          [] OTHER -> NameStatement(i - 25)]

Finished == stmt = Len(Program) + 1

At(op) == stmt \in DOMAIN Program /\ Program[stmt].op = op

V == Program[stmt].v

(* The first statement after stmt that is not of this version's group. *)
NextGroup ==
    CHOOSE i \in stmt + 1 .. Len(Program) :
        /\ Program[i].v # V
        /\ \A k \in stmt + 1 .. i - 1 : Program[k].v = V

Onward == stmt' = stmt + 1

-----------------------------------------------------------------------------

(* CREATE TABLE IF NOT EXISTS, with the columns of the newest build; the    *)
(* version is read last.                                                    *)
CreateTables ==
    /\ At("tables") /\ Onward
    /\ tables' = [t \in Tables |->
            IF tables[t] # SchemaNone \/ t \notin {"players", "backups"} THEN tables[t]
            ELSE [strict |-> t = "backups", rows |-> {}]]
    /\ columns' = IF columns = {} THEN {"canvas_x"} ELSE columns
    /\ currentVersion' = version
    /\ UNCHANGED <<version, applied, migrating, rowVars, crashes, older>>

(* One ALTER TABLE; it fails where the column is as it should be. *)
Alter ==
    /\ At("alter")
    /\ LET col == Program[stmt].col
           fails == (col \in columns) = (V # 7) IN
       IF currentVersion >= V
       THEN stmt' = NextGroup /\ UNCHANGED <<columns, applied>>
       ELSE /\ Onward
            /\ columns' = IF fails THEN columns
                          ELSE IF V = 7 THEN columns \ {col} ELSE columns \cup {col}
            /\ applied' = (applied \/ ~fails)
    /\ UNCHANGED <<currentVersion, migrating, version, tables, rowVars, crashes, older>>

(* setSchemaVersion after the alterations, if one applied. *)
Record ==
    /\ At("record") /\ Onward
    /\ IF applied THEN version' = V /\ currentVersion' = V
       ELSE UNCHANGED <<version, currentVersion>>
    /\ applied' = FALSE
    /\ UNCHANGED <<migrating, columns, tables, rowVars, crashes, older>>

Old == Recreated[V].old
New == Recreated[V].new

(* shouldMigrate. *)
Test ==
    /\ At("test")
    /\ IF currentVersion >= V \/ tables[Old].strict
       THEN stmt' = NextGroup
       ELSE Onward
    /\ version' = IF currentVersion < V /\ tables[Old].strict /\ version < V
                  THEN V ELSE version
    /\ UNCHANGED <<currentVersion, applied, migrating, columns, tables, rowVars, crashes, older>>

(* Mutant: what a recreation that broke off has left is dropped first. *)
CreateNewAfresh ==
    /\ At("create") /\ Onward
    /\ tables' = [tables EXCEPT ![New] = [strict |-> TRUE, rows |-> {}]]
    /\ UNCHANGED <<currentVersion, applied, migrating, columns, version, rowVars, crashes, older>>

CreateNew ==
    /\ At("create")
    /\ IF tables[New] = SchemaNone
       THEN Onward /\ tables' = [tables EXCEPT ![New] = [strict |-> TRUE, rows |-> {}]]
       ELSE stmt' = NextGroup /\ UNCHANGED tables
    /\ UNCHANGED <<currentVersion, applied, migrating, columns, version, rowVars, crashes, older>>

(* Copying fails where two rows of players have one uuid. *)
Copies(rows) == V # 2 \/ \A r, q \in rows : r.uuid = q.uuid => r = q

CopyData ==
    /\ At("copy")
    /\ IF Copies(tables[Old].rows)
       THEN /\ Onward
            /\ tables' = [tables EXCEPT ![New] = [strict |-> TRUE, rows |-> tables[Old].rows]]
       ELSE stmt' = NextGroup /\ tables' = [tables EXCEPT ![New] = SchemaNone]
    /\ UNCHANGED <<currentVersion, applied, migrating, columns, version, rowVars, crashes, older>>

DropOld ==
    /\ At("drop") /\ Onward
    /\ tables' = [tables EXCEPT ![Old] = SchemaNone]
    /\ UNCHANGED <<currentVersion, applied, migrating, columns, version, rowVars, crashes, older>>

RenameNew ==
    /\ At("rename") /\ Onward
    /\ tables' = [tables EXCEPT ![Old] = tables[New], ![New] = SchemaNone]
    /\ UNCHANGED <<currentVersion, applied, migrating, columns, version, rowVars, crashes, older>>

RecordRecreated ==
    /\ At("recorded") /\ Onward
    /\ version' = IF version < V THEN V ELSE version
    /\ UNCHANGED <<currentVersion, applied, migrating, columns, tables, rowVars, crashes, older>>

-----------------------------------------------------------------------------
(* migrateSanitizedNames *)

Unsanitized == {s \in SchemaServers : name[s] # SchemaNone /\ sanitized[s] = SchemaNone}

Names ==
    /\ At("names")
    /\ migrating' = Unsanitized
    /\ stmt' = IF Unsanitized = {} THEN Len(Program) + 1 ELSE stmt + 1
    /\ UNCHANGED <<currentVersion, applied, dbVars, rowVars, crashes, older>>

SanitizeRow ==
    /\ At("sanitize") /\ Onward
    /\ sanitized' = IF V \in migrating THEN [sanitized EXCEPT ![V] = Sanitize[name[V]]]
                    ELSE sanitized
    /\ UNCHANGED <<currentVersion, applied, migrating, dbVars, name, directory, indexed,
                   crashes, older>>

Taken(d) == \E s \in SchemaServers : directory[s] = d

MoveDirectory ==
    /\ At("move") /\ Onward
    /\ directory' =
           IF V \in migrating /\ Taken(name[V]) /\ ~Taken(Sanitize[name[V]])
           THEN [s \in SchemaServers |->
                    IF directory[s] = name[V] THEN Sanitize[name[V]] ELSE directory[s]]
           ELSE directory
    /\ UNCHANGED <<currentVersion, applied, migrating, dbVars, name, sanitized, indexed,
                   crashes, older>>

(* The unique index; creating it fails where two names sanitize alike. *)
Index ==
    /\ At("index") /\ Onward
    /\ indexed' = (indexed \/ \A s, q \in SchemaServers :
                        sanitized[s] = sanitized[q] /\ sanitized[s] # SchemaNone => s = q)
    /\ UNCHANGED <<currentVersion, applied, migrating, dbVars, name, sanitized, directory,
                   crashes, older>>

-----------------------------------------------------------------------------

Boot ==
    /\ stmt = 0 /\ stmt' = 1
    /\ applied' = FALSE /\ migrating' = {}
    /\ UNCHANGED <<currentVersion, dbVars, rowVars, crashes, older>>

SchemaCrash ==
    /\ stmt # 0 /\ crashes < MaxCrashes
    /\ stmt' = 0 /\ crashes' = crashes + 1 /\ currentVersion' = 0
    /\ UNCHANGED <<applied, migrating, dbVars, rowVars, older>>

Rows(dup) == {[row |-> 1, uuid |-> 1], [row |-> 2, uuid |-> IF dup THEN 1 ELSE 2]}

(* What an older build, which knew versions up to 3, left. *)
OldDatabase ==
    /\ version \in OldVersions
    /\ columns = {"canvas_x", "auto_shutdown_minutes"}
                 \cup (IF version >= 1 THEN {"jar_build"} ELSE {})
    /\ \E dup \in BOOLEAN :
           /\ version >= 2 => ~dup
           /\ tables = [t \in Tables |->
                CASE t = "players" -> [strict |-> version >= 2, rows |-> Rows(dup)]
                  [] t = "backups" -> [strict |-> version >= 3, rows |-> Rows(FALSE)]
                  [] OTHER -> SchemaNone]
    /\ name \in {f \in [SchemaServers -> ServerNames] :
                    \A s, q \in SchemaServers : f[s] = f[q] => s = q}
    /\ directory = name

FreshDatabase ==
    /\ version = 0 /\ columns = {} /\ tables = [t \in Tables |-> SchemaNone]
    /\ name = [s \in SchemaServers |-> SchemaNone]
    /\ directory = [s \in SchemaServers |-> SchemaNone]

SchemaInit ==
    /\ OldDatabase \/ FreshDatabase
    /\ sanitized = [s \in SchemaServers |-> SchemaNone] /\ indexed = FALSE
    /\ stmt = 0 /\ currentVersion = 0 /\ applied = FALSE /\ migrating = {}
    /\ crashes = 0
    /\ older = [t \in Tables |-> IF tables[t] = SchemaNone THEN {} ELSE tables[t].rows]

SchemaNext ==
    \/ CreateTables \/ Alter \/ Record
    \/ Test \/ CreateNew \/ CopyData \/ DropOld \/ RenameNew \/ RecordRecreated
    \/ Names \/ SanitizeRow \/ MoveDirectory \/ Index
    \/ Boot \/ SchemaCrash

SchemaSpec == SchemaInit /\ [][SchemaNext]_schemaVars

-----------------------------------------------------------------------------
(* Properties *)

Holds(t, rows) == tables[t] # SchemaNone /\ rows \subseteq tables[t].rows

(* Wherever the manager goes down, and however often, the rows an older     *)
(* build left are in their table or in the one that was to replace it.      *)
RowsKept ==
    \A v \in {2, 3} : LET old == Recreated[v].old IN
        older[old] = {} \/ Holds(old, older[old]) \/ Holds(Recreated[v].new, older[old])

(* A boot that was not cut short leaves every server a sanitized name and   *)
(* its files under that name, unless another's are there.                   *)
DirectoriesFollow ==
    Finished /\ crashes = 0 =>
        \A s \in SchemaServers : name[s] # SchemaNone =>
            /\ sanitized[s] = Sanitize[name[s]]
            /\ \/ directory[s] = sanitized[s]
               \/ \E q \in SchemaServers \ {s} : directory[q] = sanitized[s]

SchemaKeepsData == RowsKept /\ DirectoriesFollow

(* Once migrated, players has one row to a uuid (db.go names the migration  *)
(* add_unique_constraint_to_players_uuid, and PlayerHandler.Join's ON        *)
(* CONFLICT needs it).  Not so on a fresh database.                          *)
PlayersUnique == Finished => tables["players"] # SchemaNone /\ tables["players"].strict

=============================================================================
