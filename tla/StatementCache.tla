---------------------------- MODULE StatementCache ----------------------------
(***************************************************************************)
(* first_by of sqlx_pg_bug_leading_by_cached_prepared_statement, called on *)
(* the connections of a pool.  sqlx keeps a prepared statement per         *)
(* connection and text of the query; postgres fixed the type of its        *)
(* parameter when it was prepared.  The text names the field, not the type *)
(* of the value.                                                           *)
(***************************************************************************)
EXTENDS Naturals

CONSTANTS
  PgConns,    \* the connections
  Fields,     \* the columns of the table
  Types,      \* the types a value may have
  Unprepared, \* no type
  Fits        \* Fits[f]: the types that postgres compares with the column f

ASSUME CacheAssumption ==
  /\ Fits \in [Fields -> SUBSET Types]
  /\ Unprepared \notin Types

VARIABLES
  table,      \* the table has been created
  prepared,   \* prepared[c][q]: the parameter's type in the statement that c has for q
  called,     \* what has been asked for: pairs of field and type
  failed      \* what made unwrap panic

cacheVars == <<table, prepared, called, failed>>

CacheTypeOK ==
  /\ table \in BOOLEAN
  /\ prepared \in [PgConns -> [Fields -> Types \cup {Unprepared}]]
  /\ called \in SUBSET (Fields \X Types)
  /\ failed \in SUBSET called

CacheInit ==
  /\ table = FALSE
  /\ prepared = [c \in PgConns |-> [q \in Fields |-> Unprepared]]
  /\ called = {}
  /\ failed = {}

CreateTable ==
  /\ table' = TRUE
  /\ UNCHANGED <<prepared, called, failed>>

TextOfAny(f) == CHOOSE q \in Fields : TRUE   \* mutant: the field is bound, too

\* The query's text, by the field it names: format!(.. \"{}\" = $1).
Text(f) == f

\* Preparing fails when no operator compares the column with the type; binding
\* fails when the statement was prepared for another type.
Works(c, f, t) ==
  \/ prepared[c][Text(f)] = t
  \/ prepared[c][Text(f)] = Unprepared /\ t \in Fits[f]

FirstBy(c, f, t) ==
  /\ table
  /\ called' = called \cup {<<f, t>>}
  /\ IF Works(c, f, t)
       THEN prepared' = [prepared EXCEPT ![c][Text(f)] = t] /\ UNCHANGED failed
       ELSE failed' = failed \cup {<<f, t>>} /\ UNCHANGED prepared
  /\ UNCHANGED table

CacheNext ==
  \/ CreateTable
  \/ \E c \in PgConns, f \in Fields, t \in Types : FirstBy(c, f, t)

CacheSpec == CacheInit /\ [][CacheNext]_cacheVars
-------------------------------------------------------------------------------
(* The discipline that the crate's last comment asks for is enough: a call   *)
(* with a type that fits its column fails only if the program uses another   *)
(* fitting type for the same column somewhere, on whichever connection.      *)
OneTypeNeverFails ==
  \A f \in Fields : \A t \in Fits[f] :
    <<f, t>> \in failed => \E u \in Fits[f] \ {t} : <<f, u>> \in called
===============================================================================
