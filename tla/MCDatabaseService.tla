-------------------------- MODULE MCDatabaseService --------------------------
(***************************************************************************)
(* Small instances of DatabaseService for TLC.  Connection 1 has           *)
(* max_open_conns: 1, as configs/local-sqlite.example.yml has, and allows  *)
(* everything; connection 2 has no limit, is read-only and may fail.       *)
(***************************************************************************)
EXTENDS DatabaseService, TLC

CONSTANTS k1, k2, k3

Ask(op, c, arg) == [op |-> op, conn |-> c, arg |-> arg]

\* Two callers on two connections, one of them failing: reads and changes,
\* each with a refusal that keeps it in its class.
Mixed ==
    {Ask("list", 0, "none"), Ask("metadata", 2, "none"), Ask("query", 1, "writing"),
     Ask("query", 1, "exec"), Ask("exec", 1, "exec"), Ask("exec", 2, "exec")}

\* db_query on the connection that allows neither writes nor DDL.
Reads == {Ask("query", 2, "query"), Ask("query", 2, "writing"), Ask("exec", 2, "exec")}

\* What can wait: for the mutex, for the pool, for the database.
Waiting == {Ask("list", 0, "none"), Ask("metadata", 1, "none"), Ask("ddl", 1, "ddl")}

Only1 == {1}
Only2 == {2}
NoConn == {}
TwoLimits == <<1, 0>>
OneLimit == <<1>>
Symmetry == Permutations(Calls)
=============================================================================
