----------------------------- MODULE MCMigrate -----------------------------
(* Model checking of Migrate with the files of internal/migrate.           *)
EXTENDS Migrate

\* 001_init to 009_knowledge_doc_types_v2.
MCStatements == <<12, 2, 2, 2, 1, 1, 1, 2, 2>>
=============================================================================
