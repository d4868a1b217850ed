----------------------------- MODULE MCCrudAPI ------------------------------
(* CrudAPI on a table that starts with one of two rows.                    *)
EXTENDS CrudAPI

CONSTANTS k1, v1

OneRow == [k \in Keys |-> IF k = k1 THEN v1 ELSE NULL]
=============================================================================
