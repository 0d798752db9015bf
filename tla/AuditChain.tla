------------------------------ MODULE AuditChain ------------------------------
(***************************************************************************)
(* The audit chain of a tenant: access_control/audit.py.  A table is the   *)
(* sequence of its records in the order of (timestamp, id), the order in   *)
(* which both functions take them, whatever the order of the commits.      *)
(*                                                                         *)
(* A record's hash is its identity: it covers the whole content, ids and   *)
(* correlation ids included.  The recomputation of the hash from the       *)
(* stored columns is left out: it always succeeds for a row that nobody    *)
(* altered by hand.                                                        *)
(***************************************************************************)
EXTENDS Integers, FiniteSets

CONSTANT Genesis   \* previous_record_hash of a first record: null

(* The records of a table that a query returns, at the positions I: the    *)
(* record right before position i among them.                              *)
Before(I, i) == {j \in I : j < i}

Newest(I) == CHOOSE i \in I : \A j \in I : j =< i

(* append_audit: the hash a new record refers to, if it is appended after  *)
(* the records at the positions I.                                         *)
HashOfNewest(table, I) == IF I = {} THEN Genesis ELSE table[Newest(I)].hash

VerifyAuditChain(table, I) ==
  \A i \in I : table[i].previous = HashOfNewest(table, Before(I, i))

(* The route of the history passes the records of one request.             *)
RecordsOf(table, request) == {i \in DOMAIN table : table[i].request = request}

HistoryVerifies(table, request) == VerifyAuditChain(table, RecordsOf(table, request))
=============================================================================
