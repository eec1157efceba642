-------------------------------- MODULE Ledger --------------------------------
(* Ledger (evidence.py): the in-memory, append-only hash chain behind every *)
(* LedgerSink, and the contract of the ledgers that keep it in a file.      *)
(*                                                                          *)
(* A record's digest covers its content and the digest before it, so it is  *)
(* identified with what it commits to: the sequence of the record ids up to *)
(* and including its own.                                                   *)
EXTENDS Sequences

CONSTANT RecordId

VARIABLE log   \* the ids of the records, in order

Ids(s) == {s[i] : i \in DOMAIN s}

Init == log = <<>>

AppendRecord(id) ==
  /\ id \notin Ids(log)
  /\ log' = Append(log, id)

Next == \E id \in RecordId : AppendRecord(id)

Spec == Init /\ [][Next]_log
===============================================================================
