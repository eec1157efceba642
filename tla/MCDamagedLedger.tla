---------------------------- MODULE MCDamagedLedger ----------------------------
(* Two processes whose ledger loses its end under them; and the ledgers of *)
(* StoredLedger, written by two workers and damaged twice.                 *)
EXTENDS MCAnchoredLedger, StoredLedger

(* A disk or an operator loses the end of the file while nobody appends:   *)
(* an older copy is restored (docs/FI_PREREG.md S3, S4).              *)
LoseLastLine ==
  /\ file # <<>> /\ lock = Free
  /\ file' = SubSeq(file, 1, Len(file) - 1)
  /\ UNCHANGED <<anchor, lock, mem, seen, up, pc, arg, accepted>>

(* Either that, or a ledger of StoredLedger.                               *)
Fresh == file = <<>> /\ anchor = <<>> /\ \A p \in Process : up[p] = "down"
LossyNext ==
  \/ ledger = "plain" /\ (\A w \in Worker : at[w] = "started") /\ (Next \/ LoseLastLine) /\ UNCHANGED storedVars
  \/ Fresh /\ StoredNext /\ UNCHANGED vars
LossySpec == Init /\ StoredInit /\ [][LossyNext]_<<vars, storedVars>>
================================================================================
