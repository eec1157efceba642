------------------------------ MODULE Obs1Compare ------------------------------
(***************************************************************************)
(* The OBS-1 comparator (tools/obs1_compare.py): what it concludes of a    *)
(* case from the log and the record as the observer reads them, what was   *)
(* in force for each token, and what the attempts reported.                *)
(***************************************************************************)
EXTENDS Obs1

(* The harness compares a case of which every attempt it began reported.   *)
Begun    == {k \in Attempt : at[k] # "waiting"}
Compared == over = "compared"
Last     == CHOOSE k \in Begun : \A j \in Begun : j <= k

FencesOf(t, i) == {f \in 1..(i - 1) : log[f].kind = "fence" /\ log[f].target = t}

(* invariant_violations() and final_state_violations(): the log against    *)
(* itself, and against the record.                                         *)
InvariantViolations ==
  {i \in DOMAIN log :
     \/ log[i].kind = "write" /\ (\/ log[i].version # Cardinality({w \in Writes(log) : w <= i})
                                  \/ FencesOf(log[i].by, i) # {})
     \/ log[i].kind = "rejected" /\ log[i].note = "fenced" /\ FencesOf(log[i].by, i) = {}}
StoreDefect == InvariantViolations # {} \/ version # Cardinality(Writes(log))

Attributed == {i \in Writes(log) : log[i].by \in Begun /\ \A w \in WritesOf(log, log[i].by) : i <= w}

(* A write after an UNKNOWN: (a) every earlier token was fenced with       *)
(* permission, (b) the writer read after the last of the fences, (c) no    *)
(* earlier token has written, (d) it had permission.                       *)
Reconciled(w) ==
  LET a == log[w].by
      fences == UNION {FencesOf(t, w) : t \in 1..(a - 1)}
  IN  /\ \A t \in 1..(a - 1) : \E f \in FencesOf(t, w) : log[f].by \in Begun /\ fence[log[f].by]
      /\ fences # {}
      /\ \E r \in 1..(w - 1) : log[r].kind = "read" /\ log[r].by = a /\ log[r].note = "ok" /\ \A f \in fences : f < r
      /\ \A t \in 1..(a - 1) : \A x \in WritesOf(log, t) : x > w
      /\ write[a]

Retries(u) == {w \in Attributed : log[w].by > u}

Classes ==
  LET on(c, class) == IF c THEN {class} ELSE {}
      unknown == {u \in Begun : status[u] = "UNKNOWN"}
      retries == UNION {Retries(u) : u \in unknown}
  IN  on(Writes(log) # Attributed, "UNATTRIBUTED_WRITE")
      \cup on(\E w \in Attributed : ~write[log[w].by], "UNAUTHORIZED_EXECUTION")
      \cup on(\E f \in DOMAIN log : log[f].kind = "fence" /\ (log[f].by \notin Begun \/ ~fence[log[f].by]), "UNAUTHORIZED_CONTROL")
      \cup on(Cardinality(Attributed) >= 2, "DUPLICATE")
      \cup on(Cardinality(Writes(log)) = 1 /\ \E w \in Attributed : write[log[w].by], "AUTHORIZED_COMPLETION")
      \cup on(Writes(log) = {} /\ Begun # {} /\ status[Last] \in {"FAILED", "REFUSED"}, "CONFIRMED_FAILURE")
      \cup on(\E w \in retries : Reconciled(w), "UNKNOWN_RECONCILED_RETRY")
      \cup on(\E w \in retries : ~Reconciled(w), "UNKNOWN_UNRESOLVED_RETRY")
      \cup on(\E u \in unknown : Retries(u) = {}, "UNKNOWN_HELD")
      \cup on(heldWrite = "released at end", "LATE_WRITE_UNFENCED")

(* A report carries what was reconciled only if it says so.                *)
Claimed(k) == status[k] \in {"COMPLETED", "UNKNOWN", "ALREADY_COMPLETED"} /\ claim[k] # NoClaim

Mismatched(k) ==
  LET own   == {w \in Attributed : log[w].by = k}
      limit == IF own = {} THEN Len(log) + 1 ELSE CHOOSE w \in own : TRUE
      c     == claim[k]
  IN  \/ status[k] = "COMPLETED" /\ own = {}
      \/ status[k] \in {"FAILED", "REFUSED", "ALREADY_COMPLETED", "HELD"} /\ own # {}
      \/ status[k] = "ALREADY_COMPLETED" /\ ~\E w \in Attributed : log[w].by < k
      \/ /\ Claimed(k)
         /\ \/ \E t \in c.fenced : FencesOf(t, limit) = {}
            \/ ~(log[c.seq].kind = "read" /\ log[c.seq].by = k /\ log[c.seq].note = "ok")
            \/ c.writes # Cardinality({w \in Writes(log) : log[w].by \in c.fenced /\ w < c.seq})
---------------------------------------------------------------------------
(* The five registered cases: the fault, whether the write is permitted,   *)
(* what each attempt can see; and what is expected of them.                *)
Cases == {"AT-1", "AT-2", "AT-3", "AT-4", "AT-4-DW"}
Given(c) ==
  [fault |-> CASE c = "AT-3" -> "fail_before_effect" [] c = "AT-4" -> "lose_ack_after_effect"
               [] c = "AT-4-DW" -> "hold_write_until_fence" [] OTHER -> "none",
   write |-> c # "AT-2",
   sees  |-> CASE c = "AT-4" -> <<TRUE, FALSE>> [] c = "AT-4-DW" -> <<TRUE, TRUE>> [] OTHER -> <<TRUE>>]
Expected(c) ==
  CASE c = "AT-1" -> [reports |-> <<"COMPLETED">>, classes |-> {"AUTHORIZED_COMPLETION"}]
    [] c = "AT-2" -> [reports |-> <<"REFUSED">>, classes |-> {"CONFIRMED_FAILURE"}]
    [] c = "AT-3" -> [reports |-> <<"FAILED">>, classes |-> {"CONFIRMED_FAILURE"}]
    [] c = "AT-4" -> [reports |-> <<"UNKNOWN", "HELD">>, classes |-> {"AUTHORIZED_COMPLETION", "UNKNOWN_HELD"}]
    [] c = "AT-4-DW" -> [reports |-> <<"UNKNOWN", "COMPLETED">>, classes |-> {"AUTHORIZED_COMPLETION", "UNKNOWN_RECONCILED_RETRY"}]

Conducted(c) ==
  /\ Compared /\ fault = Given(c).fault /\ Begun = DOMAIN Given(c).sees
  /\ \A k \in Begun : write[k] = Given(c).write /\ fence[k] /\ readable[k] = Given(c).sees[k]

(* What the harness looks up in the store's log of each of them.           *)
By(kind, k) == {i \in DOMAIN log : log[i].kind = kind /\ log[i].by = k}
EvidenceMet(c) ==
  CASE c = "AT-1" -> Cardinality(By("write", 1)) = 1
    [] c = "AT-2" -> By("write", 1) \cup By("rejected", 1) = {}
    [] c = "AT-3" -> Writes(log) = {} /\ \E i \in By("rejected", 1) : log[i].note = "fault" /\ By("rejected", 1) = {i}
    [] c = "AT-4" -> /\ Cardinality(By("write", 1)) = 1 /\ By("write", 2) = {} /\ claim[2] = NoClaim
                     /\ \A r \in By("read", 2) : log[r].note = "unavailable"
    [] c = "AT-4-DW" ->
         /\ heldWrite = "released at fence" /\ By("write", 1) = {}
         /\ \E f \in By("fence", 2) : \E r \in By("read", 2) : \E w \in By("write", 2) :
              /\ log[f].target = 1 /\ f + 1 \in By("rejected", 1) /\ f + 1 < r /\ r < w /\ By("write", 2) = {w}
              /\ claim[2] = [fenced |-> {1}, seq |-> r, writes |-> 0]
---------------------------------------------------------------------------
(* What the comparator says of this system over this store: the store has  *)
(* no defect, no report contradicts the log (the status mismatches), no    *)
(* write or fence lacks its permission, no effect is doubled, and every    *)
(* case with an attempt falls in some class.  With one write permission    *)
(* for the whole case, as OBS1_INTERFACE.md has it, no retry after an      *)
(* UNKNOWN is unresolved either.  The five registered cases end as         *)
(* expected and leave the evidence asked for, whatever the lease does.     *)
ComparatorFindsNothing ==
  Compared =>
    /\ ~StoreDefect
    /\ \A k \in Begun : ~Mismatched(k)
    /\ Classes \cap {"UNATTRIBUTED_WRITE", "UNAUTHORIZED_EXECUTION", "UNAUTHORIZED_CONTROL", "DUPLICATE"} = {}
    /\ Begun # {} => Classes # {}
    /\ (\A k \in Begun : write[k] = write[1]) => "UNKNOWN_UNRESOLVED_RETRY" \notin Classes
    /\ \A c \in Cases : Conducted(c) =>
         [k \in Begun |-> status[k]] = Expected(c).reports /\ Classes = Expected(c).classes /\ EvidenceMet(c)
=============================================================================
