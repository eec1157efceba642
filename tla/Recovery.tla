-------------------------------- MODULE Recovery --------------------------------
(***************************************************************************)
(* tools/recovery_admissibility.py: what three policies decide about a     *)
(* vehicle that should recover while A, the autopilot's GNSS position, may *)
(* be spoofed, and the message of the second source B may be missing, old, *)
(* replayed, relabelled on the way, or derived from A.  P0 is the Gate on  *)
(* vehicle_check; P1 adds rules on what the snapshot declares of B; P2     *)
(* adds rules on B's authenticated message.                                *)
(***************************************************************************)
EXTENDS VehicleCheck

Actions   == {"goto", "rtl", "land_hold", "land_nohold"}
Cases     == {"0", "1", "2", "3", "4", "5", "6", "7", "3f", "4f", "5f"}
NoMessage == [says |-> "nothing"]

(* B's message: what position it gives (the true one, the one the vehicle  *)
(* had 30 s ago, which is where the spoofer claims it is, or A's own),     *)
(* when it was observed, the sequence number and nonce it answers, the     *)
(* root B's device believes in, and whether its MAC covers its body.       *)
Message(says, observed, root) ==
  [says |-> says, observed |-> observed, seq |-> IF observed = "now" THEN 131 ELSE 100,
   nonce |-> IF observed = "now" THEN "this" ELSE "old", root |-> root, mac |-> TRUE]

SpoofedA(c) == c \notin {"0", "6", "7"}

Honest(c) ==
  CASE c \in {"1", "6"}             -> NoMessage
    [] c \in {"0", "2"}             -> Message("truth", "now", "independent")
    [] c \in {"3", "3f", "7", "5", "5f"} -> Message("past", "before", "independent")
    [] c \in {"4", "4f"}            -> Message("A", "now", "gnss-derived")

(* What arrives: in 3f and 5f the observation time was rewritten under the *)
(* old MAC; in 4f only the snapshot's label was.                           *)
Arrived(c) == IF c \in {"3f", "5f"} THEN [Honest(c) EXCEPT !.observed = "now", !.mac = FALSE] ELSE Honest(c)
DeclaredRoot(c) == IF c = "4f" THEN "independent" ELSE Honest(c).root

(* The gap the cross-check sees, between A and B's position.               *)
Gap(c) ==
  LET says == Honest(c).says IN
  CASE says = "nothing" -> "absent"
    [] says = "A" \/ says = (IF SpoofedA(c) THEN "past" ELSE "truth") -> "within"
    [] OTHER -> "beyond"

BuildCase(c) == [Healthy EXCEPT !.gap = Gap(c)]
Check(action, c) == Verdict(Request(action, "good", "within", TRUE), BuildCase(c))

(* The real Gate, given the verdict: everything else is in order.          *)
Gated(verdict) == IF verdict = "PASS" THEN "ALLOW" ELSE "REFUSE"

(* P0 can only send "land", for which there are no rules.                  *)
P0(action, c) ==
  IF action = "land_nohold" THEN "NOT EXPRESSIBLE"
  ELSE Gated(Check(IF action = "land_hold" THEN "land" ELSE action, c))

(* A descent that holds its position navigates on A, as rtl does.          *)
NavCheck(action, c) == Check(IF action = "land_hold" THEN "rtl" ELSE action, c) = "PASS"

P1(action, c) ==
  Gated(IF \/ action = "land_nohold"
           \/ /\ NavCheck(action, c)
              /\ Arrived(c) # NoMessage => Arrived(c).observed = "now" /\ DeclaredRoot(c) = "independent"
        THEN "PASS" ELSE "FAIL")

(* The link to B was degraded: what the Gate accepted last is older than    *)
(* the message a replay repeats, so only the nonce tells the two apart.    *)
LastAccepted == 90

(* Mutant: the nonce is never looked at.                                   *)
AuthenticUnasked(m, sabotage) == m = NoMessage \/ (m.mac /\ m.seq > LastAccepted)

Authentic(m, sabotage) == m = NoMessage \/ (m.mac /\ (sabotage \/ m.nonce = "this") /\ m.seq > LastAccepted)

P2(action, c, sabotage) ==
  Gated(IF \/ action = "land_nohold"
           \/ NavCheck(action, c) /\ Authentic(Arrived(c), sabotage)
        THEN "PASS" ELSE "FAIL")

Justified(action, c) == IF action = "land_nohold" \/ c = "0" THEN "ALLOW" ELSE "REFUSE"
(* The table of one run, with or without --sabotage.                       *)
Table(sabotage) ==
  [P0 |-> [a \in Actions |-> [c \in Cases |-> P0(a, c)]],
   P1 |-> [a \in Actions |-> [c \in Cases |-> P1(a, c)]],
   P2 |-> [a \in Actions |-> [c \in Cases |-> P2(a, c, sabotage)]]]

(* V15a to V15h, of the decisions: the Gate alone sends a misled vehicle   *)
(* home whenever B agrees with the spoof, whatever B's age, and never      *)
(* refuses a landing.  Labels decide rightly when they are true and fail   *)
(* against every relabelling.  An authenticated B admits a navigating      *)
(* action only where it is justified, unless B's own device took A's word; *)
(* and what needs no position is never refused by either, so that a        *)
(* vehicle without a second source still has a way down.                   *)
Predictions(table) ==
  /\ \A c \in Cases : table.P0["rtl"][c] = "ALLOW" <=> c \in {"0", "3", "4", "5", "3f", "4f", "5f"}
  /\ \A c \in Cases : table.P0["land_hold"][c] = "ALLOW" /\ table.P0["land_nohold"][c] = "NOT EXPRESSIBLE"
  /\ \A a \in Actions : table.P0[a]["1"] = table.P0[a]["6"]
  /\ \A a \in Actions : \A c \in Cases :
       table.P1[a][c] = IF c \in {"3f", "4f", "5f"} THEN "ALLOW" ELSE Justified(a, c)
  /\ \A a \in Actions : \A c \in Cases :
       table.P2[a][c] = IF c \in {"4", "4f"} THEN "ALLOW" ELSE Justified(a, c)

(* The registered table comes out, and with --sabotage it does not: it is  *)
(* the nonce that keeps a replay out, not the MAC and the sequence number. *)
Admissible == Predictions(Table(FALSE)) /\ ~Predictions(Table(TRUE))
===============================================================================
