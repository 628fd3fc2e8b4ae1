----------------------------- MODULE MCEvaluator -----------------------------
(***************************************************************************)
(* A small pool of evidence for Evaluator: good items for each role, and   *)
(* items that fail one check each.                                         *)
(***************************************************************************)
EXTENDS Evaluator

Item(role, id, source) ==
  [role |-> role, id |-> id, source |-> source,
   kind |-> IF role = "benign" THEN "benign" ELSE "hostile",
   before |-> IF role = "benign" THEN "ALLOWED" ELSE "VULNERABLE",
   after |-> IF role = "benign" THEN "PRESERVED" ELSE "BLOCKED",
   provenance |-> "VERIFIED", engine |-> "e1", replay |-> "e1",
   result |-> "r1", replayed |-> "r1"]

MCPool ==
  {Item("original", "o1", "s1"),
   [Item("original", "o1", "s1") EXCEPT !.after = "VULNERABLE"],
   Item("variant", "v1", "s2"),
   [Item("variant", "v1", "s3") EXCEPT !.after = "VULNERABLE"],
   [Item("variant", "v2", "s4") EXCEPT !.after = "VULNERABLE"],
   [Item("variant", "v3", "s1") EXCEPT !.provenance = "CLAIMED"],
   [Item("variant", "v4", "s5") EXCEPT !.engine = "e2", !.replay = "e2"],
   Item("benign", "b1", "s6"),
   [Item("benign", "b2", "s7") EXCEPT !.after = "UNKNOWN"],
   [Item("benign", "b3", "s8") EXCEPT !.kind = "hostile"]}
=============================================================================
