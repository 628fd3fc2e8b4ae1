------------------------------ MODULE Evaluator ------------------------------
(***************************************************************************)
(* The evaluator of blue_forge: a caller holds a HardeningCase, changes it *)
(* with dataclasses.replace, and passes it to evaluate() and, with a       *)
(* result it kept, to regression_record().  Both take the case through     *)
(* the same boundary: the preflights, _case_input_material (a JSON object) *)
(* and HardeningCase.from_dict.  A HardeningResult is the canonical bytes  *)
(* of the case; its payload is recomputed at every access.                 *)
(***************************************************************************)
EXTENDS Integers, Sequences, FiniteSets

CONSTANTS Producers, Capabilities,
          Pool,         \* the Evidence records the caller has
          MaxVariants,  \* MAX_VARIANT_ITEMS
          MaxControls,  \* MAX_ARRAY_ITEMS, for benign_controls
          MaxEdits,     \* bound of the model: replacements the caller makes
          NoResult      \* the caller holds no result (no record) yet

Decisions == {"ALLOW", "REVIEW", "DENY"}
Rank == [d \in Decisions |-> CASE d = "ALLOW" -> 0
                               [] d = "REVIEW" -> 1
                               [] d = "DENY" -> 2]
AtLeast(d, e) == Rank[d] >= Rank[e]

Complete == {"VULNERABLE", "BLOCKED", "HARMLESS", "ALLOWED", "PRESERVED"}
Roles == {"original", "variant", "benign"}

(* before and after are any non-empty strings, provenance too; a digest is *)
(* an opaque value, its equality the equality of what was digested.        *)
EvidenceAssumption ==
  \A e \in Pool :
    /\ DOMAIN e = {"role", "id", "kind", "before", "after", "provenance",
                   "source", "engine", "replay", "result", "replayed"}
    /\ e.role \in Roles /\ e.kind \in {"hostile", "benign"}
ASSUME PoolAssumption == EvidenceAssumption
ASSUME BoundsAssumption == /\ MaxVariants \in Nat /\ MaxControls \in Nat
                           /\ MaxEdits \in Nat

Authority == SUBSET Capabilities
Proposals == [producer : Producers, decision : Decisions, pre : Authority,
              requested : Authority, policy : Authority]

VARIABLES
  proposal,                                       \* case.proposal
  producer, decision, observed, equivalent,       \* case.verification
  original, variants, controls,
  result,       \* a HardeningResult: the case bytes bound into it
  record,       \* the last regression record: its case and its result's
  edits

caseVars == <<proposal, producer, decision, observed, equivalent, original,
              variants, controls>>
vars == <<caseVars, result, record, edits>>

-----------------------------------------------------------------------------
(* The JSON object of a tuple of evidence, {item.evidence_id: body ...}:   *)
(* one member for each id, the last item with an id wins.                  *)
Members(items) ==
  {items[i] : i \in {j \in DOMAIN items :
                       \A k \in DOMAIN items :
                          k > j => items[k].id # items[j].id}}

(* _case_input_material, canonicalized: members are sorted, so the order   *)
(* of the tuples is lost.                                                  *)
Material ==
  [proposal |-> proposal, producer |-> producer, decision |-> decision,
   observed |-> observed, equivalent |-> equivalent, original |-> original,
   variants |-> Members(variants), controls |-> Members(controls)]

(* What may be bound into a result.                                        *)
Materials ==
  [proposal : Proposals, producer : Producers, decision : Decisions,
   observed : Authority, equivalent : BOOLEAN, original : Pool,
   variants : SUBSET Pool, controls : SUBSET Pool]

Everything == <<original>> \o variants \o controls
Evidence(m) == {m.original} \cup m.variants \cup m.controls

DuplicatesAllowed == TRUE                      \* mutant: no id check
(* No two items of the case have the same id (the prefix of an id is its   *)
(* role, so ids of different roles differ).                                *)
DistinctIds == \A i, j \in DOMAIN Everything :
                  Everything[i].id = Everything[j].id => i = j

(* bounded_case_input_material and _case_input_material on a direct case:  *)
(* sizes, id syntax for each role, distinct ids.                           *)
Preflight ==
  /\ Len(variants) \in 1 .. MaxVariants /\ Len(controls) \in 1 .. MaxControls
  /\ original.role = "original"
  /\ \A i \in DOMAIN variants : variants[i].role = "variant"
  /\ \A i \in DOMAIN controls : controls[i].role = "benign"
  /\ DistinctIds

(* HardeningCase.from_dict: the kinds, and the cross-field rules.          *)
KindsMatch(m) == /\ \A e \in {m.original} \cup m.variants : e.kind = "hostile"
                 /\ \A e \in m.controls : e.kind = "benign"
UniqueWithinRoles(m) ==                        \* mutant: not across roles
  \A e, f \in Evidence(m) : e.role = f.role /\ e.source = f.source => e = f
(* len(set(digests)) = len(digests), said pairwise.                        *)
UniqueSources(m) == \A e, f \in Evidence(m) : e.source = f.source => e = f
IndependentVerifier(m) == m.producer # m.proposal.producer
DecisionMonotonic(m) == AtLeast(m.decision, m.proposal.decision)
FromDict(m) == /\ KindsMatch(m) /\ UniqueSources(m)
               /\ IndependentVerifier(m) /\ DecisionMonotonic(m)

(* validate_case_schema_vocabulary, which the CLI runs before from_dict:   *)
(* the same three rules, written against the JSON object.                  *)
VocabularyAccepts(m) ==
  /\ m.proposal.producer # m.producer
  /\ Rank[m.decision] \in Rank[m.proposal.decision] .. Rank["DENY"]
  /\ Cardinality({e.source : e \in Evidence(m)})
       = 1 + Cardinality(m.variants) + Cardinality(m.controls)

(* _validated_case: the boundary of evaluate() and regression_record().    *)
Accepted == Preflight /\ FromDict(Material)

-----------------------------------------------------------------------------
(* _payload_for_validated_case                                             *)
Neutralized(e) ==
  e.before = "VULNERABLE" /\ e.after \in {"BLOCKED", "HARMLESS"}
AttackClassSomewhere(m) ==                     \* mutant: any() for all()
  \E e \in m.variants : Neutralized(e)
AttackClassHolds(m) == m.variants # {} /\ \A e \in m.variants : Neutralized(e)
BenignControlsPass(m) ==
  /\ m.controls # {}
  /\ \A e \in m.controls : e.before = "ALLOWED" /\ e.after = "PRESERVED"
ProvenanceValid(m) == \A e \in Evidence(m) : e.provenance = "VERIFIED"
VerificationComplete(m) ==
  /\ m.variants # {} /\ m.controls # {}
  /\ \A e \in Evidence(m) : e.before \in Complete /\ e.after \in Complete
ReplayExact(m) ==
  /\ \A e, f \in Evidence(m) : e.engine = f.engine
  /\ \A e \in Evidence(m) : e.engine = e.replay /\ e.result = e.replayed
AuthorityNotExpanded(m) ==
  /\ m.observed \subseteq m.proposal.requested \cap m.proposal.policy
  /\ m.observed \subseteq m.proposal.pre

Predicates(m) ==
  [original_attack_neutralized |-> Neutralized(m.original),
   attack_class_invariant_holds |-> AttackClassHolds(m),
   benign_controls_pass |-> BenignControlsPass(m),
   provenance_valid |-> ProvenanceValid(m),
   verification_complete |-> VerificationComplete(m),
   replay_exact |-> ReplayExact(m),
   authority_not_expanded |-> AuthorityNotExpanded(m),
   reference_equivalence_preserved |-> m.equivalent]

Failed(m) == {n \in DOMAIN Predicates(m) : ~Predicates(m)[n]}
Hardened(m) == Failed(m) = {}

ResultDecisionLowered(m) ==                    \* mutant: overwrites DENY
  IF ~AuthorityNotExpanded(m) THEN "DENY"
  ELSE IF Failed(m) # {} THEN "REVIEW"
  ELSE m.decision
ResultDecision(m) ==
  IF ~AuthorityNotExpanded(m) THEN "DENY"
  ELSE IF Failed(m) # {} /\ m.decision = "ALLOW" THEN "REVIEW"
  ELSE m.decision

PayloadUnbound(m) ==                           \* mutant: no case digest
  [decision |-> ResultDecision(m), failed |-> Failed(m),
   hardened |-> Hardened(m)]
(* The case digest stands for the case it was computed from.               *)
Payload(m) == [case |-> m, decision |-> ResultDecision(m),
               failed |-> Failed(m), hardened |-> Hardened(m)]

-----------------------------------------------------------------------------
(* A case as from_dict returns it, and nothing evaluated yet.              *)
Init ==
  /\ proposal \in [producer : Producers, decision : {"ALLOW"},
                   pre : {Capabilities}, requested : {Capabilities},
                   policy : {Capabilities}]
  /\ producer \in Producers /\ decision = "ALLOW" /\ observed = {}
  /\ equivalent = TRUE
  /\ original \in Pool
  /\ variants \in {<<e>> : e \in Pool} /\ controls \in {<<e>> : e \in Pool}
  /\ Accepted
  /\ result = NoResult /\ record = NoResult /\ edits = 0

Edit == edits < MaxEdits /\ edits' = edits + 1 /\ UNCHANGED <<result, record>>

(* dataclasses.replace on the proposal, on the verification's own fields   *)
(* and on its evidence, unchecked.                                         *)
ReplaceProposal ==
  /\ Edit
  /\ \/ \E p \in Producers : proposal' = [proposal EXCEPT !.producer = p]
     \/ \E d \in Decisions : proposal' = [proposal EXCEPT !.decision = d]
     \/ \E a \in Authority : proposal' = [proposal EXCEPT !.pre = a]
     \/ \E a \in Authority : proposal' = [proposal EXCEPT !.requested = a]
     \/ \E a \in Authority : proposal' = [proposal EXCEPT !.policy = a]
  /\ UNCHANGED <<producer, decision, observed, equivalent, original, variants,
                 controls>>

ReplaceVerification ==
  /\ Edit
  /\ \/ decision' \in Decisions /\ UNCHANGED <<producer, observed, equivalent>>
     \/ producer' \in Producers /\ UNCHANGED <<decision, observed, equivalent>>
     \/ observed' \in Authority /\ UNCHANGED <<producer, decision, equivalent>>
     \/ equivalent' = ~equivalent /\ UNCHANGED <<producer, decision, observed>>
  /\ UNCHANGED <<proposal, original, variants, controls>>

AddEvidence ==
  /\ Edit
  /\ \E e \in Pool :
        \/ variants' = Append(variants, e) /\ UNCHANGED controls
        \/ controls' = Append(controls, e) /\ UNCHANGED variants
  /\ UNCHANGED <<proposal, producer, decision, observed, equivalent, original>>

ReplaceEvidence ==
  /\ Edit
  /\ \/ original' \in Pool /\ UNCHANGED <<variants, controls>>
     \/ /\ variants # <<>> /\ variants' = Tail(variants)
        /\ UNCHANGED <<original, controls>>
     \/ /\ controls # <<>> /\ controls' = Tail(controls)
        /\ UNCHANGED <<original, variants>>
  /\ UNCHANGED <<proposal, producer, decision, observed, equivalent>>

(* evaluate(case): a case the boundary rejects raises, result is kept.     *)
Evaluate ==
  /\ Accepted
  /\ result' = Material
  /\ UNCHANGED <<caseVars, record, edits>>

(* regression_record(case, result): the result's recomputed payload must   *)
(* equal that of the supplied case.                                        *)
RegressionRecord ==
  /\ Accepted /\ result # NoResult
  /\ Payload(result) = Payload(Material)
  /\ record' = [case |-> Material, result |-> result]
  /\ UNCHANGED <<caseVars, result, edits>>

(* What the boundary rejects raises ValidationError and changes nothing.   *)
Rejected == /\ \/ ~Accepted
               \/ result # NoResult /\ Payload(result) # Payload(Material)
            /\ UNCHANGED vars

Next == \/ ReplaceProposal \/ ReplaceVerification \/ AddEvidence
        \/ ReplaceEvidence \/ Evaluate \/ RegressionRecord \/ Rejected

Spec == Init /\ [][Next]_vars

-----------------------------------------------------------------------------
(* The variables have their types.                                         *)
TypeOK ==
  /\ proposal \in Proposals
  /\ producer \in Producers /\ decision \in Decisions
  /\ observed \in Authority /\ equivalent \in BOOLEAN
  /\ original \in Pool /\ variants \in Seq(Pool) /\ controls \in Seq(Pool)
  /\ result \in Materials \cup {NoResult}
  /\ record \in [case : Materials, result : Materials] \cup {NoResult}
  /\ edits \in 0 .. MaxEdits

(* Decisions only get stricter on their way from the proposal over the     *)
(* verification to the result, a case that is not hardened is never        *)
(* allowed, and an expansion of authority is denied: whatever the caller   *)
(* replaced in the case, and whatever predicate fails besides.             *)
DecisionNeverWeakens ==
  result # NoResult =>
    LET d == ResultDecision(result)
    IN /\ AtLeast(d, result.decision) /\ AtLeast(d, result.proposal.decision)
       /\ d = "ALLOW" => Hardened(result)
       /\ ~AuthorityNotExpanded(result) => d = "DENY"

(* No evidence is lost in the JSON object the case is serialized to: all   *)
(* items of an accepted case are judged and get into its digest.           *)
NoEvidenceLost ==
  Accepted => /\ Cardinality(Material.variants) = Len(variants)
              /\ Cardinality(Material.controls) = Len(controls)

(* The cross-field keywords of the schema vocabulary and from_dict accept  *)
(* the same cases: sources counted over the raw maps, ranks of decisions,  *)
(* and the rules of the parsed records, distinctness pairwise.             *)
SchemaAgrees == Preflight /\ KindsMatch(Material)
                  => (VocabularyAccepts(Material) <=> FromDict(Material))

(* A regression record is bound to one case: the one supplied and the one  *)
(* the result was evaluated from are the same, though the caller may have  *)
(* replaced anything in between.                                           *)
RecordBound == record # NoResult => record.case = record.result

(* Hardening is monotone: an accepted case that is not hardened does not   *)
(* become hardened by more evidence.                                       *)
EvidenceNeverHardens ==
  [][AddEvidence /\ Accepted /\ Accepted' /\ Hardened(Material)'
       => Hardened(Material)]_vars
=============================================================================
