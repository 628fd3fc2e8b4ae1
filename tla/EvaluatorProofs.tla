--------------------------- MODULE EvaluatorProofs ---------------------------
(***************************************************************************)
(* Machine-checked proofs about Evaluator, for every pool of evidence and  *)
(* every bound: the types, the chain of decisions from the proposal to the *)
(* result, the completeness of the serialized case, the binding of records,*)
(* the monotonicity of hardening and the agreement of the schema with the  *)
(* code.                                                                   *)
(***************************************************************************)
EXTENDS Evaluator, TLAPS, FiniteSetTheorems, SequenceTheorems

(* The members of a serialized tuple are items of the tuple.               *)
LEMMA MembersFromPool ==
  ASSUME NEW items \in Seq(Pool)
  PROVE  Members(items) \subseteq Pool
  BY DEF Members

(* If the ids are distinct, nothing is overwritten.                        *)
LEMMA MembersAreAll ==
  ASSUME NEW items \in Seq(Pool),
         \A i, j \in DOMAIN items : items[i].id = items[j].id => i = j
  PROVE  Members(items) = {items[i] : i \in DOMAIN items}
  <1>1. \A j \in DOMAIN items :
          \A k \in DOMAIN items : k > j => items[k].id # items[j].id
    <2> SUFFICES ASSUME NEW j \in DOMAIN items, NEW k \in DOMAIN items, k > j,
                        items[k].id = items[j].id
                 PROVE  FALSE
      OBVIOUS
    <2>1. DOMAIN items = 1 .. Len(items) /\ Len(items) \in Nat
      OBVIOUS
    <2> QED
      BY <2>1
  <1> QED
    BY <1>1 DEF Members

(* Then the members are finitely many, as many as the items.               *)
LEMMA MembersCount ==
  ASSUME NEW items \in Seq(Pool),
         \A i, j \in DOMAIN items : items[i].id = items[j].id => i = j
  PROVE  /\ IsFiniteSet(Members(items))
         /\ Cardinality(Members(items)) = Len(items)
  <1> DEFINE n == Len(items)
             f == [i \in 1 .. n |-> items[i]]
  <1>1. n \in Nat /\ DOMAIN items = 1 .. n
    OBVIOUS
  <1>2. Members(items) = {items[i] : i \in 1 .. n}
    BY <1>1, MembersAreAll
  <1>3. \A i, j \in 1 .. n : f[i] = f[j] => i = j
    BY <1>1
  <1>4. f \in Bijection(1 .. n, Members(items))
    <2>1. f \in [1 .. n -> Members(items)]
      BY <1>2
    <2>2. \A x \in Members(items) : \E i \in 1 .. n : f[i] = x
      BY <1>2
    <2> QED
      BY <1>3, <2>1, <2>2 DEF Bijection, Injection, Surjection, IsInjective
  <1>5. IsFiniteSet(1 .. n) /\ Cardinality(1 .. n) = n
    BY <1>1, FS_Interval
  <1> QED
    BY <1>4, <1>5, FS_Bijection DEF ExistsBijection

(* Distinct ids of the whole case are distinct within each tuple.          *)
TupleIdsDistinct ==
  /\ \A i, j \in DOMAIN variants : variants[i].id = variants[j].id => i = j
  /\ \A i, j \in DOMAIN controls : controls[i].id = controls[j].id => i = j

(* Distinct ids in a whole case are distinct within each of its tuples.    *)
LEMMA DistinctWithin == TypeOK /\ DistinctIds => TupleIdsDistinct
  <1> SUFFICES ASSUME TypeOK, DistinctIds PROVE TupleIdsDistinct
    OBVIOUS
  <1> DEFINE nv == Len(variants)
             nc == Len(controls)
  <1>1. /\ nv \in Nat /\ DOMAIN variants = 1 .. nv
        /\ nc \in Nat /\ DOMAIN controls = 1 .. nc
        /\ variants \in Seq(Pool) /\ controls \in Seq(Pool)
        /\ <<original>> \in Seq(Pool) /\ Len(<<original>>) = 1
    BY DEF TypeOK
  <1>2. Everything \in Seq(Pool) /\ Len(Everything) = 1 + nv + nc
    BY <1>1 DEF Everything
  <1>3. DOMAIN Everything = 1 .. 1 + nv + nc
    BY <1>1, <1>2
  <1>4. \A i \in 1 .. nv : Everything[i + 1] = variants[i]
    BY <1>1 DEF Everything
  <1>5. \A i \in 1 .. nc : Everything[i + 1 + nv] = controls[i]
    BY <1>1 DEF Everything
  <1>6. ASSUME NEW i \in 1 .. nv, NEW j \in 1 .. nv,
               variants[i].id = variants[j].id
        PROVE  i = j
    <2>1. i + 1 \in DOMAIN Everything /\ j + 1 \in DOMAIN Everything
      BY <1>1, <1>3, <1>6
    <2> QED
      BY <1>1, <1>4, <1>6, <2>1 DEF DistinctIds
  <1>7. ASSUME NEW i \in 1 .. nc, NEW j \in 1 .. nc,
               controls[i].id = controls[j].id
        PROVE  i = j
    <2>1. /\ i + 1 + nv \in DOMAIN Everything
          /\ j + 1 + nv \in DOMAIN Everything
      BY <1>1, <1>3, <1>7
    <2> QED
      BY <1>1, <1>5, <1>7, <2>1 DEF DistinctIds
  <1> QED
    BY <1>1, <1>6, <1>7 DEF TupleIdsDistinct

(* What a case serializes to is a material.                                *)
LEMMA MaterialType == TypeOK => Material \in Materials
  BY MembersFromPool DEF TypeOK, Material, Materials

-----------------------------------------------------------------------------
(* A bound result satisfies the rule on decisions of from_dict.            *)
Bound == result # NoResult => DecisionMonotonic(result)
EvalInv == TypeOK /\ Bound /\ RecordBound

(* The initial states satisfy the inductive invariant.                     *)
LEMMA EvalInit == Init => EvalInv
  <1> SUFFICES ASSUME Init PROVE EvalInv
    OBVIOUS
  <1>1. proposal \in Proposals
    BY DEF Init, Proposals, Authority, Decisions
  <1>2. variants \in Seq(Pool) /\ controls \in Seq(Pool)
    <2>1. PICK e \in Pool, f \in Pool : variants = <<e>> /\ controls = <<f>>
      BY DEF Init
    <2>2. <<e>> \in Seq(Pool) /\ <<f>> \in Seq(Pool)
      OBVIOUS
    <2> QED
      BY <2>1, <2>2
  <1>3. 0 \in 0 .. MaxEdits
    BY BoundsAssumption
  <1>4. /\ producer \in Producers /\ decision \in Decisions
        /\ observed \in Authority /\ equivalent \in BOOLEAN /\ original \in Pool
    BY DEF Init, Decisions, Authority
  <1>5. result = NoResult /\ record = NoResult /\ edits = 0
    BY DEF Init
  <1> QED
    BY <1>1, <1>2, <1>3, <1>4, <1>5 DEF EvalInv, TypeOK, Bound, RecordBound

(* Every call and every edit of the caller keeps it.                       *)
LEMMA EvalStep == EvalInv /\ [Next]_vars => EvalInv'
  <1> SUFFICES ASSUME EvalInv, [Next]_vars PROVE EvalInv'
    OBVIOUS
  <1> USE DEF EvalInv
  <1>e. ASSUME Edit PROVE edits' \in 0 .. MaxEdits /\ Bound' /\ RecordBound'
    BY <1>e, BoundsAssumption DEF Edit, TypeOK, Bound, RecordBound,
                                  DecisionMonotonic
  <1>1. CASE ReplaceProposal
    <2>1. proposal' \in Proposals
      BY <1>1 DEF ReplaceProposal, TypeOK, Proposals
    <2> QED
      BY <1>1, <1>e, <2>1 DEF ReplaceProposal, Edit, TypeOK
  <1>2. CASE ReplaceVerification
    BY <1>2, <1>e DEF ReplaceVerification, Edit, TypeOK
  <1>3. CASE AddEvidence
    <2>1. variants' \in Seq(Pool) /\ controls' \in Seq(Pool)
      <3>1. \A q \in Seq(Pool), e \in Pool : Append(q, e) \in Seq(Pool)
        OBVIOUS
      <3>2. PICK e \in Pool : /\ variants' \in {variants, Append(variants, e)}
                             /\ controls' \in {controls, Append(controls, e)}
        BY <1>3 DEF AddEvidence
      <3>3. variants \in Seq(Pool) /\ controls \in Seq(Pool)
        BY DEF TypeOK
      <3> QED
        BY <3>1, <3>2, <3>3
    <2>2. UNCHANGED <<proposal, producer, decision, observed, equivalent,
                      original, result, record>>
      BY <1>3 DEF AddEvidence, Edit
    <2> QED
      BY <1>e, <1>3, <2>1, <2>2 DEF AddEvidence, TypeOK
  <1>4. CASE ReplaceEvidence
    <2>1. original' \in Pool
      BY <1>4 DEF ReplaceEvidence, TypeOK
    <2>2. variants' \in Seq(Pool) /\ controls' \in Seq(Pool)
      <3>1. \A q \in Seq(Pool) : q # <<>> => Tail(q) \in Seq(Pool)
        OBVIOUS
      <3>2. \/ variants' = variants
            \/ variants # <<>> /\ variants' = Tail(variants)
        BY <1>4 DEF ReplaceEvidence
      <3>3. \/ controls' = controls
            \/ controls # <<>> /\ controls' = Tail(controls)
        BY <1>4 DEF ReplaceEvidence
      <3>4. variants \in Seq(Pool) /\ controls \in Seq(Pool)
        BY DEF TypeOK
      <3> QED
        BY <3>1, <3>2, <3>3, <3>4
    <2>3. UNCHANGED <<proposal, producer, decision, observed, equivalent,
                      result, record>>
      BY <1>4 DEF ReplaceEvidence, Edit
    <2> QED
      BY <1>e, <1>4, <2>1, <2>2, <2>3 DEF ReplaceEvidence, TypeOK
  <1>5. CASE Evaluate
    <2>1. result' \in Materials
      BY <1>5, MaterialType DEF Evaluate
    <2>2. TypeOK'
      BY <1>5, <2>1 DEF Evaluate, TypeOK, caseVars
    <2>3. Bound'
      BY <1>5 DEF Evaluate, Accepted, FromDict, Bound, DecisionMonotonic
    <2> QED
      BY <1>5, <2>2, <2>3 DEF Evaluate, RecordBound
  <1>6. CASE RegressionRecord
    <2>1. result \in Materials /\ Material \in Materials
      BY <1>6, MaterialType DEF RegressionRecord, TypeOK
    <2>2. result = Material
      BY <1>6 DEF RegressionRecord, Payload
    <2>3. TypeOK'
      BY <1>6, <2>1 DEF RegressionRecord, TypeOK, caseVars
    <2> QED
      BY <1>6, <2>2, <2>3 DEF RegressionRecord, Bound, RecordBound, caseVars
  <1>7. CASE Rejected \/ UNCHANGED vars
    BY <1>7 DEF Rejected, vars, caseVars, TypeOK, Bound, RecordBound
  <1> QED
    BY <1>1, <1>2, <1>3, <1>4, <1>5, <1>6, <1>7 DEF Next

(* So it holds in every reachable state.                                   *)
LEMMA EvalInductive == Spec => []EvalInv
  BY EvalInit, EvalStep, PTL DEF Spec

(* The variables of the evaluator keep their types.                        *)
THEOREM EvaluatorTypes == Spec => []TypeOK
  BY EvalInductive, PTL DEF EvalInv

(* A record is bound to the case of its result.                            *)
THEOREM RecordsAreBound == Spec => []RecordBound
  BY EvalInductive, PTL DEF EvalInv

(* Decisions only get stricter, whatever the pool and the edits are.       *)
THEOREM DecisionsNeverWeaken == Spec => []DecisionNeverWeakens
  <1>1. EvalInv => DecisionNeverWeakens
    <2> SUFFICES ASSUME EvalInv, result # NoResult
                 PROVE  LET d == ResultDecision(result)
                        IN /\ AtLeast(d, result.decision)
                           /\ AtLeast(d, result.proposal.decision)
                           /\ d = "ALLOW" => Hardened(result)
                           /\ ~AuthorityNotExpanded(result) => d = "DENY"
      BY DEF DecisionNeverWeakens
    <2>1. result \in Materials /\ DecisionMonotonic(result)
      BY DEF EvalInv, TypeOK, Bound
    <2>2. result.decision \in Decisions /\ result.proposal.decision \in Decisions
      BY <2>1 DEF Materials, Proposals
    <2>3. Rank["ALLOW"] = 0 /\ Rank["REVIEW"] = 1 /\ Rank["DENY"] = 2
      BY DEF Rank, Decisions
    <2>4. ~AuthorityNotExpanded(result) => Failed(result) # {}
      <3>1. "authority_not_expanded" \in DOMAIN Predicates(result)
        BY DEF Predicates
      <3>2. Predicates(result)["authority_not_expanded"]
              = AuthorityNotExpanded(result)
        BY DEF Predicates
      <3> QED
        BY <3>1, <3>2 DEF Failed
    <2> QED
      BY <2>1, <2>2, <2>3, <2>4
         DEF ResultDecision, DecisionMonotonic, AtLeast, Hardened, Decisions
  <1> QED
    BY <1>1, EvalInductive, PTL

(* Serialization loses no evidence of an accepted case.                    *)
THEOREM EvidenceIsKept == Spec => []NoEvidenceLost
  <1>1. EvalInv => NoEvidenceLost
    <2> SUFFICES ASSUME EvalInv, Accepted
                 PROVE  /\ Cardinality(Material.variants) = Len(variants)
                        /\ Cardinality(Material.controls) = Len(controls)
      BY DEF NoEvidenceLost
    <2>1. TypeOK /\ DistinctIds
      BY DEF EvalInv, Accepted, Preflight
    <2>2. variants \in Seq(Pool) /\ controls \in Seq(Pool)
      BY <2>1 DEF TypeOK
    <2>3. /\ Cardinality(Members(variants)) = Len(variants)
          /\ Cardinality(Members(controls)) = Len(controls)
      BY <2>1, <2>2, DistinctWithin, MembersCount DEF TupleIdsDistinct
    <2> QED
      BY <2>3 DEF Material
  <1> QED
    BY <1>1, EvalInductive, PTL

-----------------------------------------------------------------------------
(* Appending an item keeps the members if the ids stay distinct.           *)
LEMMA AppendKeepsMembers ==
  ASSUME NEW items \in Seq(Pool), NEW e \in Pool,
         \A i, j \in DOMAIN items : items[i].id = items[j].id => i = j,
         \A i, j \in DOMAIN Append(items, e) :
            Append(items, e)[i].id = Append(items, e)[j].id => i = j
  PROVE  Members(items) \subseteq Members(Append(items, e))
  <1>1. Append(items, e) \in Seq(Pool)
    OBVIOUS
  <1>2. Members(items) = {items[i] : i \in DOMAIN items}
    BY MembersAreAll
  <1>3. Members(Append(items, e))
          = {Append(items, e)[i] : i \in DOMAIN Append(items, e)}
    BY <1>1, MembersAreAll
  <1>4. \A i \in DOMAIN items : /\ i \in DOMAIN Append(items, e)
                                /\ Append(items, e)[i] = items[i]
    OBVIOUS
  <1> QED
    BY <1>2, <1>3, <1>4

(* Fewer members of a hardened case that are still some are hardened.      *)
LEMMA FewerAreHardened ==
  ASSUME NEW m \in Materials, NEW n \in Materials,
         m.proposal = n.proposal, m.producer = n.producer,
         m.decision = n.decision, m.observed = n.observed,
         m.equivalent = n.equivalent, m.original = n.original,
         m.variants \subseteq n.variants, m.controls \subseteq n.controls,
         m.variants # {}, m.controls # {},
         Hardened(n)
  PROVE  Hardened(m)
  <1>1. Evidence(m) \subseteq Evidence(n)
    BY DEF Evidence
  <1>2. /\ Neutralized(n.original) /\ AttackClassHolds(n)
        /\ BenignControlsPass(n) /\ ProvenanceValid(n)
        /\ VerificationComplete(n) /\ ReplayExact(n)
        /\ AuthorityNotExpanded(n) /\ n.equivalent
    <2>1. \A p \in DOMAIN Predicates(n) : Predicates(n)[p]
      BY DEF Hardened, Failed
    <2> QED
      BY <2>1 DEF Predicates
  <1>3. /\ Neutralized(m.original) /\ AttackClassHolds(m)
        /\ BenignControlsPass(m) /\ m.equivalent
    BY <1>2 DEF AttackClassHolds, BenignControlsPass
  <1>4. ProvenanceValid(m) /\ VerificationComplete(m)
    BY <1>1, <1>2 DEF ProvenanceValid, VerificationComplete
  <1>5. ReplayExact(m)
    BY <1>1, <1>2 DEF ReplayExact
  <1>6. AuthorityNotExpanded(m)
    BY <1>2 DEF AuthorityNotExpanded
  <1>7. \A p \in DOMAIN Predicates(m) : Predicates(m)[p]
    BY <1>3, <1>4, <1>5, <1>6 DEF Predicates
  <1> QED
    BY <1>7 DEF Hardened, Failed

(* More evidence never turns a case that is not hardened into one that is. *)
THEOREM HardeningIsMonotone == Spec => EvidenceNeverHardens
  <1>1. ASSUME TypeOK, TypeOK', AddEvidence, Accepted, Accepted',
               Hardened(Material)'
        PROVE  Hardened(Material)
    <2> DEFINE m == Material
               n == Material'
    <2>1. PICK e \in Pool :
            \/ variants' = Append(variants, e) /\ controls' = controls
            \/ controls' = Append(controls, e) /\ variants' = variants
      BY <1>1 DEF AddEvidence
    <2>2. variants \in Seq(Pool) /\ controls \in Seq(Pool)
      BY <1>1 DEF TypeOK
    <2>3. TupleIdsDistinct
      BY <1>1, DistinctWithin DEF Accepted, Preflight
    <2>4. TupleIdsDistinct'
      <3>1. DistinctIds'
        BY <1>1 DEF Accepted, Preflight
      <3>2. (TypeOK /\ DistinctIds => TupleIdsDistinct)'
        BY DistinctWithin, PTL
      <3> QED
        BY <1>1, <3>1, <3>2
    <2>5. /\ Members(variants) \subseteq Members(variants')
          /\ Members(controls) \subseteq Members(controls')
      BY <2>1, <2>2, <2>3, <2>4, AppendKeepsMembers DEF TupleIdsDistinct
    <2>6. Len(variants) >= 1 /\ Len(controls) >= 1
      BY <1>1 DEF Accepted, Preflight
    <2>7. Members(variants) # {} /\ Members(controls) # {}
      <3>1. 1 \in DOMAIN variants /\ 1 \in DOMAIN controls
        BY <2>2, <2>6
      <3>2. /\ Members(variants) = {variants[i] : i \in DOMAIN variants}
            /\ Members(controls) = {controls[i] : i \in DOMAIN controls}
        BY <2>2, <2>3, MembersAreAll DEF TupleIdsDistinct
      <3> QED
        BY <3>1, <3>2
    <2>8. m \in Materials /\ n \in Materials
      <3>1. (TypeOK => Material \in Materials)'
        BY MaterialType, PTL
      <3>2. Materials' = Materials
        OBVIOUS
      <3> QED
        BY <1>1, <3>1, <3>2, MaterialType
    <2>9. /\ m.proposal = n.proposal /\ m.producer = n.producer
          /\ m.decision = n.decision /\ m.observed = n.observed
          /\ m.equivalent = n.equivalent /\ m.original = n.original
          /\ m.variants \subseteq n.variants /\ m.controls \subseteq n.controls
          /\ m.variants # {} /\ m.controls # {}
      BY <1>1, <2>5, <2>7 DEF Material, AddEvidence
    <2>10. Hardened(n)
      BY <1>1
    <2> QED
      BY <2>8, <2>9, <2>10, FewerAreHardened
  <1>2. EvalInv /\ EvalInv' /\ [Next]_vars
          => [AddEvidence /\ Accepted /\ Accepted' /\ Hardened(Material)'
                => Hardened(Material)]_vars
    BY <1>1 DEF EvalInv
  <1> QED
    BY <1>2, EvalInductive, PTL DEF Spec, EvidenceNeverHardens

-----------------------------------------------------------------------------
(* Counting tells whether a function on a finite set repeats a value: the  *)
(* sources of the evidence are as many as the items exactly if they are    *)
(* distinct.                                                               *)
LEMMA SourcesCount ==
  ASSUME NEW S \in SUBSET Pool, IsFiniteSet(S)
  PROVE  Cardinality({e.source : e \in S}) = Cardinality(S)
           <=> \A e, f \in S : e.source = f.source => e = f
  <1> DEFINE T == {e.source : e \in S}
             g == [e \in S |-> e.source]
  <1>1. g \in Surjection(S, T)
    BY DEF Surjection
  <1>2. Cardinality(T) = Cardinality(S) <=> g \in Injection(S, T)
    BY <1>1, FS_Surjection
  <1>3. g \in Injection(S, T) <=> \A e, f \in S : g[e] = g[f] => e = f
    BY DEF Injection, IsInjective
  <1> QED
    BY <1>2, <1>3

(* The items of an accepted case: the roles keep the parts of the evidence *)
(* apart, so that their numbers add up.                                    *)
LEMMA EvidenceCount ==
  ASSUME TypeOK, Preflight
  PROVE  /\ IsFiniteSet(Evidence(Material)) /\ Evidence(Material) \subseteq Pool
         /\ Cardinality(Evidence(Material))
              = 1 + Cardinality(Material.variants)
                  + Cardinality(Material.controls)
  <1> DEFINE V == Members(variants)
             C == Members(controls)
             B == {original} \cup V
  <1>1. /\ variants \in Seq(Pool) /\ controls \in Seq(Pool)
        /\ original \in Pool /\ TupleIdsDistinct
    BY DistinctWithin DEF TypeOK, Preflight
  <1>2. IsFiniteSet(V) /\ IsFiniteSet(C)
    BY <1>1, MembersCount DEF TupleIdsDistinct
  <1>3. V \subseteq Pool /\ C \subseteq Pool
    BY <1>1, MembersFromPool
  <1>4. /\ original.role = "original" /\ \A e \in V : e.role = "variant"
        /\ \A e \in C : e.role = "benign"
    BY DEF Preflight, Members
  <1>5. original \notin V /\ B \cap C = {}
    BY <1>4
  <1>6. /\ Cardinality(V) \in Nat /\ Cardinality(C) \in Nat
        /\ IsFiniteSet(B) /\ Cardinality(B) = Cardinality(V) + 1
    BY <1>2, <1>5, FS_CardinalityType, FS_AddElement
  <1>7. /\ IsFiniteSet(B \cup C)
        /\ Cardinality(B \cup C) = Cardinality(B) + Cardinality(C)
    <2>1. IsFiniteSet(B) /\ IsFiniteSet(C) /\ B \cap C = {}
      BY <1>2, <1>5, <1>6
    <2>2. Cardinality(B) \in Nat /\ Cardinality(C) \in Nat
      BY <1>6
    <2> HIDE DEF B, C
    <2>3. /\ IsFiniteSet(B \cup C)
          /\ Cardinality(B \cup C)
               = Cardinality(B) + Cardinality(C) - Cardinality(B \cap C)
      BY <2>1, FS_Union
    <2>4. Cardinality(B \cap C) = 0
      BY <2>1, FS_EmptySet
    <2> QED
      BY <2>2, <2>3, <2>4
  <1>8. /\ Evidence(Material) = B \cup C
        /\ Material.variants = V /\ Material.controls = C
    BY DEF Evidence, Material
  <1> HIDE DEF V, C, B
  <1> QED
    BY <1>1, <1>3, <1>6, <1>7, <1>8 DEF B

(* The schema vocabulary of the command line and from_dict accept the same *)
(* cases: sources counted and decisions ranked on the raw document are the *)
(* rules of the parsed records, which UniqueSources states pairwise.       *)
THEOREM SchemaAndCodeAgree == Spec => []SchemaAgrees
  <1>1. EvalInv => SchemaAgrees
    <2> SUFFICES ASSUME EvalInv, Preflight, KindsMatch(Material)
                 PROVE  VocabularyAccepts(Material) <=> FromDict(Material)
      BY DEF SchemaAgrees
    <2> DEFINE m == Material
               E == Evidence(Material)
    <2>1. TypeOK /\ m \in Materials
      BY MaterialType DEF EvalInv
    <2>2. Cardinality({e.source : e \in E})
            = 1 + Cardinality(m.variants) + Cardinality(m.controls)
          <=> UniqueSources(m)
      BY <2>1, EvidenceCount, SourcesCount DEF UniqueSources
    <2>3. Rank[m.decision] \in Rank[m.proposal.decision] .. Rank["DENY"]
            <=> DecisionMonotonic(m)
      <3>1. m.decision \in Decisions /\ m.proposal.decision \in Decisions
        BY <2>1 DEF Materials, Proposals
      <3>2. Rank["ALLOW"] = 0 /\ Rank["REVIEW"] = 1 /\ Rank["DENY"] = 2
        BY DEF Rank, Decisions
      <3> QED
        BY <3>1, <3>2 DEF DecisionMonotonic, AtLeast, Decisions
    <2>4. m.proposal.producer # m.producer <=> IndependentVerifier(m)
      BY DEF IndependentVerifier
    <2> HIDE DEF m
    <2> QED
      BY <2>2, <2>3, <2>4 DEF m, VocabularyAccepts, FromDict
  <1> QED
    BY <1>1, EvalInductive, PTL
=============================================================================
