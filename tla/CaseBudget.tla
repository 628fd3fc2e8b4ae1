------------------------------ MODULE CaseBudget ------------------------------
(***************************************************************************)
(* The size of a hardening case on its way through the package: the file,  *)
(* the strict reader, the schema vocabulary, from_dict, evaluate, which    *)
(* keeps the canonical bytes, the payload recomputed from these bytes, the *)
(* regression record and the output of the command line.  Every layer has  *)
(* limits of its own on bytes, nodes, nesting, items and characters.  What *)
(* is in a case beyond its size is Evaluator's business: the cases here    *)
(* differ in nothing else.                                                 *)
(***************************************************************************)
EXTENDS Integers, Sequences, SequencesExt, FiniteSetsExt

CONSTANTS MAX_JSON_BYTES, MAX_JSON_TEXT_BYTES, MAX_CANONICAL_BYTES,
          MAX_EXPANDED_JSON_NODES, MAX_JSON_DEPTH, MAX_OBJECT_ITEMS,
          MAX_ARRAY_ITEMS, MAX_VARIANT_ITEMS, MAX_STRING_CHARS,
          MaxId            \* the longest producer; an evidence id has a suffix one shorter

ASSUME BudgetAssumption ==
  {MAX_JSON_BYTES, MAX_JSON_TEXT_BYTES, MAX_CANONICAL_BYTES,
   MAX_EXPANDED_JSON_NODES, MAX_JSON_DEPTH, MAX_OBJECT_ITEMS, MAX_ARRAY_ITEMS,
   MAX_VARIANT_ITEMS, MAX_STRING_CHARS, MaxId} \subseteq Nat \ {0}

-----------------------------------------------------------------------------
(* JSON values by size.  A string has so many characters and so many bytes *)
(* in canonical form.  Equal entries of a container are written once, with *)
(* their number.                                                           *)
Text(chars, bytes) == [kind |-> "leaf", chars |-> chars, bytes |-> 2 + bytes]
Word(s) == Text(Len(s), Len(s))
Digest == Text(64, 64)
Flag(b) == [kind |-> "leaf", chars |-> 0, bytes |-> IF b THEN 4 ELSE 5]
Array(parts) == [kind |-> "array", parts |-> parts]         \* <<n, value>>
Map(parts) == [kind |-> "object", parts |-> parts]          \* <<n, key, value>>
Field(name, value) == <<1, Word(name), value>>

(* _validate_json_value and _snapshot_json_value: one walk, which charges  *)
(* every node, and the bytes of the canonical form as it goes.             *)
RECURSIVE Measure(_)
Measure(v) ==
  IF v.kind = "leaf"
    THEN [items |-> 0, nodes |-> 1, bytes |-> v.bytes, depth |-> 0,
          fits |-> v.chars <= MAX_STRING_CHARS]
  ELSE LET parts == SelectSeq(v.parts, LAMBDA p : p[1] > 0)
           object == v.kind = "object"
           With(p, m) ==
             LET below == Measure(Last(p)) IN
             [items |-> m.items + p[1],
              nodes |-> m.nodes + p[1] * below.nodes,
              bytes |-> m.bytes + p[1] * (below.bytes + 1
                                          + IF object THEN p[2].bytes + 1 ELSE 0),
              depth |-> Max({m.depth, 1 + below.depth}),
              fits |-> /\ m.fits /\ below.fits
                       /\ object => p[2].chars <= MAX_STRING_CHARS]
           all == FoldSeq(With, [items |-> 0, nodes |-> 1, depth |-> 0, fits |-> TRUE,
                                 bytes |-> IF parts = <<>> THEN 2 ELSE 1], parts)
       IN [all EXCEPT !.fits = @ /\ all.items <= IF object THEN MAX_OBJECT_ITEMS
                                                 ELSE MAX_ARRAY_ITEMS]

Valid(v) == LET m == Measure(v)
            IN /\ m.nodes <= MAX_EXPANDED_JSON_NODES
               /\ m.bytes <= MAX_CANONICAL_BYTES
               /\ m.depth <= MAX_JSON_DEPTH
               /\ m.fits

(* loads_strict, given the bytes of the text.  A mutant: the limit itself  *)
(* is too much.                                                            *)
LoadsBelow(v, text) == text < MAX_JSON_TEXT_BYTES /\ Valid(v)
Loads(v, text) == text <= MAX_JSON_TEXT_BYTES /\ Valid(v)
(* canonical_bytes.                                                        *)
Canonical(v) == Valid(v)

-----------------------------------------------------------------------------
(* A case, by what decides its size: the number of evidence entries, of    *)
(* capabilities in an authority, the length of ids and of free text, and   *)
(* how many bytes a character of it takes (6 as an escape).  pad says      *)
(* which authority is filled up until the case has so many bytes.          *)
EvidenceBody(c, kind) == Map(<<
  Field("kind", Word(kind)), Field("before", c.text),
  Field("after", Word("PRESERVED")), Field("provenance", Word("VERIFIED")),
  Field("source_sha256", Digest),
  Field("reference_engine_sha256", Digest), Field("replay_engine_sha256", Digest),
  Field("reference_result_sha256", Digest), Field("replay_result_sha256", Digest)>>)
Id(role, c) == Text(Len(role) + 1 + c.id, Len(role) + 1 + c.id)
Producer(c) == Text(c.id + 1, c.id + 1)
Entry(n, role, c, value) == <<n, Id(role, c), value>>

Authority(c, name) == Array(
  << <<c.capabilities, Word("cap")>> >> \o IF c.pad = name THEN c.fill ELSE <<>>)

(* _case_input_material; the file has the same members in any order.       *)
Material(c) == Map(<<
  Field("schema", Word("blue-forge.hardening-case/v1")),
  Field("contract", Word("blue-forge.core-invariants/v1")),
  Field("case_id", c.name), Field("invariant_id", Word("BF-INV-001")),
  Field("attack_class", c.name),
  Field("proposal", Map(<<
    Field("producer", Producer(c)), Field("mitigation_id", c.name),
    Field("decision", Word("ALLOW")),
    Field("pre_mitigation_authority", Authority(c, "pre")),
    Field("requested_authority", Authority(c, "requested")),
    Field("policy_authority", Authority(c, "policy"))>>)),
  Field("verification", Map(<<
    Field("producer", Producer(c)), Field("decision", Word("ALLOW")),
    Field("observed_authority", Authority(c, "observed")),
    Field("original", Map(<<Entry(1, "original", c, EvidenceBody(c, "hostile"))>>)),
    Field("variants", Map(<<Entry(c.variants, "variant", c, EvidenceBody(c, "hostile"))>>)),
    Field("benign_controls", Map(<<Entry(c.benign, "benign", c, EvidenceBody(c, "benign"))>>)),
    Field("reference_result_sha256", Digest),
    Field("candidate_result_sha256", Digest)>>))>>)

(* from_dict, as far as sizes go: what Verification, Evidence, Proposal    *)
(* and _array, _object and _string check, and then the canonical bytes.  A *)
(* mutant: as many variants as other arrays have entries.                  *)
Parts(c, variants) == /\ c.variants \in 1 .. variants
                      /\ c.benign \in 1 .. MAX_ARRAY_ITEMS
                      /\ c.id < MaxId
                      /\ Measure(Material(c)).fits
StructureMore(c) == Parts(c, MAX_VARIANT_ITEMS + 1)
Structure(c) == Parts(c, MAX_VARIANT_ITEMS)
FromDict(c) == Structure(c) /\ Canonical(Material(c))

(* evaluate: the case is built anew from its material, whose canonical     *)
(* bytes are the result.                                                   *)
Evaluate(c) == FromDict(c) /\ Canonical(Material(c))

Predicates == <<"original_attack_neutralized", "attack_class_invariant_holds",
                "benign_controls_pass", "provenance_valid", "verification_complete",
                "replay_exact", "authority_not_expanded",
                "reference_equivalence_preserved">>
Failed(c) == IF c.hardened THEN <<>>
             ELSE [i \in DOMAIN Predicates |-> <<1, Word(Predicates[i])>>]

Payload(c) == Map(<<
  Field("schema", Word("blue-forge.hardening-result/v1")),
  Field("contract", Word("blue-forge.core-invariants/v1")),
  Field("case_id", c.name), Field("case_sha256", Digest),
  Field("invariant_id", Word("BF-INV-001")), Field("attack_class", c.name),
  Field("mitigation_id", c.name), Field("proposal_producer", Producer(c)),
  Field("verification_producer", Producer(c)),
  Field("decision", Word(IF c.hardened THEN "ALLOW" ELSE "DENY")),
  Field("effective_authority", Authority(c, "observed")),
  Field("predicates", Map([i \in DOMAIN Predicates |->
                             Field(Predicates[i], Flag(c.hardened))])),
  Field("failed_predicates", Array(Failed(c))),
  Field("status", Word(IF c.hardened THEN "BLUE_HARDENED" ELSE "NOT_HARDENED")),
  Field("receipt_sha256", Digest)>>)

(* payload: the bytes are read back and judged; a digest is taken of the   *)
(* case and one of the payload.                                            *)
PayloadWorks(c) == /\ Measure(Material(c)).bytes <= MAX_JSON_BYTES
                   /\ Loads(Material(c), Measure(Material(c)).bytes)
                   /\ Evaluate(c) /\ Canonical(Payload(c))

Record(c) == LET Entries(value) == Map(<<Entry(1, "original", c, value),
                                         Entry(c.variants, "variant", c, value),
                                         Entry(c.benign, "benign", c, value)>>)
  IN Map(<<
  Field("schema", Word("blue-forge.regression-record/v1")),
  Field("contract", Word("blue-forge.core-invariants/v1")),
  Field("case_id", c.name), Field("case_sha256", Digest),
  Field("invariant_id", Word("BF-INV-001")), Field("attack_class", c.name),
  Field("mitigation_id", c.name),
  Field("hardening_status", Word(IF c.hardened THEN "BLUE_HARDENED" ELSE "NOT_HARDENED")),
  Field("hardening_receipt_sha256", Digest),
  Field("hostile_evidence_ids",
        Array(<< <<1, Id("original", c)>>, <<c.variants, Id("variant", c)>> >>)),
  Field("benign_control_ids", Array(<< <<c.benign, Id("benign", c)>> >>)),
  Field("source_sha256", Entries(Digest)),
  Field("reference_engine_sha256", Entries(Digest)),
  Field("replay_engine_sha256", Entries(Digest)),
  Field("failed_predicates", Array(Failed(c))),
  Field("record_sha256", Digest)>>)

-----------------------------------------------------------------------------
(* The cases, at the limits and beside them.  A padded case has authority  *)
(* entries of 4096 characters of two bytes, and one shorter, that make its *)
(* canonical form end short of, at, or past the limit on bytes.            *)
Words(hardened) == IF hardened THEN {Word("VULNERABLE")}
                   ELSE {Text(n, n) : n \in {1, MAX_STRING_CHARS, MAX_STRING_CHARS + 1}}
Names == {Text(1, 1), Text(MAX_STRING_CHARS, 6 * MAX_STRING_CHARS),
          Text(MAX_STRING_CHARS + 1, MAX_STRING_CHARS + 1)}

Plain == UNION {[variants : {1, MAX_VARIANT_ITEMS, MAX_VARIANT_ITEMS + 1},
                 benign : {1, MAX_ARRAY_ITEMS, MAX_ARRAY_ITEMS + 1},
                 capabilities : {1, MAX_ARRAY_ITEMS, MAX_ARRAY_ITEMS + 1},
                 id : {3, MaxId - 1, MaxId}, name : Names, text : Words(hardened),
                 pad : {"none"}, fill : {<<>>}, hardened : {hardened}] :
                   hardened \in BOOLEAN}

Filler == Text(MAX_STRING_CHARS, 2 * MAX_STRING_CHARS)
Filling(room) == LET n == (room - 4) \div (Filler.bytes + 1)
                     rest == room - n * (Filler.bytes + 1) - 3
                 IN << <<n, Filler>>, <<1, Text((rest + 2) \div 3, rest)>> >>
Padded == {[c EXCEPT !.pad = pad,
                     !.fill = Filling(MAX_CANONICAL_BYTES + over
                                        - Measure(Material(c)).bytes)] :
             c \in {c \in Plain : c.capabilities = 1 /\ Structure(c) /\ Canonical(Material(c))},
             pad \in {"observed", "policy"}, over \in {-1, 0, 1}}
(* Only a case that expands no authority is hardened.                      *)
Cases == Plain \cup {c \in Padded : c.pad = "observed" => ~c.hardened}

-----------------------------------------------------------------------------
(* main, for a file that holds the case's canonical form and slack bytes   *)
(* of white space, and a caller of evaluate who built the records himself. *)
VARIABLES case, slack,
          route,    \* "verify" or "regression" of the command line, or "api"
          pc, at    \* the layer reached, and the one that refused
vars == <<case, slack, route, pc, at>>

File == Measure(Material(case)).bytes + slack

Init == /\ case \in Cases
        /\ route \in {"verify", "regression", "api"}
        /\ slack \in IF route = "api" THEN {0} ELSE {0, 1}
        /\ pc = IF route = "api" THEN "evaluate" ELSE "read"
        /\ at = "none"

Layer(here, passes, next) ==
  /\ pc = here
  /\ IF passes THEN pc' = next /\ at' = at ELSE pc' = "refused" /\ at' = here
  /\ UNCHANGED <<case, slack, route>>

ReadCase == Layer("read", File <= MAX_JSON_BYTES, "parse")
Parse == Layer("parse", Loads(Material(case), File), "vocabulary")
Vocabulary == Layer("vocabulary", Canonical(Material(case)), "build")
Build == Layer("build", FromDict(case), "evaluate")
Judge == Layer("evaluate", Evaluate(case), "payload")
Read == Layer("payload", PayloadWorks(case), IF route = "verify" THEN "write" ELSE "record")
(* regression_record evaluates once more and digests what it returns.      *)
Remember == Layer("record", Evaluate(case) /\ PayloadWorks(case) /\ Canonical(Record(case)),
                  IF route = "api" THEN "done" ELSE "write")
Write == Layer("write", Canonical(IF route = "verify" THEN Payload(case) ELSE Record(case)),
               "done")
Finished == pc \in {"done", "refused"} /\ UNCHANGED vars

Next == \/ ReadCase \/ Parse \/ Vocabulary \/ Build \/ Judge \/ Read \/ Remember
        \/ Write \/ Finished

Spec == Init /\ [][Next]_vars

-----------------------------------------------------------------------------
(* The domain in terms of the case, as schema and documents state it.      *)
Strings(c) == {c.name.chars, c.text.chars} \cup {Last(p).chars : p \in ToSet(c.fill)}
Capabilities(c) == c.capabilities + FoldSeq(LAMBDA p, n : p[1] + n, 0, c.fill)
Legal(c) == /\ c.variants <= MAX_VARIANT_ITEMS /\ c.benign <= MAX_ARRAY_ITEMS
            /\ Capabilities(c) <= MAX_ARRAY_ITEMS
            /\ c.id < MaxId
            /\ \A n \in Strings(c) : n <= MAX_STRING_CHARS
            /\ Measure(Material(c)).bytes <= MAX_CANONICAL_BYTES

(* The layers draw one boundary: a case is refused, on whichever way, just *)
(* when it is outside the domain, or its file is longer than the limit;    *)
(* so a case of exactly the limit passes the file, the reader, evaluate    *)
(* and the reading of its kept bytes, each with a check of its own         *)
(* (cli.py, _validation_patch.py, _validation_patch_round20.py,            *)
(* _result_provenance_patch.py).                                           *)
OneDomain == /\ pc = "done" => Legal(case) /\ File <= MAX_JSON_BYTES
             /\ pc = "refused" => ~Legal(case) \/ File > MAX_JSON_BYTES

(* Nothing is refused late: once from_dict has accepted a case, or         *)
(* evaluate one built by hand, its payload, its regression record and the  *)
(* line written about it fit every limit too, though they are other        *)
(* documents with counts of their own (core.regression_record lists the    *)
(* original with the variants, and all evidence in one object).            *)
LoadedCaseSpeaks ==
  pc = "refused" => at \in IF route = "api" THEN {"evaluate"}
                           ELSE {"read", "parse", "build"}
=============================================================================
