--------------------------- MODULE ConstitutionAudit ---------------------------
(***************************************************************************)
(* The audit of a proposed commit against the trusted baseline             *)
(* (audit_constitution.py) in the life of a repository: maintainers move   *)
(* the baseline, a proposal is drafted, checked out, audited against the   *)
(* baseline that was fetched, and merged when it passed.  The workflow     *)
(* runs the auditor from the baseline, so that a proposal never brings its *)
(* own; the auditor here is always the one of the source.                  *)
(***************************************************************************)
EXTENDS Naturals, FiniteSets

CONSTANTS MaxGovern,     \* bound of the model: changes of the baseline
          MaxEdits,      \* bound of the model: changes of proposals
          MaxMerges      \* bound of the model: proposals merged

ASSUME AuditAssumption == {MaxGovern, MaxEdits, MaxMerges} \subseteq Nat

(* One path of every class that the audit tells apart: a pinned artifact;  *)
(* CONTRACT_VERSION; README.md, which must be there and name the           *)
(* invariants; a scoped AGENTS.md; a regression test; a workflow; two      *)
(* migration authorizations; a successor contract and its evidence.        *)
Pinned == {"registry"}
Required == Pinned \cup {"version", "readme"}
Policies == {"agents"}
Tests == {"test"}
Workflows == {"workflow"}
Authorizations == {"m1", "m2"}
Artifacts == {"contract", "evidence"}
Paths == Required \cup Policies \cup Tests \cup Workflows
           \cup Authorizations \cup Artifacts

(* Objects, by what the audit can see in them.                             *)
Objects(p) == CASE p = "version" -> {"v1", "v2"}
                [] p = "readme" -> {"a", "b", "bare"}
                [] p = "workflow" -> {"auto", "auto2", "manual", "opaque"}
                [] p = "m1" -> {"forA", "forB", "unsound", "garbage"}
                [] p = "m2" -> {"forA"}
                [] p = "agents" -> {"a"}
                [] OTHER -> {"a", "b"}
Absent == [mode |-> "none", oid |-> "none"]
Blob(oid) == [mode |-> "100644", oid |-> oid]
NoTree == <<>>                             \* before a run of the workflow
Entries(p) == {Absent} \cup {Blob(o) : o \in Objects(p)}
                \cup [mode : {"other"},
                      oid : IF p \in Tests \cup Pinned THEN {"a"} ELSE {}]
Has(tree, p) == tree[p] # Absent

VARIABLES
  base,            \* the tree of the trusted ref
  main,            \* the tree that was merged last
  head, work,      \* the proposal and its checkout
  trusted,         \* the tree of the trusted ref when it was fetched
  pc, governs, edits, merges,
  kept,            \* ghost: what trusted was at the last merge
  authorities      \* ghost: the authorizations that base ever had

vars == <<base, main, head, work, trusted, pc, governs, edits, merges, kept,
          authorities>>

-----------------------------------------------------------------------------
(* The checks, in the order of main.  A check that reads the checkout      *)
(* compares raw bytes with the object in HEAD.                             *)
Regular(tree, p) == tree[p].mode = "100644"
IsFile(p) == work[p] \notin {"none", "special"}
WorktreeMatchesHead(p) == Regular(head, p) /\ IsFile(p) /\ work[p] = head[p].oid

RequiredFiles == \A p \in Required : IsFile(p) /\ Regular(head, p)

TrustedBaseline ==
  /\ Has(trusted, "version") /\ trusted["version"].oid = "v1"
  /\ \A p \in Pinned : Regular(trusted, p)

PinnedArtifacts ==
  \A p \in Pinned : head[p] = trusted[p] /\ WorktreeMatchesHead(p)

AgentPolicyScope == \A p \in Policies : Has(head, p) <=> Has(trusted, p)

(* A trusted test is as it was; every test is a regular committed file.    *)
RegressionTestNames ==                     \* mutant: a test of that name is there
  \A p \in Tests :
    /\ Has(trusted, p) => Has(head, p)
    /\ Has(head, p) => WorktreeMatchesHead(p)
RegressionTestFloor ==
  \A p \in Tests :
    /\ Has(trusted, p) => head[p] = trusted[p]
    /\ Has(head, p) => WorktreeMatchesHead(p)

(* Only what provably has no trigger but workflow_dispatch is manual.      *)
EveryWorkflow(tree, p) == Has(tree, p)     \* mutant: manual ones as well
Automatic(tree, p) == Has(tree, p) /\ tree[p].oid # "manual"
DefaultWorkflows ==
  \A p \in Workflows :
    /\ "opaque" \notin {trusted[p].oid, head[p].oid}
    /\ Automatic(trusted, p) <=> Automatic(head, p)
    /\ Automatic(head, p) => head[p] = trusted[p]

(* What an authorization says: the version it is for, and the objects of   *)
(* the successor contract and of the evidence.  An unsound one fails some  *)
(* check of its own fields; garbage is no JSON object at all.              *)
Target(oid) == IF oid = "garbage" THEN "none" ELSE "v2"
Authorized(oid) == [contract |-> IF oid = "forB" THEN "b" ELSE "a",
                    evidence |-> "a"]
Matches(version) ==
  {p \in Authorizations : Has(trusted, p) /\ Target(trusted[p].oid) = version}
GrantsItself(p) ==                         \* mutant: not compared with the baseline
  /\ head[p].oid # "unsound" /\ WorktreeMatchesHead(p)
  /\ \A a \in Artifacts : /\ head[a].oid = Authorized(head[p].oid)[a]
                          /\ WorktreeMatchesHead(a)
Grants(p) ==
  /\ head[p].oid # "unsound"
  /\ head[p] = trusted[p] /\ WorktreeMatchesHead(p)
  /\ \A a \in Artifacts : /\ head[a].oid = Authorized(head[p].oid)[a]
                          /\ WorktreeMatchesHead(a)
MigrationAuthorized(version) ==
  /\ \A p \in Authorizations : trusted[p].oid # "garbage"
  /\ Cardinality(Matches(version)) = 1
  /\ \A p \in Matches(version) : Grants(p)

(* CONTRACT_VERSION as it was, or a successor that is authorized.          *)
ContractIdentity ==
  /\ WorktreeMatchesHead("version")
  /\ IF work["version"] = "v1" THEN head["version"].oid = trusted["version"].oid
     ELSE MigrationAuthorized(work["version"])

(* The registry says what the auditor expects, documents name it.          *)
Documented == work["registry"] = "a" /\ work["readme"] # "bare"

Passes == /\ RequiredFiles /\ TrustedBaseline /\ PinnedArtifacts
          /\ AgentPolicyScope /\ RegressionTestFloor /\ DefaultWorkflows
          /\ ContractIdentity /\ Documented

-----------------------------------------------------------------------------
(* The trees a repository starts with, an authorization perhaps among them *)
(* and what it names perhaps merged before.                                *)
Start(m, a) ==
  [p \in Paths |-> CASE p = "version" -> Blob("v1")
                     [] p = "workflow" -> Blob("auto")
                     [] p = "m1" -> m
                     [] p \in {"m2", "agents"} -> Absent
                     [] p \in Artifacts -> a
                     [] OTHER -> Blob("a")]

Init ==
  /\ LET m == Blob("forA") IN
     \/ base = Start(Absent, Absent) /\ main = base
     \/ /\ base \in {Start(Absent, Blob("a")), Start(m, Blob("a"))}
        /\ main \in {Start(Absent, Blob("a")), Start(m, Blob("a"))}
  /\ head = main /\ kept = base /\ trusted = NoTree /\ work = NoTree
  /\ pc = "draft" /\ governs = 0 /\ edits = 0 /\ merges = 0
  /\ authorities = {base[p] : p \in Authorizations}

ToEdit == edits < MaxEdits /\ edits' = edits + 1

(* Maintainers commit to the trusted ref, at any time.                     *)
Govern ==
  /\ governs < MaxGovern /\ governs' = governs + 1
  /\ \E p \in Paths : \E e \in Entries(p) \ {base[p]} :
       /\ base' = [base EXCEPT ![p] = e]
       /\ authorities' = authorities \cup
                           (IF p \in Authorizations THEN {e} ELSE {})
  /\ UNCHANGED <<main, head, work, trusted, pc, edits, merges, kept>>

(* The author commits anything, or takes over what the baseline has.       *)
Edit ==
  /\ pc = "draft" /\ ToEdit
  /\ \E p \in Paths : \E e \in Entries(p) \ {head[p]} :
       head' = [head EXCEPT ![p] = e]
  /\ UNCHANGED <<base, main, work, trusted, pc, governs, merges, kept, authorities>>
TakeOver ==
  /\ pc = "draft" /\ ToEdit /\ head' = base
  /\ UNCHANGED <<base, main, work, trusted, pc, governs, merges, kept, authorities>>

(* A run of the workflow begins: the checkout has what is committed, but   *)
(* for a file that has other bytes or is none (a directory or symbolic     *)
(* link, or is missing), and the baseline is fetched.                      *)
Checkout ==
  /\ pc = "draft" /\ pc' = "fetched" /\ trusted' = base
  /\ LET clean == [p \in Paths |-> head[p].oid]
     IN \/ work' = clean /\ UNCHANGED edits
        \/ /\ ToEdit
           /\ \E p \in Paths, x \in {"special", "foreign"} :
                work' = [clean EXCEPT ![p] = x]
  /\ UNCHANGED <<base, main, head, governs, merges, kept, authorities>>

Audit ==
  /\ pc = "fetched" /\ pc' = IF Passes THEN "passed" ELSE "failed"
  /\ UNCHANGED <<base, main, head, work, trusted, governs, edits, merges, kept,
                 authorities>>

Merge ==
  /\ pc = "passed" /\ merges < MaxMerges
  /\ pc' = "draft" /\ merges' = merges + 1
  /\ main' = head /\ kept' = trusted /\ trusted' = NoTree /\ work' = NoTree
  /\ UNCHANGED <<base, head, governs, edits, authorities>>

(* The proposal is withdrawn, and another one drafted from main.           *)
Withdraw ==
  /\ pc \in {"passed", "failed"} /\ pc' = "draft" /\ head' = main
  /\ trusted' = NoTree /\ work' = NoTree
  /\ UNCHANGED <<base, main, governs, edits, merges, kept, authorities>>

Next == Govern \/ Edit \/ TakeOver \/ Checkout \/ Audit \/ Merge
          \/ Withdraw
Spec == Init /\ [][Next]_vars

-----------------------------------------------------------------------------
(* The variables have their types.                                         *)
TypeOK ==
  /\ \A t \in {base, main, head, trusted, kept} \ {NoTree} :
       \A p \in Paths : t[p] \in Entries(p)
  /\ work # NoTree =>
       \A p \in Paths : work[p] \in Objects(p) \cup {"none", "special", "foreign"}
  /\ pc \in {"draft", "fetched", "passed", "failed"}
  /\ governs \in 0 .. MaxGovern /\ edits \in 0 .. MaxEdits /\ merges \in 0 .. MaxMerges

(* Whatever was merged before and however often the baseline moved since:  *)
(* the last merge kept everything that was trusted when it was audited.    *)
(* Frozen artifacts and trusted tests are there unchanged, no file sets an *)
(* agent's policy that did not before, and what runs by itself is exactly  *)
(* what would run from the baseline.                                       *)
Triggered(tree, p) == tree[p].oid \notin {"none", "manual"}
RunsByItself(tree) == {<<p, tree[p]>> : p \in {q \in Workflows : Triggered(tree, q)}}
Files(tree, ps) == {<<p, tree[p]>> : p \in {q \in ps : Has(tree, q)}}
TrustKept ==
  merges > 0 =>
    /\ Files(kept, Pinned \cup Tests) \subseteq Files(main, Paths)
    /\ {f[1] : f \in Files(main, Policies)} = {f[1] : f \in Files(kept, Policies)}
    /\ RunsByItself(main) = RunsByItself(kept)

(* No successor authorizes itself (docs/CONTRACT_MIGRATIONS.md): the       *)
(* contract's identity leaves v1 only when an authorization was on the     *)
(* baseline for it, and main has the very objects that were authorized.    *)
(* One that came with an earlier proposal counts for nothing.              *)
SuccessorAuthorized ==
  main["version"].oid = "v2" =>
    \E p \in Authorizations :
      /\ main[p] \in authorities \ {Absent}
      /\ \A a \in Artifacts : main[a] = Blob(Authorized(main[p].oid)[a])

(* A proposal is refused for a cause only: the baseline is not in order,   *)
(* the checkout differs from what is committed, a file it changes is       *)
(* governed, or README.md no longer names the invariants.  What is left to *)
(* the author passes: README.md, other tests, manual workflows, files that *)
(* prepare a migration.                                                    *)
InOrder(tree) ==
  /\ \A p \in Paths \ Artifacts : tree[p].mode # "other"
  /\ tree["version"] = Blob("v1") /\ tree["registry"] = Blob("a")
  /\ tree["workflow"].oid # "opaque"
Governed(p) == \/ p \in Pinned \cup Policies \cup {"version"}
               \/ p \in Tests /\ Has(trusted, p)
               \/ p \in Workflows /\ (Triggered(trusted, p) \/ Triggered(head, p))
RejectedForCause ==
  pc = "failed" =>
    \/ ~InOrder(trusted)
    \/ \E p \in Paths : work[p] # head[p].oid \/ head[p].mode = "other"
    \/ \E p \in Paths : Governed(p) /\ head[p] # trusted[p]
    \/ head["readme"].oid \in {"none", "bare"}
=============================================================================
