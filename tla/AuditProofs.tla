------------------------------ MODULE AuditProofs ------------------------------
(***************************************************************************)
(* Machine-checked proofs about ConstitutionAudit, for any number of       *)
(* changes of the baseline and of the proposals and any number of merges:  *)
(* what was trusted is kept, no successor authorizes itself and nothing is *)
(* refused without a cause.                                                *)
(***************************************************************************)
EXTENDS ConstitutionAudit, FiniteSetTheorems, TLAPS

(* A tree and a checkout, by what each path can hold.                      *)
Oids == {"none"} \cup UNION {Objects(p) : p \in Paths}
Entry == [mode : {"none", "100644", "other"}, oid : Oids]
Trees == {t \in [Paths -> Entry] : \A p \in Paths : t[p] \in Entries(p)}
Contents(p) == Objects(p) \cup {"none", "special", "foreign"}
Checkouts == {w \in [Paths -> Oids \cup {"special", "foreign"}] :
                \A p \in Paths : w[p] \in Contents(p)}

(* The baseline and the checkout are those of the run of the workflow.     *)
TreeInv ==
  /\ base \in Trees /\ main \in Trees /\ head \in Trees /\ kept \in Trees
  /\ pc \in {"draft", "fetched", "passed", "failed"}
  /\ pc = "draft" => trusted = NoTree /\ work = NoTree
  /\ pc # "draft" => trusted \in Trees /\ work \in Checkouts
  /\ governs \in 0 .. MaxGovern /\ edits \in 0 .. MaxEdits
  /\ merges \in 0 .. MaxMerges

(* What is merged next has passed, against authorizations of the baseline. *)
VerdictInv ==
  /\ pc = "passed" => Passes
  /\ \A p \in Authorizations :
       /\ base[p] \in authorities
       /\ pc # "draft" => trusted[p] \in authorities

AuditInv == /\ TreeInv /\ VerdictInv
            /\ TrustKept /\ SuccessorAuthorized /\ RejectedForCause

USE AuditAssumption

(* What a path can have.                                                   *)
LEMMA ObjectShape ==
  ASSUME NEW p \in Paths
  PROVE  /\ Objects(p) \cup {"none"} \subseteq Oids
         /\ "none" \notin Objects(p) /\ "special" \notin Objects(p)
         /\ p \in Tests \cup Pinned => "a" \in Objects(p)
  <1>0. Objects(p) \cup {"none"} \subseteq Oids
    BY DEF Oids
  <1>1. p \in {"registry", "version", "readme", "agents", "test", "workflow",
               "m1", "m2", "contract", "evidence"}
    BY DEF Paths, Required, Pinned, Policies, Tests, Workflows,
           Authorizations, Artifacts
  <1>2. CASE p \in {"registry", "test", "contract", "evidence"}
    <2>1. Objects(p) = {"a", "b"}
      BY <1>2 DEF Objects
    <2> QED
      BY <1>0, <2>1
  <1>3. CASE p = "version"
    <2>1. Objects(p) = {"v1", "v2"}
      BY <1>3 DEF Objects
    <2> QED
      BY <1>0, <1>3, <2>1 DEF Tests, Pinned
  <1>4. CASE p = "readme"
    <2>1. Objects(p) = {"a", "b", "bare"}
      BY <1>4 DEF Objects
    <2> QED
      BY <1>0, <2>1
  <1>5. CASE p = "workflow"
    <2>1. Objects(p) = {"auto", "auto2", "manual", "opaque"}
      BY <1>5 DEF Objects
    <2> QED
      BY <1>0, <1>5, <2>1 DEF Tests, Pinned
  <1>6. CASE p = "m1"
    <2>1. Objects(p) = {"forA", "forB", "unsound", "garbage"}
      BY <1>6 DEF Objects
    <2> QED
      BY <1>0, <1>6, <2>1 DEF Tests, Pinned
  <1>7. CASE p = "m2"
    <2>1. Objects(p) = {"forA"}
      BY <1>7 DEF Objects
    <2> QED
      BY <1>0, <1>7, <2>1 DEF Tests, Pinned
  <1>8. CASE p = "agents"
    <2>1. Objects(p) = {"a"}
      BY <1>8 DEF Objects
    <2> QED
      BY <1>0, <2>1
  <1> QED
    BY <1>1, <1>2, <1>3, <1>4, <1>5, <1>6, <1>7, <1>8

(* What an entry can be.                                                   *)
LEMMA EntryShape ==
  ASSUME NEW p \in Paths, NEW e \in Entries(p)
  PROVE  /\ e \in Entry /\ e.mode \in {"none", "100644", "other"}
         /\ e.oid \in Objects(p) \cup {"none"}
         /\ e = Absent <=> e.oid = "none"
         /\ e = Absent \/ e.mode = "other" \/ e = Blob(e.oid)
         /\ p \in Workflows => e.mode # "other"
  <1>1. CASE e = Absent
    BY <1>1, ObjectShape DEF Absent, Entry
  <1>2. CASE e \in {Blob(o) : o \in Objects(p)}
    <2>1. PICK o \in Objects(p) : e = [mode |-> "100644", oid |-> o]
      BY <1>2 DEF Blob
    <2> QED
      BY <2>1, ObjectShape DEF Blob, Absent, Entry
  <1>3. CASE e \in [mode : {"other"},
                    oid : IF p \in Tests \cup Pinned THEN {"a"} ELSE {}]
    <2>1. /\ p \in Tests \cup Pinned
          /\ e \in [mode : {"other"}, oid : {"a"}]
      BY <1>3
    <2>2. p \notin Workflows
      BY <2>1 DEF Workflows, Tests, Pinned
    <2>3. e.mode = "other" /\ e.oid = "a" /\ e # Absent /\ e \in Entry
      BY <2>1, ObjectShape DEF Absent, Entry
    <2> QED
      BY <2>1, <2>2, <2>3, ObjectShape
  <1> QED
    BY <1>1, <1>2, <1>3 DEF Entries

(* A tree with one entry changed is a tree.                                *)
LEMMA ChangeEntry ==
  ASSUME NEW t \in Trees, NEW p \in Paths, NEW e \in Entries(p)
  PROVE  [t EXCEPT ![p] = e] \in Trees
  <1>1. e \in Entry
    BY EntryShape
  <1> QED
    BY <1>1 DEF Trees

(* What is automatic is what runs by itself.                               *)
LEMMA AutomaticRuns ==
  ASSUME NEW t \in Trees, NEW p \in Workflows
  PROVE  Automatic(t, p) <=> Triggered(t, p)
  <1>1. p \in Paths /\ t[p] \in Entries(p)
    BY DEF Trees, Paths
  <1>2. t[p] = Absent <=> t[p].oid = "none"
    BY <1>1, EntryShape
  <1> QED
    BY <1>2 DEF Automatic, Triggered, Has

(* The kinds of paths.                                                     *)
LEMMA PathKinds ==
  /\ Required \subseteq Paths /\ Pinned \subseteq Required
  /\ Policies \subseteq Paths /\ Tests \subseteq Paths
  /\ Workflows \subseteq Paths /\ Authorizations \subseteq Paths
  /\ Artifacts \subseteq Paths /\ "version" \in Required
  /\ "readme" \in Required /\ "registry" \in Pinned
  BY DEF Paths, Required, Pinned, Policies, Tests, Workflows, Authorizations,
         Artifacts

(* What is trusted is kept by a tree, as TrustKept says it of the last     *)
(* merge.                                                                  *)
KeptBy(old, new) ==
  /\ Files(old, Pinned \cup Tests) \subseteq Files(new, Paths)
  /\ {f[1] : f \in Files(new, Policies)} = {f[1] : f \in Files(old, Policies)}
  /\ RunsByItself(new) = RunsByItself(old)

(* A proposal that passes keeps what is trusted.                           *)
LEMMA PassingKeeps ==
  ASSUME trusted \in Trees, head \in Trees, Passes
  PROVE  KeptBy(trusted, head)
  <1>1. \A p \in Pinned \cup Tests :
          Has(trusted, p) => Has(head, p) /\ head[p] = trusted[p]
    BY DEF Passes, PinnedArtifacts, RegressionTestFloor, Has
  <1>2. Files(trusted, Pinned \cup Tests) \subseteq Files(head, Paths)
    BY <1>1, PathKinds DEF Files
  <1>3. {f[1] : f \in Files(head, Policies)}
          = {f[1] : f \in Files(trusted, Policies)}
    <2>1. \A t \in Trees : {f[1] : f \in Files(t, Policies)}
                             = {p \in Policies : Has(t, p)}
      <3> SUFFICES ASSUME NEW t \in Trees
                   PROVE  {f[1] : f \in Files(t, Policies)}
                            = {p \in Policies : Has(t, p)}
        OBVIOUS
      <3>1. ASSUME NEW f \in Files(t, Policies)
            PROVE  f[1] \in {p \in Policies : Has(t, p)}
        BY DEF Files
      <3>2. ASSUME NEW p \in Policies, Has(t, p)
            PROVE  \E f \in Files(t, Policies) : p = f[1]
        <4>1. <<p, t[p]>> \in Files(t, Policies)
          BY <3>2 DEF Files
        <4> QED
          BY <4>1
      <3> QED
        BY <3>1, <3>2
    <2> QED
      BY <2>1 DEF Passes, AgentPolicyScope
  <1>4. \A p \in Workflows :
          /\ Triggered(trusted, p) <=> Triggered(head, p)
          /\ Triggered(head, p) => head[p] = trusted[p]
    BY AutomaticRuns DEF Passes, DefaultWorkflows
  <1>5. RunsByItself(head) = RunsByItself(trusted)
    BY <1>4 DEF RunsByItself
  <1> QED
    BY <1>2, <1>3, <1>5 DEF KeptBy

(* A successor that passes has its authorization on the baseline, and the  *)
(* objects that it names.                                                  *)
LEMMA PassingAuthorized ==
  ASSUME trusted \in Trees, head \in Trees, Passes,
         head["version"].oid = "v2"
  PROVE  \E p \in Authorizations :
           /\ head[p] = trusted[p] /\ head[p] # Absent
           /\ \A a \in Artifacts : head[a] = Blob(Authorized(head[p].oid)[a])
  <1>1. work["version"] = "v2"
    BY DEF Passes, ContractIdentity, WorktreeMatchesHead
  <1>2. MigrationAuthorized("v2")
    BY <1>1 DEF Passes, ContractIdentity
  <1>3. PICK p \in Matches("v2") : TRUE
    BY <1>2, FS_EmptySet DEF MigrationAuthorized
  <1>4. p \in Authorizations /\ Has(trusted, p) /\ Grants(p)
    BY <1>2, <1>3 DEF MigrationAuthorized, Matches
  <1>5. ASSUME NEW a \in Artifacts
        PROVE  head[a] = Blob(Authorized(head[p].oid)[a])
    <2>1. /\ head[a].oid = Authorized(head[p].oid)[a]
          /\ head[a].mode = "100644"
      BY <1>4 DEF Grants, WorktreeMatchesHead, Regular
    <2>2. a \in Paths /\ head[a] \in Entries(a)
      BY PathKinds DEF Trees
    <2>3. head[a] = Blob(head[a].oid)
      BY <2>1, <2>2, EntryShape DEF Absent
    <2> QED
      BY <2>1, <2>3
  <1> QED
    BY <1>4, <1>5 DEF Grants, Has

(* A proposal for whose refusal there is no cause passes.                  *)
NoCause ==
  /\ InOrder(trusted)
  /\ \A p \in Paths : work[p] = head[p].oid /\ head[p].mode # "other"
  /\ \A p \in Paths : Governed(p) => head[p] = trusted[p]
  /\ head["readme"].oid \notin {"none", "bare"}
LEMMA NoCausePasses ==
  ASSUME trusted \in Trees, head \in Trees, work \in Checkouts, NoCause
  PROVE  Passes
  <1>1. \A p \in Paths :
          /\ head[p] = Absent <=> head[p].oid = "none"
          /\ trusted[p] = Absent <=> trusted[p].oid = "none"
          /\ Has(head, p) => Regular(head, p)
    <2> SUFFICES ASSUME NEW p \in Paths
                 PROVE  /\ head[p] = Absent <=> head[p].oid = "none"
                        /\ trusted[p] = Absent <=> trusted[p].oid = "none"
                        /\ Has(head, p) => Regular(head, p)
      OBVIOUS
    <2>1. head[p] \in Entries(p) /\ trusted[p] \in Entries(p)
      BY DEF Trees
    <2>2. /\ head[p] = Absent <=> head[p].oid = "none"
          /\ trusted[p] = Absent <=> trusted[p].oid = "none"
          /\ head[p] = Absent \/ head[p] = Blob(head[p].oid)
      BY <2>1, EntryShape DEF NoCause
    <2> QED
      BY <2>2 DEF Has, Regular, Blob
  <1>2. \A p \in Paths : Has(head, p) => WorktreeMatchesHead(p)
    <2> SUFFICES ASSUME NEW p \in Paths, Has(head, p)
                 PROVE  WorktreeMatchesHead(p)
      OBVIOUS
    <2>1. head[p].oid \in Objects(p) \cup {"none"}
      BY EntryShape DEF Trees
    <2>2. head[p].oid # "none" /\ head[p].oid # "special"
      BY <1>1, <2>1, ObjectShape DEF Has
    <2> QED
      BY <1>1, <2>2 DEF NoCause, WorktreeMatchesHead, IsFile
  <1>3. \A p \in Pinned : Has(trusted, p) /\ Regular(trusted, p)
    BY DEF NoCause, InOrder, Has, Regular, Blob, Absent, Pinned
  <1>4. \A p \in Pinned \cup {"version"} : head[p] = trusted[p] /\ Has(head, p)
    BY <1>3, PathKinds DEF NoCause, Governed, InOrder, Has, Blob, Absent
  <1>5. Has(head, "readme")
    BY <1>1, PathKinds DEF NoCause, Has
  <1>6. RequiredFiles
    BY <1>2, <1>4, <1>5, PathKinds
       DEF RequiredFiles, Required, WorktreeMatchesHead
  <1>7. TrustedBaseline
    BY <1>3 DEF TrustedBaseline, NoCause, InOrder, Has, Blob, Absent
  <1>8. PinnedArtifacts
    BY <1>2, <1>4, PathKinds DEF PinnedArtifacts
  <1>9. AgentPolicyScope
    BY PathKinds DEF AgentPolicyScope, NoCause, Governed, Has
  <1>10. RegressionTestFloor
    BY <1>2, PathKinds DEF RegressionTestFloor, NoCause, Governed
  <1>11. DefaultWorkflows
    <2>1. \A p \in Workflows :
            Triggered(trusted, p) \/ Triggered(head, p) => head[p] = trusted[p]
      BY PathKinds DEF NoCause, Governed
    <2>2. \A p \in Workflows : trusted[p].oid # "opaque"
      BY DEF NoCause, InOrder, Workflows
    <2>3. \A p \in Workflows : head[p].oid = "opaque" => Triggered(head, p)
      BY DEF Triggered
    <2>4. \A p \in Workflows : head[p] = trusted[p] =>
            (Triggered(trusted, p) <=> Triggered(head, p))
      BY DEF Triggered
    <2>5. \A p \in Workflows : /\ Automatic(head, p) <=> Triggered(head, p)
                               /\ Automatic(trusted, p) <=> Triggered(trusted, p)
      BY AutomaticRuns
    <2> QED
      BY <2>1, <2>2, <2>3, <2>4, <2>5 DEF DefaultWorkflows
  <1>12. ContractIdentity
    <2>1. head["version"] = trusted["version"] /\ trusted["version"].oid = "v1"
      BY <1>4 DEF NoCause, InOrder, Blob
    <2>2. WorktreeMatchesHead("version") /\ work["version"] = "v1"
      BY <1>2, <1>4, <2>1, PathKinds DEF NoCause
    <2> QED
      BY <2>1, <2>2 DEF ContractIdentity
  <1>13. Documented
    <2>1. head["registry"] = Blob("a")
      BY <1>4, PathKinds DEF NoCause, InOrder
    <2> QED
      BY <2>1, PathKinds DEF Documented, NoCause, Blob
  <1> QED
    BY <1>6, <1>7, <1>8, <1>9, <1>10, <1>11, <1>12, <1>13 DEF Passes

(* The initial states satisfy the invariant.                               *)
LEMMA AuditInit == Init => AuditInv
  <1> SUFFICES ASSUME Init PROVE AuditInv
    OBVIOUS
  <1>1. \A p \in Paths : /\ Absent \in Entries(p)
                          /\ \A o \in Objects(p) : Blob(o) \in Entries(p)
    BY DEF Entries
  <1>2. \A m, a : m \in {Absent, Blob("forA")} /\ a \in {Absent, Blob("a")} =>
          /\ Start(m, a) \in Trees /\ Start(m, a)["version"].oid = "v1"
    <2> SUFFICES ASSUME NEW m \in {Absent, Blob("forA")},
                        NEW a \in {Absent, Blob("a")}
                 PROVE  /\ Start(m, a) \in Trees
                        /\ Start(m, a)["version"].oid = "v1"
      OBVIOUS
    <2>1. ASSUME NEW p \in Paths
          PROVE  Start(m, a)[p] \in Entries(p)
      <3>1. CASE p = "version"
        <4>1. Start(m, a)[p] = Blob("v1") /\ "v1" \in Objects(p)
          BY <3>1 DEF Start, Objects, Artifacts
        <4> QED
          BY <1>1, <4>1
      <3>2. CASE p = "workflow"
        <4>1. Start(m, a)[p] = Blob("auto") /\ "auto" \in Objects(p)
          BY <3>2 DEF Start, Objects, Artifacts
        <4> QED
          BY <1>1, <4>1
      <3>3. CASE p = "m1"
        <4>1. Start(m, a)[p] = m /\ "forA" \in Objects(p)
          BY <3>3 DEF Start, Objects, Artifacts
        <4> QED
          BY <1>1, <4>1
      <3>4. CASE p \in {"m2", "agents"}
        <4>1. Start(m, a)[p] = Absent
          BY <3>4 DEF Start, Artifacts
        <4> QED
          BY <1>1, <4>1
      <3>5. CASE p \in Artifacts
        <4>1. Start(m, a)[p] = a /\ "a" \in Objects(p)
          BY <3>5 DEF Start, Objects, Artifacts
        <4> QED
          BY <1>1, <4>1
      <3>6. CASE p \in {"registry", "readme", "test"}
        <4>1. Start(m, a)[p] = Blob("a") /\ "a" \in Objects(p)
          BY <3>6 DEF Start, Objects, Artifacts
        <4> QED
          BY <1>1, <4>1
      <3> QED
        BY <3>1, <3>2, <3>3, <3>4, <3>5, <3>6
           DEF Paths, Required, Pinned, Policies, Tests, Workflows,
               Authorizations, Artifacts
    <2>2. \A p \in Paths : Start(m, a)[p] \in Entry
      BY <2>1, EntryShape
    <2>3. Start(m, a) \in [Paths -> Entry]
      BY <2>2 DEF Start
    <2>4. Start(m, a)["version"] = Blob("v1")
      BY PathKinds DEF Start, Artifacts
    <2> QED
      BY <2>1, <2>3, <2>4 DEF Trees, Blob
  <1>3. PICK m, a, n, b :
          /\ {m, n} \subseteq {Absent, Blob("forA")}
          /\ {a, b} \subseteq {Absent, Blob("a")}
          /\ base = Start(m, a) /\ main = Start(n, b)
    BY DEF Init
  <1>4. base \in Trees /\ main \in Trees /\ main["version"].oid = "v1"
    BY <1>2, <1>3
  <1>5. TreeInv
    BY <1>4 DEF Init, TreeInv
  <1>6. VerdictInv
    BY DEF Init, VerdictInv
  <1>7. TrustKept /\ SuccessorAuthorized /\ RejectedForCause
    BY <1>4 DEF Init, TrustKept, SuccessorAuthorized, RejectedForCause
  <1> QED
    BY <1>5, <1>6, <1>7 DEF AuditInv

(* A change of the baseline keeps the invariant: authorizations are only   *)
(* ever added, and the run under way has the baseline it fetched.          *)
LEMMA GovernKeeps == AuditInv /\ Govern => AuditInv'
  <1> SUFFICES ASSUME AuditInv, Govern PROVE AuditInv'
    OBVIOUS
  <1> USE DEF AuditInv
  <1>0. PICK p \in Paths :
          \E e \in Entries(p) \ {base[p]} :
            /\ base' = [base EXCEPT ![p] = e]
            /\ authorities' = authorities \cup
                                (IF p \in Authorizations THEN {e} ELSE {})
    BY DEF Govern
  <1>1. PICK e \in Entries(p) :
          /\ base' = [base EXCEPT ![p] = e]
          /\ authorities' = authorities \cup
                              (IF p \in Authorizations THEN {e} ELSE {})
    BY <1>0
  <1>2. /\ governs' \in 0 .. MaxGovern
        /\ UNCHANGED <<main, head, work, trusted, pc, edits, merges, kept>>
    BY DEF Govern, TreeInv
  <1>3. TreeInv'
    BY <1>1, <1>2, ChangeEntry DEF TreeInv
  <1>4. VerdictInv'
    <2>1. Passes <=> Passes'
      BY <1>2 DEF Passes, RequiredFiles, TrustedBaseline, PinnedArtifacts,
                  AgentPolicyScope, RegressionTestFloor, DefaultWorkflows,
                  ContractIdentity, Documented, IsFile, Regular, Has,
                  WorktreeMatchesHead, Automatic, MigrationAuthorized,
                  Matches, Grants
    <2>2. \A q \in Authorizations : base'[q] \in authorities'
      BY <1>1, PathKinds DEF VerdictInv, TreeInv, Trees
    <2> QED
      BY <1>1, <1>2, <2>1, <2>2 DEF VerdictInv
  <1>5. TrustKept' /\ SuccessorAuthorized' /\ RejectedForCause'
    BY <1>1, <1>2 DEF TrustKept, SuccessorAuthorized, RejectedForCause,
       Files, RunsByItself, Has, Triggered, InOrder, Governed
  <1> QED
    BY <1>3, <1>4, <1>5

(* A change of the proposal keeps it: nothing of a run of the workflow is  *)
(* there then.                                                             *)
LEMMA EditKeeps == AuditInv /\ (Edit \/ TakeOver) => AuditInv'
  <1> SUFFICES ASSUME AuditInv, Edit \/ TakeOver PROVE AuditInv'
    OBVIOUS
  <1> USE DEF AuditInv
  <1>1. /\ pc = "draft" /\ edits' \in 0 .. MaxEdits
        /\ UNCHANGED <<base, main, work, trusted, pc, governs, merges, kept,
                       authorities>>
    BY DEF Edit, TakeOver, ToEdit, TreeInv
  <1>2. head' \in Trees
    <2>1. CASE Edit
      <3>1. PICK p \in Paths : \E e \in Entries(p) \ {head[p]} :
                                 head' = [head EXCEPT ![p] = e]
        BY <2>1 DEF Edit
      <3>2. PICK e \in Entries(p) : head' = [head EXCEPT ![p] = e]
        BY <3>1
      <3>3. head \in Trees
        BY DEF TreeInv
      <3>4. [head EXCEPT ![p] = e] \in Trees
        BY <3>3, ChangeEntry
      <3> QED
        BY <3>2, <3>4
    <2>2. CASE TakeOver
      BY <2>2 DEF TakeOver, TreeInv
    <2> QED
      BY <2>1, <2>2
  <1>3. TreeInv'
    BY <1>1, <1>2 DEF TreeInv
  <1>4. VerdictInv'
    BY <1>1 DEF VerdictInv
  <1>5. TrustKept' /\ SuccessorAuthorized' /\ RejectedForCause'
    BY <1>1 DEF TrustKept, SuccessorAuthorized, RejectedForCause,
       Files, RunsByItself, Has, Triggered
  <1> QED
    BY <1>3, <1>4, <1>5

(* The start of a run keeps it.                                            *)
LEMMA CheckoutKeeps == AuditInv /\ Checkout => AuditInv'
  <1> SUFFICES ASSUME AuditInv, Checkout PROVE AuditInv'
    OBVIOUS
  <1> USE DEF AuditInv
  <1>1. /\ pc' = "fetched" /\ trusted' = base
        /\ UNCHANGED <<base, main, head, governs, merges, kept, authorities>>
    BY DEF Checkout
  <1>2. work' \in Checkouts /\ edits' \in 0 .. MaxEdits
    <2> DEFINE clean == [p \in Paths |-> head[p].oid]
    <2>1. \A p \in Paths : head[p].oid \in Oids /\ head[p].oid \in Contents(p)
      BY EntryShape DEF TreeInv, Trees, Entry, Contents
    <2>2. clean \in Checkouts
      BY <2>1 DEF Checkouts
    <2>3. \A p \in Paths, x \in {"special", "foreign"} :
            [clean EXCEPT ![p] = x] \in Checkouts
      BY <2>2 DEF Checkouts, Contents
    <2>4. \/ work' = clean /\ UNCHANGED edits
          \/ /\ ToEdit
             /\ \E p \in Paths, x \in {"special", "foreign"} :
                  work' = [clean EXCEPT ![p] = x]
      BY DEF Checkout
    <2> HIDE DEF clean
    <2>5. edits' \in 0 .. MaxEdits
      BY <2>4 DEF ToEdit, TreeInv
    <2> QED
      BY <2>2, <2>3, <2>4, <2>5
  <1>3. TreeInv'
    BY <1>1, <1>2 DEF TreeInv
  <1>4. VerdictInv'
    BY <1>1 DEF VerdictInv
  <1>5. TrustKept' /\ SuccessorAuthorized' /\ RejectedForCause'
    BY <1>1 DEF TrustKept, SuccessorAuthorized, RejectedForCause,
       Files, RunsByItself, Has, Triggered
  <1> QED
    BY <1>3, <1>4, <1>5

(* The verdict keeps it: it is a refusal for a cause, or all the checks    *)
(* hold.                                                                   *)
LEMMA AuditKeeps == AuditInv /\ Audit => AuditInv'
  <1> SUFFICES ASSUME AuditInv, Audit PROVE AuditInv'
    OBVIOUS
  <1> USE DEF AuditInv
  <1>1. /\ pc = "fetched" /\ pc' = IF Passes THEN "passed" ELSE "failed"
        /\ UNCHANGED <<base, main, head, work, trusted, governs, edits, merges,
                       kept, authorities>>
    BY DEF Audit
  <1>2. Passes <=> Passes'
    BY <1>1 DEF Passes, RequiredFiles, TrustedBaseline, PinnedArtifacts,
                AgentPolicyScope, RegressionTestFloor, DefaultWorkflows,
                ContractIdentity, Documented, IsFile, Regular, Has,
                WorktreeMatchesHead, Automatic, MigrationAuthorized,
                Matches, Grants
  <1>3. TreeInv'
    BY <1>1 DEF TreeInv
  <1>4. VerdictInv'
    BY <1>1, <1>2 DEF VerdictInv
  <1>5. TrustKept' /\ SuccessorAuthorized'
    BY <1>1 DEF TrustKept, SuccessorAuthorized, Files, RunsByItself, Has,
       Triggered
  <1>6. RejectedForCause'
    <2>1. pc' = "failed" => ~NoCause
      BY <1>1, NoCausePasses DEF TreeInv
    <2>2. NoCause <=> NoCause'
      BY <1>1 DEF NoCause, InOrder, Governed, Has, Triggered
    <2> QED
      BY <2>1, <2>2 DEF NoCause, RejectedForCause
  <1> QED
    BY <1>3, <1>4, <1>5, <1>6

(* A merge keeps it.                                                       *)
LEMMA MergeKeeps == AuditInv /\ Merge => AuditInv'
  <1> SUFFICES ASSUME AuditInv, Merge PROVE AuditInv'
    OBVIOUS
  <1> USE DEF AuditInv
  <1>1. /\ pc = "passed" /\ pc' = "draft" /\ main' = head /\ kept' = trusted
        /\ trusted' = NoTree /\ work' = NoTree /\ merges' \in 0 .. MaxMerges
        /\ UNCHANGED <<base, head, governs, edits, authorities>>
    BY DEF Merge, TreeInv
  <1>2. trusted \in Trees /\ head \in Trees /\ Passes
    BY <1>1 DEF TreeInv, VerdictInv
  <1>3. TreeInv'
    BY <1>1, <1>2 DEF TreeInv
  <1>4. VerdictInv'
    BY <1>1 DEF VerdictInv
  <1>5. TrustKept'
    <2>1. KeptBy(trusted, head)
      BY <1>2, PassingKeeps
    <2> QED
      BY <1>1, <2>1 DEF KeptBy, TrustKept, Files, RunsByItself, Has, Triggered
  <1>6. SuccessorAuthorized'
    <2>1. SUFFICES ASSUME head["version"].oid = "v2"
                   PROVE  \E p \in Authorizations :
                            /\ head[p] \in authorities \ {Absent}
                            /\ \A a \in Artifacts :
                                 head[a] = Blob(Authorized(head[p].oid)[a])
      BY <1>1 DEF SuccessorAuthorized
    <2>2. PICK p \in Authorizations :
            /\ head[p] = trusted[p] /\ head[p] # Absent
            /\ \A a \in Artifacts : head[a] = Blob(Authorized(head[p].oid)[a])
      BY <1>2, <2>1, PassingAuthorized
    <2>3. head[p] \in authorities \ {Absent}
      BY <1>1, <2>2 DEF VerdictInv
    <2> QED
      BY <2>2, <2>3
  <1>7. RejectedForCause'
    BY <1>1 DEF RejectedForCause
  <1> QED
    BY <1>3, <1>4, <1>5, <1>6, <1>7

(* A withdrawal keeps it.                                                  *)
LEMMA WithdrawKeeps == AuditInv /\ Withdraw => AuditInv'
  <1> SUFFICES ASSUME AuditInv, Withdraw PROVE AuditInv'
    OBVIOUS
  <1> USE DEF AuditInv
  <1>1. /\ pc' = "draft" /\ head' = main
        /\ trusted' = NoTree /\ work' = NoTree
        /\ UNCHANGED <<base, main, governs, edits, merges, kept, authorities>>
    BY DEF Withdraw
  <1>2. TreeInv'
    BY <1>1 DEF TreeInv
  <1>3. VerdictInv'
    BY <1>1 DEF VerdictInv
  <1>4. TrustKept' /\ SuccessorAuthorized' /\ RejectedForCause'
    BY <1>1 DEF TrustKept, SuccessorAuthorized, RejectedForCause,
       Files, RunsByItself, Has, Triggered
  <1> QED
    BY <1>2, <1>3, <1>4

(* Stuttering keeps it.                                                    *)
LEMMA AuditStutter == AuditInv /\ UNCHANGED vars => AuditInv'
  <1> SUFFICES ASSUME AuditInv, UNCHANGED vars PROVE AuditInv'
    OBVIOUS
  <1> USE DEF AuditInv, vars
  <1>1. TreeInv'
    BY DEF TreeInv
  <1>2. VerdictInv'
    BY DEF VerdictInv, Passes, RequiredFiles, TrustedBaseline,
           PinnedArtifacts, AgentPolicyScope, RegressionTestFloor,
           DefaultWorkflows, ContractIdentity, Documented, IsFile, Regular,
           Has, WorktreeMatchesHead, Automatic, MigrationAuthorized,
           Matches, Grants
  <1>3. TrustKept' /\ SuccessorAuthorized' /\ RejectedForCause'
    BY DEF TrustKept, SuccessorAuthorized, RejectedForCause, Files,
           RunsByItself, Has, Triggered, InOrder, Governed
  <1> QED
    BY <1>1, <1>2, <1>3

(* The inductive invariant holds of every execution.                       *)
THEOREM AuditInvariant == Spec => []AuditInv
  <1>1. AuditInv /\ [Next]_vars => AuditInv'
    BY GovernKeeps, EditKeeps, CheckoutKeeps, AuditKeeps, MergeKeeps,
       WithdrawKeeps, AuditStutter DEF Next
  <1> QED
    BY <1>1, AuditInit, PTL DEF Spec

(* The variables have their types.                                         *)
THEOREM AuditTypes == Spec => []TypeOK
  <1>1. AuditInv => TypeOK
    <2> SUFFICES ASSUME AuditInv PROVE TypeOK
      OBVIOUS
    <2>1. \A t \in {base, main, head, trusted, kept} \ {NoTree} : t \in Trees
      BY DEF AuditInv, TreeInv
    <2>2. work # NoTree => work \in Checkouts
      BY DEF AuditInv, TreeInv
    <2> QED
      BY <2>1, <2>2
         DEF AuditInv, TreeInv, TypeOK, Trees, Checkouts, Contents
  <1> QED
    BY <1>1, AuditInvariant, PTL

(* However the baseline moves and whatever was merged before, the last     *)
(* merge kept what was trusted when it was audited (main of the auditor).  *)
THEOREM TrustCorrect == Spec => []TrustKept
  <1>1. AuditInv => TrustKept
    BY DEF AuditInv
  <1> QED
    BY <1>1, AuditInvariant, PTL

(* The contract leaves v1 only by an authorization that was on the         *)
(* baseline (check_contract_identity).                                     *)
THEOREM SuccessorCorrect == Spec => []SuccessorAuthorized
  <1>1. AuditInv => SuccessorAuthorized
    BY DEF AuditInv
  <1> QED
    BY <1>1, AuditInvariant, PTL

(* The auditor refuses for a cause only.                                   *)
THEOREM RefusalCorrect == Spec => []RejectedForCause
  <1>1. AuditInv => RejectedForCause
    BY DEF AuditInv
  <1> QED
    BY <1>1, AuditInvariant, PTL

(* What is merged is what was audited: between the verdict and the merge   *)
(* neither the proposal nor the baseline it was compared with can be       *)
(* replaced, however the trusted ref moves in between.                     *)
Audited == main' # main => /\ main' = head /\ Passes
                           /\ KeptBy(trusted, main')
MergedAsAudited == [][Audited]_vars

(* Nothing gets into main but a proposal that passes, as it is audited.    *)
THEOREM MergeCorrect == Spec => MergedAsAudited
  <1>1. AuditInv /\ [Next]_vars => [Audited]_vars
    <2> SUFFICES ASSUME AuditInv, [Next]_vars, main' # main
                 PROVE  /\ main' = head /\ Passes
                        /\ KeptBy(trusted, head)
      BY DEF Audited
    <2>1. Merge
      BY DEF Next, Govern, Edit, TakeOver, Checkout, Audit, Withdraw, vars
    <2>2. pc = "passed" /\ main' = head
      BY <2>1 DEF Merge
    <2>3. Passes /\ trusted \in Trees /\ head \in Trees
      BY <2>2 DEF AuditInv, TreeInv, VerdictInv
    <2> QED
      BY <2>2, <2>3, PassingKeeps
  <1> QED
    BY <1>1, AuditInvariant, PTL DEF Spec, MergedAsAudited

(* While no maintainer touches the trusted ref, no sequence of proposals   *)
(* moves what it protects: after any number of merges main still has its   *)
(* frozen artifacts and tests, sets no agent's policy that it does not,    *)
(* and runs by itself what it runs.                                        *)
StillBaseline == governs = 0 /\ merges > 0 => KeptBy(base, main)

(* Proposals alone never move what is trusted.                             *)
THEOREM ProposalsMoveNothing == Spec => []StillBaseline
  <1> DEFINE Still == governs = 0 => /\ kept = base
                                     /\ pc # "draft" => trusted = base
  <1>1. Init => Still
    BY DEF Init
  <1>2. AuditInv /\ Still /\ [Next]_vars => Still'
    <2> SUFFICES ASSUME AuditInv, Still, [Next]_vars, governs' = 0
                 PROVE  kept' = base' /\ (pc' # "draft" => trusted' = base')
      OBVIOUS
    <2>1. ~Govern
      <3>1. governs \in Nat
        BY DEF AuditInv, TreeInv
      <3> QED
        BY <3>1 DEF Govern
    <2>2. governs = 0 /\ UNCHANGED base
      BY <2>1 DEF Next, Edit, TakeOver, Checkout, Audit, Merge, Withdraw, vars
    <2> QED
      BY <2>1, <2>2
         DEF Next, Edit, TakeOver, Checkout, Audit, Merge, Withdraw, vars
  <1>3. AuditInv /\ Still => StillBaseline
    BY DEF AuditInv, TrustKept, KeptBy, StillBaseline
  <1> QED
    BY <1>1, <1>2, <1>3, AuditInvariant, PTL DEF Spec
=============================================================================
