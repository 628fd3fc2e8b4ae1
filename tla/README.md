# A TLA+ model of BLUE-FORGE

BLUE-FORGE decides whether a proposed security hardening is backed by evidence
(`blue_forge/`, a pure and deterministic evaluator) and keeps that decision
procedure honest by running a frozen test floor against proposed code that it
does not trust (`scripts/`, a tower of processes).  These modules model both,
translated from the source; line numbers below are of `scripts/` and
`blue_forge/`.  Abbreviations: *executor* `run_proposed_executor.py`, *impl*,
*round1*, *round2*, *round3* the four
`_run_frozen_tests_supervised_*.py`, *final* `run_frozen_tests_supervised.py`,
*isolated* `run_proposed_isolated.py`, *audit* `audit_constitution.py`.

## 1. The system

```
supervisor main (impl:1261, final:529)
  `- serial suite child (final:351,425)      one for the whole floor
       |  test thread: _Bridge.request / close (round1:167,238; final:322)
       |  drain thread: _Bridge._drain (impl:771)
       |  lifeline FIFO, stdin, stdout, stderr
       `- root launcher (isolated:437), by sudo
            `- namespace: setpriv / unshare / set-up / drop of privileges
                 `- broker (round1:95)              frames, sequence numbers
                      `- transport parent (executor:1166-1255)
                           `- application child (executor:1108-1163)
                                `- subinterpreter with the proposed code
```

The supervisor scripts are layers that patch each other on import (impl <
round1 < round2 < round3 < final).  What is modelled is what is in force after
the last layer: `request` and the actor are round1's, `close` is round1's inside
final's, `expected_tests`, `run_one` and `main` are final's.

| Component | State it keeps | Operations | Hard because |
|---|---|---|---|
| executor transport | two mailboxes in shared memory, four semaphores, generations, protection of the response page | `_Mailbox.send/receive`, `observe`, `close`, the application loop | two processes, no locks but the semaphores, timeouts, either may die between any two steps |
| bridge | `sequence`, `fatal`, overflow flag, `control_fd`, pipes | `request`, `_exchange`, `close`, `_drain` | two threads without a lock, late answers, a far end that may do anything |
| broker | request number, executor process | loop over frames, stop | ends in five ways, each with an exit status the launcher passes on |
| root launcher | scratch directory, scope, deadlines, retained output | poll loop, drain, cleanup | signals, nested scopes, a cleanup whose steps raise |
| supervisor | the armed replay | self-tests, serial suite, replay | output shared with descendants, crashes, timeouts |
| evaluator | none (values) | `from_dict`, `evaluate`, `regression_record` | mutable cases, order of clamps and checks, two validators |
| graph codec and remote objects | encoder memo, decoder cache, container signatures, handle table | encode, decode, compare, export states, apply them, hand out handles | aliases, cycles, objects that die and addresses that are used again |
| proposed CLI operation | selector, collected output, deadline, process group | `_bf_run_cli_bounded`, `bridged_run` | two pipes, descendants that hold them, a budget, a deadline |
| constitution audit | trees of baseline, head and checkout | the checks of `main` (audit:637) | the baseline moves, proposals prepare one another, one exception (a migration) to rules without any |
| budgets and command line | none (values) | reader, snapshot, `canonical_bytes`, `main` | every layer has limits of its own, at different representations |
| patching, importer and facades, process guards, other workflow jobs | | | not modelled, see section 7 |

What makes each correct: the transport never mixes up answers and never exposes
a mailbox to proposed code; the bridge never lets a failed request count as a
success and always comes to an end; the launcher's exit status 0 means what its
reader takes it to mean and its end is the namespace's end; the supervisor says
PASS only for a floor that was executed; the evaluator never weakens a decision,
never loses evidence and never binds a result to another case; an operation
receives the graph it was passed and none of its changes is lost; what a test is told about a
command line is what happened; what is trusted survives every merge; and all
layers of the package agree on which cases exist.  `PROJECT.json`
lists the hazards at their lines with the properties that would catch them.

## 2. Modules

| Module | Models | Role |
|---|---|---|
| `Observation` | what the broker is promised: issue, execute once, reply | abstract specification |
| `Executor` | executor transport, step by step | implements `Observation` |
| `ExecutorInvariant` | the inductive invariant of `Executor` | extends what run `executor` checks, used by the proofs |
| `ExecutorProofs` | | 8 theorems |
| `Bridge` | test thread, drain thread, broker, launcher as seen from the worker | |
| `BridgeProofs` | | its inductive invariant and 8 theorems; `Bridge` implements `Observation` too |
| `Launcher` | one invocation of the root launcher in each mode, nested or not | |
| `LauncherProofs` | | its inductive invariant and 6 theorems |
| `Supervisor` | supervisor main, serial suite child, replay | |
| `SupervisorProofs` | | its inductive invariant and 5 theorems |
| `Evaluator` | cases, evaluation, records | |
| `MCEvaluator` | a pool of evidence for TLC | |
| `EvaluatorProofs` | | 6 theorems |
| `GraphTransport` | argument graphs on their way to the executor and back, and the handle table, over several requests | uses the request of `Bridge` as one step there and one back; the codec is a parameter |
| `GraphCodec` | the codec: encoder, decoder, watched containers, states; the graphs that TLC starts from | gives `GraphTransport` its parameters |
| `GraphProofs` | | the invariant of the handle table, 3 theorems for every codec |
| `CliRun` | one call of the proposed command line, its descendants, the executor's loop, the worker's end | one `ChildRun` of `Executor`, one request of `Bridge` |
| `CliRunProofs` | | its inductive invariant and 4 theorems |
| `ConstitutionAudit` | a repository with baseline, proposals, audits and merges | |
| `AuditProofs` | | the inductive invariant of `ConstitutionAudit` and 7 theorems |
| `CaseBudget` | the sizes of a case in every layer of the package and the command line | with the limits of the code |

The definitions marked `mutant:` are variants of an action with a plausible
bug.  No specification uses them; with one in the place of the action it varies,
TLC refutes the property that is meant to exclude the bug (`PROJECT.json`,
`mutants`).

**Executor.** `ppc`/`cpc` are the program counters of parent and child inside
`observe` and `_application_loop`; `send` and `receive` are three steps each (try
the semaphore, copy, post), because the other process runs between them.
`ParentMiss`/`ChildMiss` are the turns of `_wait` that find no token, check
`alive` and the clock.  Semaphore counts are kept as numbers so that a post too
many would show.  Payloads are model values; a payload stands for the exact bytes
of a request, and an observation for the request it is the result of.

**Bridge.** The test thread's `request` is split at write and read, `close` at
every statement that another thread can interleave with: the test of `control_fd`,
its `os.close` and the assignment of `None` are three steps in both threads.
The pipes are unbuffered (impl:759), so `stderr.close()` waits for nobody, whether the
drain thread is inside `read()` or between two of them (`ClosePipes`); a reader that outlived
`join(3)` is found by the check at round1:274-277 (`CloseConfirm`) and by nothing else.
A response may be good, be rejected with `fatal` latched, or break `request` by an exception
that round1:207-213 does not list (`unlisted` in `Answers`): then it has been consumed, `fatal` stays
clear, the exception reaches the test, and the ghost `escaped` counts it.  Of the two floors, the frozen
one asks for complete silence in `_bridge_close`, and nothing before that depends
on the floor, so `CloseConfirm` chooses it (`Floors`) and one run covers both.

**Launcher.** `lpc` walks through `main`: set-up, handlers, `Popen`, the poll loop
with one action per check, the output and the finally with one action per
statement that may raise.  The namespace is `proc` (the direct child: not yet
under a parent-death signal, under one, adrift, dead) and `tree` (what runs inside).

**Supervisor.** The parent runs self-tests, starts the child, waits, kills its
group, collects output, checks the record and replays it.  The child loads every
module, then runs every case, judges, closes the bridge and prints the record.
Of the output only the last line counts: the record, another line, or a line left
open that the record would be appended to.

**Evaluator.** A case is a record of tuples of evidence, a verification and two
decisions; a caller may change it arbitrarily between the calls.  `Material` is
the canonical serialization as a function from ids, which is where a duplicate id
would lose an item.  Digests are the digested value itself (a perfect digest).

**GraphTransport and GraphCodec.** `heap` holds the worker's objects, `wire` the encoded
request, `cells` the executor's copy.  The decoder is translated with its order:
a mutable object enters the table before its children are decoded, a tuple
afterwards, which is why a cycle entered by a tuple ends in two copies of it.  The operation then
changes cells (`Edit`), and the answer is refused when the identities of the elements of a watched
container differ, or carries the states of fixtures as trees, which the worker applies one
after the other.  `live` gives every object the executor keeps an address; when
an object dies its address may be the `id()` of the next.  Handles count from 1 here.
The session (`GraphTransport`) takes the codec as constant operators; the configuration puts
those of `GraphCodec` in their place, named after the functions they translate.

**CliRun.** The selector loop is split at `select`, at every key it returns, at
the wait and at the `finally`.  Chunks carry the descriptor and a serial number, so
that order and loss show.  A descendant may leave the process group and keep a pipe.
`Popen` and the selector come before the `try` (executor:203-207): a start that fails is answered as an
exception with nothing started, or, for want of a selector, with the process left running.  The exception is
the application's own to a test if its type is one that `request` knows (`Raised`), and fails the bridge otherwise (`Unknown`).
`Kill` only makes SIGKILL pending (`doomed`), `Die` is its arrival, and `Reap` waits for the leader
alone and may give up after its 5 seconds (impl:281-288).  `Frame` is the room of a response for both
streams with their encoding (executor:926-928), which output within both budgets may exceed: then there is no
response and the bridge fails.  The worker's relay may fail half-way and its decoding may raise.
The caller's options are chosen when they first matter.

**ConstitutionAudit.** A tree maps one path of every class the audit distinguishes to
an entry (mode and object); objects are named by what the audit can see in
them.  Maintainers commit to the baseline at any time (`Govern`), an author commits anything
or takes the baseline over, `Checkout` fetches what the audit will compare with, and
`Merge` makes it `main`.  The ghosts `kept` and `authorities` remember what was trusted at
the last merge and every authorization the baseline ever had.

**CaseBudget.** A JSON value is its shape and sizes; equal parts of a container are written
once with their number, which is what makes the real limits (a mebibyte, 16384 nodes,
256 items, 4096 characters) feasible.  `Measure` is the walk of `_validate_json_value`
and of the snapshot.  Cases lie at every limit and beside it, and padded ones end one byte
short of, at and past the limit on canonical bytes.

## 3. Runs

| Run | Question | Bounds | Size |
|---|---|---|---|
| `executor` | exclusion, integrity, order, refinement of `Observation`; does every request end, does no application outlive its transport | 3 operations, 2 payloads, every interleaving, crash and timeout | 176 k states |
| `executor_budget` | *violated*: is every legal operation answered | 2 operations | |
| `bridge` | failed requests, late answers, silence, lifeline; do request, close and teardown end; both floors | 3 requests of which 2 are admitted, 2 chunks of noise, budget 1, pipe of 1 | 522 k |
| `bridge_current` | *violated*: is an overflow rejected on the current floor | as above | |
| `launcher` | what exit status 0 and PASS mean, what is left behind; does it end, does the namespace end with it | 2 chunks of output, budget 1, pipe of 1 | 23 k |
| `supervisor` | does PASS mean executed, is the replay exact, is the output final; does it end | 2 modules of up to 2 cases out of 2, a record of up to 3 identities | 231 k |
| `supervisor_bounded` | *violated*: is every exit bounded | as above | |
| `evaluator_api` | decisions, evidence, records, the two validators | a small pool of evidence, tuples of up to 2 | 144 k |
| `graph` | sharing, mutations, handles | all graphs of up to 3 objects and 3 references, 1 change, 3 requests, 3 addresses, 2 handles | 964 k |
| `cli` | is the output the whole output, does the call end, does the group come to its end | 3 chunks, budget 2, room for 2 in a response, pipes of 1, three processes | 962 k |
| `audit` | does trust survive merges, does no successor authorize itself, is nothing refused without cause | 1 change of the baseline, 2 of proposals, 2 merges | 2.4 M |
| `case_budget` | do all layers draw one boundary, is nothing refused late | the limits of the code; 972 plain cases and padded ones, over three routes | 19 k |

Why the bounds are enough.  Three operations (two for liveness) show a request after a request, and
with it every stale answer, generation mismatch and budget boundary (the last
operation and one before it).  Two chunks over a budget of one are below, at and
above the limit, and a pipe of one chunk makes the writer wait.  Two modules of two
cases have an order within and between modules, a duplicate case and an empty module;
a record that holds three of four identities is truncated for the full floor and
only for it.  Three objects with three references have every alias, self-reference and
cycle between two kinds, and a cycle behind a list.  Three requests hand out two handles
and find the table full, and three addresses let one be used again while another is kept.  A budget of two
chunks is met and exceeded by one stream while the other has output, a response with room for two is too small for both streams within their budgets, and a pipe of one makes the process wait.  Two changes
and two merges suffice for a proposal that prepares the next one, with the baseline moving before, between or after.  Counters stop at the named constants (`MaxRequests`, `MaxNoise`,
`MaxOutput`, `MaxSuite`), which bound the environment and not the program.

Time.  No model measures it: every deadline may pass at any moment at which the
code looks at its clock.  This covers every combination of delays, and it means
that the models cannot say that one timeout is shorter than another.

`CHECK_DEADLOCK` stays on everywhere; a system that is over has an explicit
stuttering step (`Terminated`, `Finished`).

## 4. Fairness

- *Executor*: both processes are scheduled, their clocks advance, signals arrive.
  The proposed call itself has no fairness, it may hang.
- *Bridge*: the two threads of the worker and the launcher are scheduled, the
  worker's clock advances, the launcher's grace period ends.  Tests, broker,
  executor and proposed code owe nothing.
- *Launcher*: the launcher is scheduled, its clock advances and SIGKILL is
  delivered by the kernel.  The command, the worker and the drain thread owe nothing.
- *Supervisor*: the supervisor is scheduled and `wait(timeout=220)` expires.
  Nothing is assumed of the child.
- *CliRun*: executor and worker are scheduled, the deadline passes, and the kernel
  delivers a SIGKILL that is pending (`Die`), to each process in its own time.  Apart from that the
  process and its descendants may hang at any point.

`GraphTransport`, `ConstitutionAudit`, `CaseBudget` and `Evaluator` have no
liveness properties; nothing in them waits.

## 5. What the checks found

1. `executor_budget` (executor:1157): the application posts the observation of
   the last legal operation and exits with "operation budget exceeded"; the parent
   looks whether the application is alive before it looks into the mailbox, and
   may lose the observation.
2. `bridge_current` (round1:269): the hardened `close` no longer has the check of
   impl:912-915, so that on the supervised current floor an actor over its
   diagnostic budget goes unnoticed if the drain thread gets to the excess late.
3. `supervisor_bounded` (impl:325): `stdout.close()` waits without a limit for
   the reader's lock when a detached descendant holds the pipe; the check of
   line 326 that means to report this is not reached.

Observations made while translating that have no run of their own: no document states the contrary
precisely enough, or, as for the first, a property and its hazard already say how far the claim holds:

- `request` latches `fatal` for five types of exceptions (round1:207-213).  A response that breaks it by another one
  (`AttributeError` of an object without `__dict__`, `OverflowError`, `RecursionError`, and at round1:232 `TypeError` of
  an error name that cannot be hashed) leaves `fatal` clear, so that a test that catches it passes and the check
  "RPC failure was caught by a test" (final:396) sees nothing.  `PassedMeansAnswered` counts these responses
  (`escaped`); without them it is violated.  `CleanChannel` holds all the same, since the response has been consumed.
- A suite of exactly `MAX_OPERATIONS` requests is failed: the broker takes the
  end of its loop for an excess (round1:155; `BrokerSpent`).
- One actor serves the whole floor (final:529), where isolated:24 speaks of one for each
  module, so that the actor's lifetime and operations are limits of the floor.
- Only containers reached through items are watched.  One inside an object's
  `__dict__` is not (executor:684-709, 866), but the object's state is sent back, so `MutationSeen` holds;
  the items of a fixture that subclasses a container are compared by nobody.
- A cycle entered by a tuple or frozenset is copied twice (`EnteredByTuple`).
  States come back as fresh containers; what shared a container with them no longer does.
- The audit compares which scoped `AGENTS.md` files there are, not what they say
  (audit:364); it reads workflows and policies from the commit only; and it
  compares with the baseline as it was fetched, which may have moved by the time of the merge.
- A merged migration can be taken back by a later proposal that passes: v1 needs no authorization.
- The limits on nodes and depth are never reached by a legal case.  255 variants make
  256 hostile ids and 512 members of `source_sha256`, each exactly at its limit
  (docs/REFERENCE_CORE.md:55): one more and a case that loads has no record,
  which is what `LoadedCaseSpeaks` checks.

## 6. What is proved

The proofs hold for every value of the constants under the named assumptions of
the modules (`ExecutorAssumption`, `EvidenceAssumption` and so on), which say that
bounds are positive numbers and that the pool has typed evidence.

*Executor.*  The invariant `IndInv` of `ExecutorInvariant` adds to the types what
makes the safety properties inductive.  `OneToken`: for each mailbox, the two semaphores
and the two program counters together hold exactly one token, so a slot is free,
full, or in the hands of one process.  `RequestContent` and `ResponseContent`: what
a full slot holds is determined by where the two processes are, and its generation
is the parent's.  `Bookkeeping` ties the ghosts (issued, executed, answered) to
the program counters.  None of the safety properties is inductive alone: exclusion
needs the token count, the token count needs the program counters of both sides,
and integrity needs all of it.  From it follow `TypeCorrect`, `ExclusionHolds`,
`QuietHolds`, `IntegrityHolds`, `InStepHolds`, `DestroyHolds`, the action property
`OnDemandHolds`, and `Implementation`: every step maps to a step of `Observation`
or to a stutter.  The run `executor` checks the same system on a
small instance.

*Evaluator.*  `EvalInv` is the types together with the binding of a result to the
material it was computed from.  `DecisionsNeverWeaken` and `RecordsAreBound` follow
directly; `EvidenceIsKept` counts members against items (a function with distinct
arguments has as many values); `HardeningIsMonotone` shows that each predicate over
evidence is preserved when members are taken away, as long as some are left.
`SchemaAndCodeAgree` needs both: both codes count distinct sources (core:375-376), the vocabulary
over the raw items; `UniqueSources` says the same pairwise of the parsed ones (`SourcesCount`).  The items
counted map by map are those of the union, since roles keep the parts apart (`EvidenceCount`).

*Supervisor.*  `SupInv` of `SupervisorProofs` adds three parts to the types.
`ReplayInv`: nothing is armed before the check, and from then on the two lists are
one.  `ChildInv` follows the child: the queue is the enumeration while it loads
and every module up to the current one has contributed a case; while it runs, what
was enumerated is what has passed and what is still queued, unless something was
bad; cases counted and cases queued together never exceed the enumeration.  The
last is what makes the count of the judgement (`testsRun = len(identities)`) worth
anything: a failed fixture drops cases that are then never counted.  `ParentInv`
ties the parent's position to the end of the child.  `PassIsEarned` needs all
three; `ReplayKeepsStep`, `OutputIsFinal` and `SupervisorTypes` follow directly.
`ReportCorrect` is about the race of the timeout with the end of the child: `EndInv` says that
a wait that gave up is never followed by a replay, and the step theorem that neither a label nor
the results of a child that ended change afterwards, whatever a descendant, a crash or the clock does.

*Launcher.*  `LaunchInv` adds four parts to the types.  `NamespaceInv` relates the direct
child to what runs inside; `OutputInv` says where each chunk is that was
written, and that a drain that ended has seen the last writer go; `ResultInv` says what
is known once a result is chosen; `CleanupInv` says how far the finally is unless an
exception cut it short.  `SuitePassCorrect` is about the end of a run and rests
on what was learned in the middle: that the child was reaped, then the reader joined,
then everything printed, in this order, with a signal possible between any two.  From the
same invariant follow `ZeroCorrect` and `OrderlyCorrect`.  `ResultCorrect` is about the steps of
the finally: a result gives way to an exception or a kill only, so that no failure becomes a success, and the
scratch directory goes only when the command is dead or its SIGKILL is due.

*Bridge.*  `ChannelInv` of `BridgeProofs` says that there is at most one message between the
two ends, and which: a test or a send finds both pipes empty as long as `fatal` is
open, and whoever waits finds its own request or the reply to it.  This is why
a mismatch of sequence numbers cannot occur, and why latching `fatal` on a timeout is
needed: it is the only thing that excludes a late answer.  `AnswerInv` counts answers and
escaped responses against requests, `DrainInv` balances what
was written to stderr against pipe and drain thread, `CloseInv` is the order of
close across two threads.  From them follow `PassedCorrect`, `ChannelCorrect`,
`FrozenCorrect` and `LifelineCorrect`.  `PassedCorrect` says that nothing but a response with an
exception outside the list can come between what was sent and what was answered: no timeout, no end of
file, no foreign number.  `FrozenCorrect` rests on the check that the reader has ended, since close itself
does not wait.  `BridgeImplements` shows that the worker uses the service
that the executor provides: under a mapping that closes the channel at the first failure, the overflow or
the verdict, every step is a step of `Observation` or a stutter; a response that arrived and escaped is a reply there,
which says nothing about its being accepted.  `FatalInv` is what it needs
beyond `BridgeInv`.  The mapping tells requests apart by their number only, since `Bridge` keeps no
contents; `Implementation` has the contents at the other end.  `FailureFinal` says what latching is for, of two
threads: once one of them has latched a failure, the other takes, writes and answers no request, and
the verdict of the tests stands.

*CliRun.*  `CliInv` of `CliRunProofs`: `FlowInv` says that what was written to a stream
is what was collected followed by what is in its pipe, unless the budget was exceeded;
`EndInv` that a stream the selector dropped is empty and has no writer left, so that nothing
can follow; `AnswerInv` and `ResultInv` carry this to the answer and to the caller.
`OutputCorrect` is the conjunction of all of them at the end of the call: whole and in order for a call that
completed, a beginning for one that timed out, and for the exception that a test can take for the
application's own a stream over its budget or nothing started.  Whatever else goes wrong fails the bridge.
The lemmas on concatenation and prefixes (`MoveChunk`, `AppendChunk`, `AddChunk`, `ConcatPrefix`, `PartPrefix`,
`BeginningPrefix`) are what the steps need of sequences.
`AnswerIsFinal`: once something is decided nothing more is collected and the answer gives way only to a
failure of the wait or of the clean-up; a late answer does not replace the outcome of a timeout; and a group that
is being killed only shrinks, because what has a SIGKILL pending does not fork.  That it comes to
its end is `GroupDies`, a matter of liveness: no step waits for it.

*ConstitutionAudit.*  `AuditInv` of `AuditProofs`.  What the three properties
need beyond themselves is that a passed audit is still
passed at the merge (`VerdictInv`), and that whatever authorization the audit compared
with was once on the baseline.  The work is in what passing means: `PassingKeeps` and
`PassingAuthorized` derive from the checks of `main` what each class of
path may have become, `NoCausePasses` is the converse, that a proposal without any of the causes
fails none of the checks.  They hold for any number of commits and merges.  `MergeCorrect` closes the gap between
check and use: what is merged is the commit that was audited, compared with the baseline it was compared with.
`ProposalsMoveNothing` is what this amounts to over time: as long as only merges move the baseline, `main` still has
what the first baseline protected, however many proposals prepared one another.

*GraphTransport.*  `HandleInv` of `GraphProofs` says which objects live from one request to
the next (those of the table, no more and no fewer), that they are at different addresses, and that
`identities` has just these addresses.  An address in `identities` whose object had died would be
found again under the handle of the dead one; the invariant shows that this
cannot happen although addresses are reused at every request.  The codec is a parameter, so `HandlesCorrect`
holds for whatever it does.  `HandlesLast` is the same of steps: a handle denotes one object for good, and that object
neither dies nor moves.

Each inductive invariant, the second refinement, and each step property that only a theorem states
(`FailureIsFinal`, `ResultStands`, `AnswerFinal`, `MergedAsAudited`, `StillBaseline`, `HandlesStay`, `ReportStands`) was
model-checked on the instance of the module's run before it was proved; no run keeps them, since a proof says more.

Only model-checked, and why:

- All liveness properties, `CallsReturn`, `CliReturns` and `GroupDies` among them: liveness under fairness and `ENABLED` are outside of what the prover does.
- `AliasesPreserved` and `MutationSeen`: they say what the recursive walks of
  `GraphCodec` compute on graphs of any shape, which is induction over data, and a module with
  recursive operators cannot have theorems.
- `OneDomain` and `LoadedCaseSpeaks`: they compare limits that are given numbers, with sizes
  that `Measure` computes recursively; they are facts about these numbers and hold for no others in general.

Every module defines `TypeOK`; the runs do not spend a check on it.  It is proved for `Executor`,
`Supervisor`, `Evaluator`, `Launcher`, `Bridge`, `CliRun` and `ConstitutionAudit`.  The type
of `GraphTransport` depends on its codec.

## 7. Not modelled

Of the modelled parts: contents of frames beyond well-formed or not (in `Executor` and `Bridge`); canonical bytes and digests;
durations; file-system and credential set-up
(one step that succeeds or raises); reuse of process numbers; tests that change
`unittest` itself; JSON syntax, surrogates and integers.  Each has its hazard entry if something can go wrong there.

- *Import-time patching* (`blue_forge/__init__.py`): six installers run in a fixed order and the models
  translate the functions in force after the last.  A reload of the package finds
  its own wrappers in force and keeps them (`_result_provenance_patch.py:105`), which is a step without
  effect; a reload of `core` alone leaves it unpatched, and nothing in the repository does it.
- *Test importer, syntax transformation, subprocess facades and process guards*
  (round1, round2, round3, final): filters from Python values to Python values or
  exceptions, with hardly any state.  What they admit arrives as a request in the models.
- *Per-module enumeration*: superseded by the serial suite and reached by self-tests only.
- *Other workflow jobs and the JSON contracts*: declarations.

## 8. Plan

Order: what a wrong verdict would come from first.

1. *(done)* `Observation`, `Executor` and its proofs; `Bridge`; `Evaluator` and its
   proofs; `Launcher`; `Supervisor` and its proofs.
2. *(done)* `GraphTransport`, `CliRun`, `ConstitutionAudit`, `CaseBudget`.
3. *(done)* An inductive invariant and its proof for `Launcher`, `Bridge`, `CliRun`,
   `ConstitutionAudit` and the handle table of `GraphTransport`; `SchemaAgrees`.
4. *(done)* `Bridge` implements `Observation` as well.
5. *(done)* Theorems about steps where there were only invariants: what is latched (`fatal`,
   `overflow`) stays, an answer, a result or a label once given is not changed, what was audited is what is
   merged, a handle is for good.

Left: both ends at once, a worker whose broker calls the executor, with contents carried through.  Each end implements
`Observation` by itself; that their composition does, would need the two modules in one, with the
request on its way through the broker as their interface.
