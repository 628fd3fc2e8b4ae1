---------------------------- MODULE GraphTransport ----------------------------
(***************************************************************************)
(* The arguments of a request.  The worker numbers the objects its         *)
(* arguments reach (_GraphEncoder), the executor builds a copy of them     *)
(* (decode_graph), runs the proposed operation on the copy, compares the   *)
(* exact containers with what they were, and sends back the state of the   *)
(* fixture objects, which the worker puts in the place of theirs.  A       *)
(* result that is no plain value stays with the executor under a handle.   *)
(* The frames themselves are Executor's and Bridge's business.             *)
(*                                                                         *)
(* How graphs are written and read is a parameter here, and GraphCodec     *)
(* translates the code that does it: what handles denote does not depend   *)
(* on it.                                                                  *)
(***************************************************************************)
EXTENDS Naturals, FiniteSets, Sequences, Functions, SequencesExt

CONSTANTS MaxRequests,   \* bound of the model: requests of the worker
          MaxEdits,      \* bound of the model: changes made by an operation
          Addresses,     \* what id() may return in the executor
          MaxHandles     \* MAX_GRAPH_NODES, as the limit of the handle table

CONSTANTS Graphs,        \* the worker's objects and arguments to begin with
          Memo(_, _), Encode(_, _),     \* _GraphEncoder: numbering, request
          Decode(_),                    \* decode_graph
          DataIndices(_),               \* _bf_argument_data_indices
          ExportState(_, _),            \* encode_data of one object's state
          ApplyStates(_, _, _, _)       \* decode_data and update of states

ASSUME GraphAssumption ==
  /\ {MaxRequests, MaxHandles} \subseteq Nat \ {0}
  /\ MaxEdits \in Nat /\ IsFiniteSet(Addresses)

-----------------------------------------------------------------------------
(* A value is a scalar or a reference to an object of some heap.  A heap   *)
(* is a sequence of objects.  "list" stands for the exact dict, list and   *)
(* set, "tuple" for tuple and frozenset, "fixture" for an instance of a    *)
(* subclass of a container with a __dict__ of its own, "object" for any    *)
(* other instance.  state is the __dict__, which nothing else refers to.   *)
Scalar(s) == <<"scalar", s>>
Node(i) == <<"node", i>>
Remote(h) == <<"remote", h>>               \* a handle the worker holds
IsNode(v) == v[1] = "node"
Exact == {"list", "tuple"}
Mutable == {"list", "fixture", "object"}
HasState == {"fixture", "object"}
Object(kind, items, state) == [kind |-> kind, items |-> items, state |-> state]
Children(x) == x.items \o x.state
Unexportable == <<"error", 0>>

VARIABLES
  pc,              \* where the request is
  requests,        \* requests made
  heap, args,      \* the worker's objects, and the arguments of the call
  memo, wire,      \* the encoder's numbering, and the request it yields
  cells, cache,    \* the executor's copy, and its decoder's table
  copies, edits,   \* the arguments of the operation; changes it has made
  signature,       \* the exact containers before the operation
  response,        \* what the executor answers
  live,            \* address of every object the executor keeps
  identities, handles,   \* id() -> handle, and handle -> object
  born, known      \* ghosts: objects made; what the worker's handles denote

graphVars == <<memo, wire, cells, cache, copies, edits, signature>>
tableVars == <<live, identities, handles, born>>
vars == <<pc, requests, heap, args, graphVars, response, tableVars, known>>

Empty == <<>>
(* A dict after f[x] = v.                                                  *)
Put(f, x, v) == [y \in DOMAIN f \cup {x} |-> IF y = x THEN v ELSE f[y]]
NoResponse == [outcome |-> "none", handle |-> 0, object |-> 0, states |-> Empty]

-----------------------------------------------------------------------------
(* The keys of sync split: watched containers and fixtures with a state.   *)
Watched(w) == {k \in w.sync : w.nodes[k].kind = "list"} \cap DataIndices(w)
StateSync(w) == {k \in w.sync : w.nodes[k].kind \in HasState}
(* _container_signature: the elements, those that are no scalars by id.    *)
Signatures(w, cs, cch) == [k \in Watched(w) |-> cs[cch[k]].items]

-----------------------------------------------------------------------------
Init ==
  /\ pc = "test" /\ requests = 0
  /\ \E g \in Graphs : heap = g.heap /\ args = g.args
  /\ memo = Empty /\ wire = Empty /\ cells = Empty /\ cache = Empty
  /\ copies = Empty /\ edits = 0 /\ signature = Empty
  /\ response = NoResponse
  /\ live = Empty /\ identities = Empty /\ handles = <<>> /\ born = 0
  /\ known = {}

(* _hardened_request up to _exchange.                                      *)
Send ==
  /\ pc = "test" /\ requests < MaxRequests
  /\ pc' = "sent" /\ requests' = requests + 1
  /\ memo' = Memo(heap, args) /\ wire' = Encode(heap, args)
  /\ UNCHANGED <<heap, args, cells, cache, copies, edits, signature, response,
                 tableVars, known>>

(* _bf_process_one up to the operation.                                    *)
Receive ==
  /\ pc = "sent" /\ pc' = "received"
  /\ LET d == Decode(wire)
     IN /\ cells' = d.cells /\ cache' = d.cache /\ copies' = d.out
        /\ signature' = Signatures(wire, d.cells, d.cache)
  /\ UNCHANGED <<requests, heap, args, memo, wire, edits, response, tableVars,
                 known>>

(* The proposed operation changes a list, or an attribute of an object.    *)
Changes(s) == {Append(s, Scalar(1)), Reverse(s)}
                \cup {Append(s, Node(c)) : c \in DOMAIN cells}
                \cup (IF s = <<>> THEN {} ELSE {Tail(s)})
Edit ==
  /\ pc = "received" /\ edits < MaxEdits /\ edits' = edits + 1
  /\ \E c \in DOMAIN cells :
       \/ /\ cells[c].kind \in {"list", "fixture"}
          /\ \E s \in Changes(cells[c].items) :
               cells' = [cells EXCEPT ![c].items = s]
       \/ /\ cells[c].kind \in HasState
          /\ \E s \in Changes(cells[c].state) :
               cells' = [cells EXCEPT ![c].state = s]
  /\ UNCHANGED <<pc, requests, heap, args, memo, wire, cache, copies,
                 signature, response, tableVars, known>>

(* The checks and exports of _bf_process_one after the operation.          *)
Mutated == \E k \in DOMAIN signature : cells[cache[k]].items # signature[k]
States == [k \in StateSync(wire) |-> ExportState(cells, cache[k])]
Answerable == ~Mutated /\ Unexportable \notin Range(States)
Answer(outcome, handle, object) ==
  /\ pc' = "answered"
  /\ response' = [outcome |-> outcome, handle |-> handle, object |-> object,
                  states |-> States]
AtAnswer == /\ pc = "received"
            /\ UNCHANGED <<requests, heap, args, graphVars, known>>

(* RuntimeError or SupervisionFailure: the executor ends.                  *)
Refuse == /\ AtAnswer /\ ~Answerable /\ pc' = "fatal"
          /\ UNCHANGED <<response, tableVars>>

(* The operation raised an exception, one that _bf_exception_key knows or  *)
(* one that it does not, or its result is a plain value.                   *)
AnswerPlain == /\ AtAnswer /\ Answerable
               /\ \E o \in {"data", "error", "unknown"} : Answer(o, 0, 0)
               /\ UNCHANGED tableVars

(* What keeps an object alive, and with it its address out of use.         *)
HeldByNobody(table) == {}                  \* mutant: a table of weak references
Held(table) == Range(table)

TableOver == Len(handles) > MaxHandles     \* mutant: one too many
TableFull == Len(handles) = MaxHandles

(* _bf_result: object o at address a gets the handle that its id has, or a *)
(* new one.  Its other locals gone, the executor keeps what has a handle.  *)
Hand(o, a) ==
  IF a \in DOMAIN identities
    THEN /\ Answer("handle", identities[a], o)
         /\ UNCHANGED <<identities, handles, live>>
    ELSE IF TableFull
    THEN pc' = "fatal" /\ UNCHANGED <<response, identities, handles, live>>
    ELSE /\ Answer("handle", Len(handles) + 1, o)
         /\ identities' = Put(identities, a, Len(handles) + 1)
         /\ handles' = Append(handles, o)
         /\ live' = Restrict(Put(live, o, a),
                             Held(handles') \cap ({o} \cup DOMAIN live))

(* The result is an object the executor had kept.                          *)
AnswerOld == /\ AtAnswer /\ Answerable
             /\ \E o \in DOMAIN live : Hand(o, live[o])
             /\ UNCHANGED born

(* The result is an object made during this request, a copy of an argument *)
(* included; its address is any that no living object has.                 *)
AnswerNew == /\ AtAnswer /\ Answerable
             /\ \E a \in Addresses \ Range(live) : Hand(born + 1, a)
             /\ born' = born + 1

(* The rest of _hardened_request: states first, then result or exception.  *)
Apply ==
  /\ pc = "answered"
  /\ heap' = ApplyStates(heap, memo, response.states, DOMAIN response.states)
  /\ pc' = IF response.outcome = "unknown" THEN "fatal" ELSE "settled"
  /\ known' = IF response.outcome = "handle"
                THEN known \cup {<<response.handle, response.object>>} ELSE known
  /\ UNCHANGED <<requests, args, graphVars, response, tableVars>>

(* The test goes on, with a remote object as its next argument or none.    *)
Continue ==
  /\ pc = "settled" /\ pc' = "test"
  /\ heap' = <<>>
  /\ args' \in {<<>>} \cup {<<Remote(k[1])>> : k \in known}
  /\ memo' = Empty /\ wire' = Empty /\ cells' = Empty /\ cache' = Empty
  /\ copies' = Empty /\ edits' = 0 /\ signature' = Empty
  /\ response' = NoResponse
  /\ UNCHANGED <<requests, tableVars, known>>

Stop == /\ pc = "fatal" \/ (pc = "test" /\ requests = MaxRequests)
        /\ UNCHANGED vars

Next == \/ Send \/ Receive \/ Edit \/ Refuse \/ AnswerPlain
        \/ AnswerOld \/ AnswerNew \/ Apply \/ Continue \/ Stop

Spec == Init /\ [][Next]_vars

-----------------------------------------------------------------------------
(* The variables have their types.                                         *)
TypeOK ==
  /\ pc \in {"test", "sent", "received", "answered", "settled", "fatal"}
  /\ requests \in 0 .. MaxRequests /\ edits \in 0 .. MaxEdits
  /\ \A h \in {heap, cells} : \A k \in DOMAIN h :
       h[k].kind \in Exact \cup HasState
  /\ DOMAIN cache \subseteq DOMAIN memo /\ Range(cache) \subseteq DOMAIN cells
  /\ DOMAIN signature \subseteq DOMAIN cache
  /\ Range(live) \cup DOMAIN identities \subseteq Addresses

OneToOne(R) == \A p, q \in R : p[1] = q[1] <=> p[2] = q[2]

(* Handles are identity: two results of whatever requests have the same    *)
(* handle if and only if they were the same object, although id() is used  *)
(* again, and the executor takes a handle for the object it was given for. *)
(* The table stays within its limit.                                       *)
HandleIdentity ==
  /\ OneToOne(known) /\ Len(handles) <= MaxHandles
  /\ \A k \in known : handles[k[1]] = k[2] /\ k[2] \in DOMAIN live
=============================================================================
