------------------------------ MODULE GraphCodec ------------------------------
(***************************************************************************)
(* The codec of GraphTransport: how the worker numbers and encodes a graph *)
(* of objects, how the executor decodes it, which containers are watched,  *)
(* and how states travel back.  With it come the graphs that TLC starts    *)
(* from, and what the two ends owe each other.                             *)
(***************************************************************************)
EXTENDS GraphTransport, FiniteSetsExt

CONSTANTS MaxNodes,      \* bound of the model: objects the arguments reach
          MaxLinks,      \* bound of the model: references of all objects
          MaxDepth       \* the nesting that encode_data accepts

ASSUME CodecAssumption == {MaxNodes, MaxLinks, MaxDepth} \subseteq Nat \ {0}

-----------------------------------------------------------------------------
(* _GraphEncoder.encode: depth first, an object once.  The sequence of the *)
(* objects in the order of their numbers stands for the memo.              *)
RECURSIVE Number(_, _, _)
Number(h, todo, seen) ==
  IF todo = <<>> THEN seen
  ELSE LET v == Head(todo)
       IN IF IsNode(v) /\ ~Contains(seen, v[2])
            THEN Number(h, Children(h[v[2]]) \o Tail(todo), Append(seen, v[2]))
            ELSE Number(h, Tail(todo), seen)

Numbering(h, vs) == Number(h, vs, <<>>)

IndexIn(s, x) == CHOOSE k \in DOMAIN s : s[k] = x
Renumber(seen, vs) ==
  [k \in DOMAIN vs |->
     IF IsNode(vs[k]) THEN Node(IndexIn(seen, vs[k][2])) ELSE vs[k]]

EncodeGraph(h, vs) ==
  LET seen == Numbering(h, vs)
      Encoded(x) == Object(x.kind, Renumber(seen, x.items), Renumber(seen, x.state))
  IN [nodes |-> [k \in DOMAIN seen |-> Encoded(h[seen[k]])],
      arguments |-> Renumber(seen, vs),
      sync |-> {k \in DOMAIN seen : h[seen[k]].kind \in Mutable}]

-----------------------------------------------------------------------------
(* decode_graph.  d holds the objects built so far and the table of those  *)
(* that may be referred to.  A mutable object enters the table before its  *)
(* children are decoded, an immutable one can only do so afterwards.       *)
EnterMutable(d, k, c, kind) ==             \* mutant: tuples are not shared
  IF kind \in Mutable THEN [d EXCEPT !.cache = Put(@, k, c)] ELSE d

Enter(d, k, c, kind) == [d EXCEPT !.cache = Put(@, k, c)]

RECURSIVE DecodeAll(_, _, _)
DecodeAll(vs, nodes, d) ==
  IF vs = <<>> THEN [d EXCEPT !.out = <<>>]
  ELSE LET v == Head(vs)
           Then(w, e) == LET rest == DecodeAll(Tail(vs), nodes, e)
                         IN [rest EXCEPT !.out = <<w>> \o @]
       IN IF ~IsNode(v) THEN Then(v, d)
          ELSE IF v[2] \in DOMAIN d.cache THEN Then(Node(d.cache[v[2]]), d)
          ELSE LET k == v[2]
                   x == nodes[k]
               IN IF x.kind \in Mutable
                  THEN LET c == Len(d.cells) + 1
                           d0 == Enter([d EXCEPT !.cells = Append(@, Object(x.kind, <<>>, <<>>))],
                                       k, c, x.kind)
                           d1 == DecodeAll(x.items, nodes, d0)
                           d2 == DecodeAll(x.state, nodes, d1)
                       IN Then(Node(c), [d2 EXCEPT !.cells[c] =
                                           Object(x.kind, d1.out, d2.out)])
                  ELSE LET d1 == DecodeAll(x.items, nodes, d)
                           c == Len(d1.cells) + 1
                           d2 == [d1 EXCEPT !.cells =
                                    Append(@, Object(x.kind, d1.out, <<>>))]
                       IN Then(Node(c), Enter(d2, k, c, x.kind))

DecodeGraph(w) == DecodeAll(w.arguments, w.nodes,
                            [cells |-> <<>>, cache |-> Empty, out |-> <<>>])

(* _bf_argument_data_indices: what the arguments reach through items; the  *)
(* state of an object is not followed.                                     *)
NodesOf(vs) == {v[2] : v \in {u \in Range(vs) : IsNode(u)}}
ArgumentsOnly(w) == NodesOf(w.arguments)   \* mutant: the outermost containers
RECURSIVE Spread(_, _)
Spread(nodes, found) ==
  LET more == found \cup UNION {NodesOf(nodes[k].items) : k \in found}
  IN IF more = found THEN found ELSE Spread(nodes, more)
ArgumentDataIndices(w) == Spread(w.nodes, NodesOf(w.arguments))

-----------------------------------------------------------------------------
(* encode_data and decode_data: exact builtin data as a tree.              *)
RECURSIVE Export(_, _, _)
Export(h, v, depth) ==
  IF depth > MaxDepth THEN Unexportable
  ELSE IF ~IsNode(v) THEN v
  ELSE IF h[v[2]].kind \notin Exact THEN Unexportable
  ELSE LET kids == [j \in DOMAIN h[v[2]].items |->
                      Export(h, h[v[2]].items[j], depth + 1)]
       IN IF Contains(kids, Unexportable) THEN Unexportable
          ELSE <<h[v[2]].kind, kids>>

EncodeState(cs, c) ==
  LET kids == [j \in DOMAIN cs[c].state |-> Export(cs, cs[c].state[j], 1)]
  IN IF Contains(kids, Unexportable) THEN Unexportable ELSE <<"state", kids>>

(* The worker builds fresh containers for every container of the tree.     *)
RECURSIVE Import(_, _)
Import(h, trees) ==                        \* [heap |-> ..., out |-> values]
  IF trees = <<>> THEN [heap |-> h, out |-> <<>>]
  ELSE LET t == Head(trees)
           rest == Import(h, Tail(trees))
       IN IF t[1] = "scalar" THEN [rest EXCEPT !.out = <<t>> \o @]
          ELSE LET inner == Import(rest.heap, t[2])
               IN [heap |-> Append(inner.heap, Object(t[1], inner.out, <<>>)),
                   out |-> <<Node(Len(inner.heap) + 1)>> \o rest.out]

(* target.clear() and target.update(decoded), for every state in turn.     *)
RECURSIVE UpdateStates(_, _, _, _)
UpdateStates(h, seen, states, keys) ==
  IF keys = {} THEN h
  ELSE LET k == Min(keys)
           got == Import(h, states[k][2])
       IN UpdateStates([got.heap EXCEPT ![seen[k]].state = got.out],
                       seen, states, keys \ {k})

-----------------------------------------------------------------------------
(* The worker's heaps: up to MaxNodes objects, all of them reached by the  *)
(* arguments and called by their numbers, which excludes no shape.         *)
Values(n) == {Scalar(0)} \cup {Node(i) : i \in 1 .. n}
Shapes(n) == LET V == Values(n) IN
  [kind : Exact, items : SeqOf(V, 2), state : {<<>>}]
    \cup [kind : {"object"}, items : {<<>>}, state : SeqOf(V, 2)]
    \cup [kind : {"fixture"}, items : SeqOf(V, 1), state : SeqOf(V, 1)]
(* No tuple contains itself but by way of an object made before it.        *)
TuplesOf(h, ids) == {i \in ids : h[i].kind = "tuple"}
RECURSIVE Inside(_, _)
Inside(h, found) ==
  LET more == found \cup TuplesOf(h, UNION {NodesOf(h[i].items) : i \in found})
  IN IF more = found THEN found ELSE Inside(h, more)
Constructible(h) ==
  \A t \in TuplesOf(h, DOMAIN h) : t \notin Inside(h, TuplesOf(h, NodesOf(h[t].items)))
Links(h) == FoldSeq(LAMBDA x, n : n + Len(Children(x)), 0, h)
Arguments(n) == {<<Node(1)>>} \cup (IF n > 1 THEN {<<Node(1), Node(2)>>} ELSE {})
SmallGraphs == UNION {
  {g \in [heap : [1 .. n -> Shapes(n)], args : Arguments(n)] :
     /\ Links(g.heap) <= MaxLinks
     /\ Constructible(g.heap)
     /\ Numbering(g.heap, g.args) = [k \in 1 .. n |-> k]} : n \in 1 .. MaxNodes}

-----------------------------------------------------------------------------
(* Comparison of two heaps.  Meet: the references that the same path leads *)
(* to, from the given values on.                                           *)
Seen(x, fixtures) == IF x.kind = "fixture" /\ ~fixtures THEN x.state
                     ELSE Children(x)
RECURSIVE Meet(_, _, _, _)
Meet(h, g, fixtures, pairs) ==
  LET Below(p) == LET a == Seen(h[p[1][2]], fixtures)
                      b == Seen(g[p[2][2]], fixtures)
                  IN {<<a[j], b[j]>> : j \in DOMAIN a \cap DOMAIN b}
      more == pairs \cup UNION {Below(p) :
                p \in {q \in pairs : IsNode(q[1]) /\ IsNode(q[2])}}
  IN IF more = pairs THEN pairs ELSE Meet(h, g, fixtures, more)

Agree(h, g, fixtures, p) ==
  IF IsNode(p[1]) /\ IsNode(p[2])
    THEN LET x == h[p[1][2]]
             y == g[p[2][2]]
         IN /\ x.kind = y.kind
            /\ Len(Seen(x, fixtures)) = Len(Seen(y, fixtures))
            /\ fixtures => Len(x.items) = Len(y.items)
    ELSE p[1] = p[2]

(* The decoder is inside an immutable object when it meets it again: only  *)
(* objects numbered later lie on the way.                                  *)
RECURSIVE LaterFrom(_, _, _)
LaterFrom(nodes, t, found) ==
  LET more == found \cup {j \in UNION {NodesOf(Children(nodes[k])) : k \in found} :
                            j >= t}
  IN IF more = found THEN found ELSE LaterFrom(nodes, t, more)
EnteredByTuple(w) ==
  \E t \in DOMAIN w.nodes :
    /\ w.nodes[t].kind = "tuple"
    /\ t \in LaterFrom(w.nodes, t, {j \in NodesOf(w.nodes[t].items) : j >= t})

(* The operation receives what the worker passed: the same objects of the  *)
(* same kinds with the same elements, shared wherever they were shared,    *)
(* cycles included, unless a cycle is entered by a tuple or frozenset,     *)
(* which then is copied twice.                                             *)
AliasesPreserved ==
  pc = "received" /\ edits = 0 =>
    LET both == Meet(heap, cells, TRUE,
                     {<<args[j], copies[j]>> : j \in DOMAIN args})
    IN /\ \A p \in both : Agree(heap, cells, TRUE, p)
       /\ EnteredByTuple(wire) \/ OneToOne(both)

(* A change that the operation made to its arguments never goes unnoticed: *)
(* once a request is settled, with a result or an exception, what the      *)
(* worker reaches through its arguments has the elements and attributes    *)
(* that the copy has.  What is excepted are the elements of fixtures,      *)
(* which nobody compares.                                                  *)
MutationSeen ==
  pc = "settled" =>
    \A p \in Meet(heap, cells, FALSE,
                  {<<Node(memo[k]), Node(cache[k])>> :
                     k \in Spread(wire.nodes, NodesOf(wire.arguments))}) :
      Agree(heap, cells, FALSE, p)
=============================================================================
