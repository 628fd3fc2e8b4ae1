----------------------------- MODULE GraphProofs -----------------------------
(***************************************************************************)
(* Handles denote objects, for every codec, every set of addresses and a   *)
(* table of any size.  The argument is about the time at which an object   *)
(* may die: identities finds an object by its address, so the table must   *)
(* keep alive exactly the objects whose addresses it holds.                *)
(***************************************************************************)
EXTENDS GraphTransport, TLAPS

(* The table names objects that were made, each of them once.              *)
TableInv ==
  /\ born \in Nat
  /\ handles \in Seq(1 .. born) /\ Len(handles) <= MaxHandles
  /\ \A j, k \in DOMAIN handles : handles[j] = handles[k] => j = k

(* The objects that live from one request to the next are those of the     *)
(* table, at different addresses, and identities has just these addresses, *)
(* each with the handle of the object that is there.                       *)
AddressInv ==
  /\ DOMAIN live = {handles[k] : k \in DOMAIN handles}
  /\ \A o, p \in DOMAIN live : live[o] = live[p] => o = p
  /\ DOMAIN identities = {live[o] : o \in DOMAIN live}
  /\ \A o \in DOMAIN live : /\ identities[live[o]] \in DOMAIN handles
                            /\ handles[identities[live[o]]] = o

(* What the worker was told of a handle, and is being told, is the table's *)
(* entry.                                                                  *)
Told(h, o) == h \in DOMAIN handles /\ handles[h] = o
KnownInv ==
  /\ \A k \in known : Told(k[1], k[2])
  /\ pc = "answered" /\ response.outcome = "handle" =>
       Told(response.handle, response.object)

HandleInv == TableInv /\ AddressInv /\ KnownInv

(* A handle stays given for its object, and that object where it is: a     *)
(* later request reaches the same one.                                     *)
Stays == \A h \in DOMAIN handles :
           /\ h \in DOMAIN handles' /\ handles'[h] = handles[h]
           /\ handles[h] \in DOMAIN live'
           /\ live'[handles[h]] = live[handles[h]]
HandlesStay == [][Stays]_vars

-----------------------------------------------------------------------------
(* Entries of the table are told apart, so the invariant says what handles *)
(* must denote.                                                            *)
LEMMA HandlesIdentify == HandleInv => HandleIdentity
  <1> SUFFICES ASSUME HandleInv PROVE HandleIdentity
    OBVIOUS
  <1>1. OneToOne(known)
    <2> SUFFICES ASSUME NEW p \in known, NEW q \in known
                 PROVE  p[1] = q[1] <=> p[2] = q[2]
      BY DEF OneToOne
    <2>1. Told(p[1], p[2]) /\ Told(q[1], q[2])
      BY DEF HandleInv, KnownInv
    <2> QED
      BY <2>1 DEF HandleInv, TableInv, Told
  <1>2. \A k \in known : handles[k[1]] = k[2] /\ k[2] \in DOMAIN live
    BY DEF HandleInv, KnownInv, AddressInv, Told
  <1> QED
    BY <1>1, <1>2 DEF HandleIdentity, HandleInv, TableInv

(* An object that has a handle is given that handle again.                 *)
LEMMA HandOld ==
  ASSUME HandleInv, NEW o \in DOMAIN live, Hand(o, live[o]),
         UNCHANGED <<born, known>>
  PROVE  HandleInv' /\ Stays
  <1>1. live[o] \in DOMAIN identities
    BY DEF HandleInv, AddressInv
  <1>2. /\ Answer("handle", identities[live[o]], o)
        /\ UNCHANGED <<identities, handles, live>>
    BY <1>1 DEF Hand
  <1>3. Told(identities[live[o]], o)
    BY DEF HandleInv, AddressInv, Told
  <1>4. TableInv' /\ AddressInv'
    <2>1. TableInv'
      BY <1>2 DEF HandleInv, TableInv
    <2>2. AddressInv'
      BY <1>2 DEF HandleInv, AddressInv
    <2> QED
      BY <2>1, <2>2
  <1>5. KnownInv'
    BY <1>2, <1>3 DEF HandleInv, KnownInv, Told, Answer
  <1>6. Stays
    BY <1>2 DEF HandleInv, AddressInv, Stays
  <1> QED
    BY <1>4, <1>5, <1>6 DEF HandleInv

(* A new object at an address that no living object has is unknown to the  *)
(* table: it gets a handle of its own and stays, or the executor ends.     *)
LEMMA HandNew ==
  ASSUME HandleInv, NEW a, a \notin {live[o] : o \in DOMAIN live},
         Hand(born + 1, a), born' = born + 1, UNCHANGED known
  PROVE  HandleInv' /\ Stays
  <1> DEFINE new == born + 1
             n == Len(handles) + 1
  <1>1. /\ born \in Nat /\ handles \in Seq(1 .. born)
        /\ DOMAIN handles = 1 .. Len(handles) /\ Len(handles) \in Nat
        /\ \A k \in DOMAIN handles : handles[k] \in 1 .. born
    BY DEF HandleInv, TableInv
  <1>2. a \notin DOMAIN identities
    BY DEF HandleInv, AddressInv
  <1>3. CASE TableFull
    <2>1. pc' = "fatal" /\ UNCHANGED <<response, identities, handles, live>>
      BY <1>2, <1>3 DEF Hand
    <2>2. TableInv'
      BY <1>1, <2>1 DEF HandleInv, TableInv
    <2>3. AddressInv' /\ KnownInv'
      BY <2>1 DEF HandleInv, AddressInv, KnownInv, Told
    <2>4. Stays
      BY <2>1 DEF HandleInv, AddressInv, Stays
    <2> QED
      BY <2>2, <2>3, <2>4 DEF HandleInv
  <1>4. CASE ~TableFull
    <2>1. /\ Answer("handle", n, new)
          /\ identities' = Put(identities, a, n)
          /\ handles' = Append(handles, new)
          /\ live' = Restrict(Put(live, new, a),
                              Held(handles') \cap ({new} \cup DOMAIN live))
      BY <1>2, <1>4 DEF Hand
    <2>2. /\ handles' \in Seq(1 .. new) /\ Len(handles') = n
          /\ DOMAIN handles' = DOMAIN handles \cup {n} /\ n \notin DOMAIN handles
          /\ handles'[n] = new
          /\ \A k \in DOMAIN handles : handles'[k] = handles[k]
      BY <1>1, <2>1
    <2>3. /\ new \notin DOMAIN live
          /\ \A k \in DOMAIN handles : handles[k] # new
      BY <1>1 DEF HandleInv, AddressInv
    <2>4. TableInv'
      <3>1. Len(handles) < MaxHandles
        BY <1>1, <1>4, GraphAssumption DEF HandleInv, TableInv, TableFull
      <3>2. \A j, k \in DOMAIN handles' : handles'[j] = handles'[k] => j = k
        BY <2>2, <2>3 DEF HandleInv, TableInv
      <3> QED
        BY <1>1, <2>2, <3>1, <3>2, GraphAssumption DEF TableInv
    <2>5. Held(handles') = DOMAIN live \cup {new}
      BY <2>2 DEF Held, Range, HandleInv, AddressInv
    <2>6. /\ DOMAIN live' = DOMAIN live \cup {new}
          /\ live'[new] = a /\ \A o \in DOMAIN live : live'[o] = live[o]
      BY <2>1, <2>3, <2>5 DEF Restrict, Put
    <2>7. /\ DOMAIN identities' = DOMAIN identities \cup {a}
          /\ identities'[a] = n
          /\ \A b \in DOMAIN identities : identities'[b] = identities[b]
      BY <1>2, <2>1 DEF Put
    <2>8. AddressInv'
      <3>1. DOMAIN live' = {handles'[k] : k \in DOMAIN handles'}
        BY <2>2, <2>6 DEF HandleInv, AddressInv
      <3>2. \A o, p \in DOMAIN live' : live'[o] = live'[p] => o = p
        BY <2>6 DEF HandleInv, AddressInv
      <3>3. DOMAIN identities' = {live'[o] : o \in DOMAIN live'}
        BY <2>6, <2>7 DEF HandleInv, AddressInv
      <3>4. \A o \in DOMAIN live' : /\ identities'[live'[o]] \in DOMAIN handles'
                                    /\ handles'[identities'[live'[o]]] = o
        BY <2>2, <2>6, <2>7 DEF HandleInv, AddressInv
      <3> QED
        BY <3>1, <3>2, <3>3, <3>4 DEF AddressInv
    <2>9. KnownInv'
      BY <2>1, <2>2 DEF HandleInv, KnownInv, Told, Answer
    <2>10. Stays
      BY <2>2, <2>6 DEF HandleInv, AddressInv, Stays
    <2> QED
      BY <2>4, <2>8, <2>9, <2>10 DEF HandleInv
  <1> QED
    BY <1>3, <1>4

(* The table starts empty.                                                 *)
LEMMA HandleInit == Init => HandleInv
  <1> SUFFICES ASSUME Init PROVE HandleInv
    OBVIOUS
  <1>1. /\ live = <<>> /\ identities = <<>> /\ handles = <<>> /\ born = 0
        /\ known = {} /\ pc = "test"
    BY DEF Init, Empty
  <1>2. TableInv
    BY <1>1, GraphAssumption DEF TableInv
  <1>3. AddressInv /\ KnownInv
    BY <1>1 DEF AddressInv, KnownInv
  <1> QED
    BY <1>2, <1>3 DEF HandleInv

(* Only an answer touches the table, and only Apply what the worker knows: *)
(* each step keeps the invariant and the entries there are.                *)
LEMMA HandleNext == HandleInv /\ [Next]_vars => HandleInv' /\ Stays
  <1> SUFFICES ASSUME HandleInv, [Next]_vars PROVE HandleInv' /\ Stays
    OBVIOUS
  <1>1. ASSUME UNCHANGED <<tableVars, known>>,
               \/ pc' # "answered"
               \/ UNCHANGED <<pc, response>>
               \/ response'.outcome # "handle"
        PROVE  HandleInv' /\ Stays
    <2>1. UNCHANGED <<born, live, identities, handles, known>>
      BY <1>1 DEF tableVars
    <2>2. TableInv'
      BY <2>1 DEF HandleInv, TableInv
    <2>3. AddressInv'
      BY <2>1 DEF HandleInv, AddressInv
    <2>4. KnownInv'
      BY <1>1, <2>1 DEF HandleInv, KnownInv, Told
    <2>5. Stays
      BY <2>1 DEF HandleInv, AddressInv, Stays
    <2> QED
      BY <2>2, <2>3, <2>4, <2>5 DEF HandleInv
  <1>2. CASE Send
    BY <1>1, <1>2 DEF Send
  <1>3. CASE Receive
    BY <1>1, <1>3 DEF Receive
  <1>4. CASE Edit
    BY <1>1, <1>4 DEF Edit
  <1>5. CASE Refuse
    BY <1>1, <1>5 DEF Refuse, AtAnswer
  <1>6. CASE AnswerPlain
    BY <1>1, <1>6 DEF AnswerPlain, AtAnswer, Answer
  <1>7. CASE AnswerOld
    BY <1>7, HandOld DEF AnswerOld, AtAnswer
  <1>8. CASE AnswerNew
    BY <1>8, HandNew DEF AnswerNew, AtAnswer, Range
  <1>9. CASE Apply
    <2>1. /\ UNCHANGED tableVars /\ pc' # "answered"
          /\ \A k \in known' :
               \/ k \in known
               \/ /\ pc = "answered" /\ response.outcome = "handle"
                  /\ k = <<response.handle, response.object>>
      BY <1>9 DEF Apply
    <2>2. \A k \in known' : Told(k[1], k[2])
      BY <2>1 DEF HandleInv, KnownInv
    <2>3. UNCHANGED <<born, live, identities, handles>>
      BY <2>1 DEF tableVars
    <2>4. TableInv'
      BY <2>3 DEF HandleInv, TableInv
    <2>5. AddressInv'
      BY <2>3 DEF HandleInv, AddressInv
    <2>6. KnownInv'
      BY <2>1, <2>2, <2>3 DEF KnownInv, Told
    <2>7. Stays
      BY <2>3 DEF HandleInv, AddressInv, Stays
    <2> QED
      BY <2>4, <2>5, <2>6, <2>7 DEF HandleInv
  <1>10. CASE Continue
    BY <1>1, <1>10 DEF Continue
  <1>11. CASE Stop \/ UNCHANGED vars
    BY <1>1, <1>11 DEF Stop, vars
  <1> QED
    BY <1>2, <1>3, <1>4, <1>5, <1>6, <1>7, <1>8, <1>9, <1>10, <1>11 DEF Next

(* The invariant of the handle table holds in every reachable state, with  *)
(* whatever codec the session runs.                                        *)
THEOREM HandleInvariant == Spec => []HandleInv
  <1>1. HandleInv /\ [Next]_vars => HandleInv'
    BY HandleNext
  <1> QED
    BY <1>1, HandleInit, PTL DEF Spec

(* Two results have the same handle exactly if they were one object, and   *)
(* what a handle was given for stays alive (_bf_result keeps objects in    *)
(* handles and finds them by id()).                                        *)
THEOREM HandlesCorrect == Spec => []HandleIdentity
  BY HandleInvariant, HandlesIdentify, PTL

(* A handle once in the table is for good: no later result takes it, and   *)
(* the object that it denotes neither dies nor moves, so that what the     *)
(* worker keeps from one request is the same object in the next.           *)
THEOREM HandlesLast == Spec => HandlesStay
  <1>1. HandleInv /\ [Next]_vars => [Stays]_vars
    BY HandleNext
  <1> QED
    BY <1>1, HandleInvariant, PTL DEF Spec, HandlesStay
=============================================================================
