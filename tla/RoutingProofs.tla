--------------------------- MODULE RoutingProofs ---------------------------
(***************************************************************************)
(* What Routing does for every set of nodes, every number of requests and  *)
(* every number of attempts: its types, the even spread of the             *)
(* connections, and the fail-over of a request nobody disturbs.            *)
(***************************************************************************)
EXTENDS Routing, Integers, FiniteSetTheorems, TLAPS

-----------------------------------------------------------------------------
(* Arithmetic of a counter reduced modulo the length of the list.          *)

(* A counter is a number of full rounds plus an entry of the list, the one *)
(* selectNode indexes with.                                                *)
LEMMA Euclid ==
    ASSUME NEW r \in Nat, NEW L \in Nat \ {0}
    PROVE  /\ r % L \in 0 .. L-1
           /\ r \div L \in Nat
           /\ r = L * (r \div L) + (r % L)
BY SMT

(* Different multiples of the length are at least one length apart.        *)
LEMMA NextMultiple ==
    ASSUME NEW L \in Nat \ {0}, NEW p \in Int, NEW q \in Int, p < q
    PROVE  L * p + L <= L * q
<1>1. PICK d \in Nat : q = p + 1 + d
  <2>1. q - p - 1 \in Nat /\ q = p + 1 + (q - p - 1)
    BY SMT
  <2> QED
    BY <2>1
<1>2. L * q = L * p + L + L * d
  BY <1>1, SMT
<1>3. L * d \in Nat
  BY <1>1, SMT
<1>4. L * p \in Int
  BY SMT
<1> QED
  BY <1>2, <1>3, <1>4, SMT

(* The entry a counter stands at is determined by its value.               *)
LEMMA UniqueRemainder ==
    ASSUME NEW L \in Nat \ {0}, NEW p \in Int, NEW q \in Int,
           NEW c \in 0 .. L-1, NEW d \in 0 .. L-1,
           L * p + c = L * q + d
    PROVE  c = d
<1>1. L * p \in Int /\ L * q \in Int
  BY SMT
<1>2. CASE p = q
  BY <1>1, <1>2, SMT
<1>3. CASE p < q
  <2>1. L * p + L <= L * q
    BY <1>3, NextMultiple
  <2> QED
    BY <2>1, <1>1, SMT
<1>4. CASE q < p
  <2>1. L * q + L <= L * p
    BY <1>4, NextMultiple
  <2> QED
    BY <2>1, <1>1, SMT
<1> QED
  BY <1>2, <1>3, <1>4, SMT

(* Counting on moves to the next entry of the list, or back to its head.   *)
LEMMA NextEntry ==
    ASSUME NEW r \in Nat, NEW L \in Nat \ {0}
    PROVE  (r + 1) % L = IF (r % L) + 1 = L THEN 0 ELSE (r % L) + 1
<1> DEFINE q == r \div L
           c == r % L
           s == (r + 1) \div L
           d == (r + 1) % L
<1>1. q \in Nat /\ c \in 0 .. L-1 /\ r = L * q + c
  BY Euclid
<1>2. s \in Nat /\ d \in 0 .. L-1 /\ r + 1 = L * s + d
  <2>1. r + 1 \in Nat
    BY SMT
  <2> QED
    BY <2>1, Euclid
<1>3. L * q \in Int /\ L * s \in Int
  BY <1>1, <1>2, SMT
<1> HIDE DEF q, c, s, d
<1>4. CASE c + 1 = L
  <2>1. L * (q + 1) = L * q + L
    BY <1>1, SMT
  <2>2. L * (q + 1) + 0 = L * s + d
    BY <1>1, <1>2, <2>1, <1>3, <1>4, SMT
  <2>3. q + 1 \in Int /\ s \in Int /\ 0 \in 0 .. L-1
    BY <1>1, <1>2, SMT
  <2>4. 0 = d
    BY <2>2, <2>3, <1>2, UniqueRemainder
  <2> QED
    BY <2>4, <1>4 DEF c, d
<1>5. CASE c + 1 # L
  <2>1. L * q + (c + 1) = L * s + d
    BY <1>1, <1>2, <1>3, SMT
  <2>2. q \in Int /\ s \in Int /\ c + 1 \in 0 .. L-1
    BY <1>1, <1>2, <1>5, SMT
  <2>3. c + 1 = d
    BY <2>1, <2>2, <1>2, UniqueRemainder
  <2> QED
    BY <2>3, <1>5 DEF c, d
<1> QED
  BY <1>4, <1>5

-----------------------------------------------------------------------------
(* The sorted list: Rank numbers the nodes of a pool from 0, one each.     *)

(* The list selectNode builds is a finite set of ids, and it is empty only *)
(* if no node is selectable.                                               *)
LEMMA PoolType ==
    ASSUME NEW st
    PROVE  /\ Selectable(st) \subseteq NodeId
           /\ IsFiniteSet(Selectable(st))
           /\ Cardinality(Selectable(st)) \in Nat
           /\ Selectable(st) # {} => Cardinality(Selectable(st)) # 0
<1>1. Selectable(st) \subseteq NodeId
  BY RoutingAssumption DEF Selectable
<1>2. IsFiniteSet(Selectable(st))
  BY <1>1, FS_Subset, RoutingAssumption
<1> QED
  BY <1>1, <1>2, FS_CardinalityType, FS_EmptySet

(* The index of a node of the list lies within the list.                   *)
LEMMA RankRange ==
    ASSUME NEW P \in SUBSET NodeId, NEW n \in P
    PROVE  Rank(P, n) \in 0 .. Cardinality(P) - 1
<1> DEFINE Before == {m \in P : m < n}
<1>1. IsFiniteSet(P) /\ Cardinality(P) \in Nat
  BY FS_Subset, FS_CardinalityType, RoutingAssumption
<1>2. n \notin Before
  BY RoutingAssumption, SMT
<1>3. /\ Cardinality(Before) \in Nat
      /\ Cardinality(Before) <= Cardinality(P)
      /\ Cardinality(P) = Cardinality(Before) => P = Before
  BY <1>1, FS_Subset, FS_CardinalityType
<1>4. Cardinality(P) # Cardinality(Before)
  BY <1>2, <1>3
<1>5. Rank(P, n) = Cardinality(Before)
  BY DEF Rank
<1> HIDE DEF Before
<1> QED
  BY <1>1, <1>3, <1>4, <1>5, SMT

(* A smaller id comes earlier in the sorted list.                          *)
LEMMA RankGrows ==
    ASSUME NEW P \in SUBSET NodeId, NEW m \in P, NEW n \in P, m < n
    PROVE  Rank(P, m) < Rank(P, n)
<1> DEFINE A == {k \in P : k < m}
           B == {k \in P : k < n}
<1>1. IsFiniteSet(P)
  BY FS_Subset, RoutingAssumption
<1>2. m \in Nat /\ n \in Nat /\ \A k \in P : k \in Nat
  BY RoutingAssumption
<1>3. A \subseteq B /\ m \in B /\ m \notin A
  <2>1. ~(m < m) /\ \A k \in P : k < m => k < n
    BY <1>2, SMT
  <2> QED
    BY <2>1
<1>4. IsFiniteSet(B) /\ Cardinality(B) \in Nat
  BY <1>1, FS_Subset, FS_CardinalityType
<1>5. Cardinality(A) \in Nat /\ Cardinality(A) <= Cardinality(B)
      /\ (Cardinality(B) = Cardinality(A) => B = A)
  BY <1>3, <1>4, FS_Subset, FS_CardinalityType
<1>6. Rank(P, m) = Cardinality(A) /\ Rank(P, n) = Cardinality(B)
  BY DEF Rank
<1>7. Cardinality(B) # Cardinality(A)
  BY <1>3, <1>5
<1> HIDE DEF A, B
<1> QED
  BY <1>4, <1>5, <1>6, <1>7, SMT

(* No two nodes share an index, so the counter picks one node.             *)
LEMMA RankInjective ==
    ASSUME NEW P \in SUBSET NodeId, NEW m \in P, NEW n \in P,
           Rank(P, m) = Rank(P, n)
    PROVE  m = n
<1>1. m \in Nat /\ n \in Nat
  BY RoutingAssumption
<1>2. Rank(P, m) \in Int /\ Rank(P, n) \in Int
  BY RankRange
<1>3. ~(m < n) /\ ~(n < m)
  BY <1>2, RankGrows, SMT
<1> QED
  BY <1>1, <1>3, SMT

-----------------------------------------------------------------------------
(* Types.  A request about to select, or not yet there, has attempts left. *)

AttemptsLeft == \A r \in Request : pc[r] \in {"idle", "select"} => tries[r] < MaxTries

TypeInv == TypeOK /\ AttemptsLeft

(* A write of one status to the table is well typed, and so is its trace in *)
(* the history.                                                            *)
LEMMA SetStatusType ==
    ASSUME TypeOK, NEW n \in NodeId, NEW s \in Statuses, NEW by, SetStatus(n, s, by)
    PROVE  /\ status' \in [NodeId -> Statuses]
           /\ rr' = rr /\ rr' \in Nat
           /\ load' \in [NodeId -> Nat]
           /\ tried' \in [Request -> SUBSET NodeId]
           /\ stayed' \in [Request -> SUBSET NodeId]
           /\ alone' \in [Request -> BOOLEAN]
<1>1. status' \in [NodeId -> Statuses] /\ rr' = rr /\ rr' \in Nat /\ tried' \in [Request -> SUBSET NodeId]
  BY DEF SetStatus, Observe, TypeOK, historyVars
<1>2. load' \in [NodeId -> Nat]
  BY DEF SetStatus, Observe, TypeOK, NoLoad, historyVars
<1>3. stayed' \in [Request -> SUBSET NodeId]
  BY DEF SetStatus, Observe, TypeOK, historyVars
<1>4. alone' \in [Request -> BOOLEAN]
  <2>1. CASE Selectable(status') = Pool
    BY <2>1 DEF SetStatus, Observe, TypeOK, historyVars
  <2>2. CASE Selectable(status') # Pool
    BY <2>2, Zenon DEF SetStatus, Observe
  <2> QED
    BY <2>1, <2>2
<1> QED
  BY <1>1, <1>2, <1>3, <1>4

(* The environment only ever writes one status.                            *)
LEMMA TableWrites ==
    TableNext => /\ requestVars' = requestVars
                 /\ \E n \in NodeId, s \in Statuses : SetStatus(n, s, {})
<1>1. Me \in NodeId
  BY RoutingAssumption
<1>2. ASSUME NEW n \in NodeId, UpdateNode(n)
      PROVE  requestVars' = requestVars /\ SetStatus(n, "ONLINE", {})
  BY <1>2 DEF UpdateNode
<1>3. ASSUME NEW n \in NodeId, NEW s \in {"ONLINE", "OFFLINE"}, HealthVerdict(n, s)
      PROVE  requestVars' = requestVars /\ SetStatus(n, s, {})
  BY <1>3 DEF HealthVerdict
<1>4. ASSUME NEW s \in {"ONLINE", "NO_INTERNET"}, ProbeVerdict(s)
      PROVE  requestVars' = requestVars /\ SetStatus(Me, s, {})
  BY <1>4 DEF ProbeVerdict
<1> QED
  BY <1>1, <1>2, <1>3, <1>4 DEF TableNext, Statuses

(* The table right after Start is well typed.                              *)
LEMMA TypeInit == Init => TypeInv
BY RoutingAssumption, SMT DEF Init, TypeInv, TypeOK, AttemptsLeft, Statuses, NoLoad

(* Every step of a request or of the table's writers is well typed; the loop *)
(* of dialAndHandshakeNode makes no attempt too many.                      *)
LEMMA TypeStep == TypeInv /\ [Next]_vars => TypeInv'
<1> SUFFICES ASSUME TypeInv, [Next]_vars
             PROVE  TypeInv'
  OBVIOUS
<1> USE DEF TypeInv
<1>0. MaxTries \in Nat /\ Me \in NodeId
  BY RoutingAssumption
<1>1. ASSUME NEW r \in Request, Select(r)
      PROVE  TypeInv'
  <2>1. PICK n \in NodeId : /\ sel' = [sel EXCEPT ![r] = n]
                            /\ load' = [load EXCEPT ![n] = @ + 1]
                            /\ tried' = [tried EXCEPT ![r] = @ \cup {n}]
    BY <1>1 DEF Select
  <2>2. /\ rr' = rr + 1 /\ status' = status
        /\ tries' = [tries EXCEPT ![r] = @ + 1]
        /\ pc' = [pc EXCEPT ![r] = "dial"] /\ pc[r] = "select"
    BY <1>1 DEF Select
  <2>3. stayed' \in [Request -> SUBSET NodeId] /\ alone' \in [Request -> BOOLEAN]
    <3>1. Pool \in SUBSET NodeId
      BY PoolType DEF Pool
    <3>2. stayed' \in [Request -> SUBSET NodeId]
      BY <1>1, <3>1 DEF Select, TypeOK
    <3>3. alone' \in [Request -> BOOLEAN]
      BY <1>1 DEF Select, TypeOK
    <3> QED
      BY <3>2, <3>3
  <2>4. tries' \in [Request -> 0 .. MaxTries]
    <3>1. tries[r] \in 0 .. MaxTries /\ tries[r] < MaxTries
      BY <2>2 DEF TypeOK, AttemptsLeft
    <3>2. tries[r] + 1 \in 0 .. MaxTries
      BY <3>1, <1>0, SMT
    <3> QED
      BY <2>2, <3>2 DEF TypeOK
  <2>5. load' \in [NodeId -> Nat] /\ rr' \in Nat
    BY <2>1, <2>2, SMT DEF TypeOK
  <2>6. AttemptsLeft'
    BY <2>2, SMT DEF TypeOK, AttemptsLeft
  <2> QED
    BY <2>1, <2>2, <2>3, <2>4, <2>5, <2>6 DEF TypeOK
<1>2. ASSUME NEW r \in Request, RemoveNode(r)
      PROVE  TypeInv'
  <2>1. NextAttempt(r) \in {"select", "failed"}
        /\ (NextAttempt(r) = "select" => tries[r] < MaxTries)
    BY DEF NextAttempt
  <2>2. SetStatus(sel[r], "OFFLINE", {r}) /\ sel[r] \in NodeId
    BY <1>2 DEF RemoveNode, TypeOK
  <2>3. AttemptsLeft'
    BY <1>2, <2>1 DEF RemoveNode, AttemptsLeft, TypeOK
  <2> QED
    BY <1>2, <2>1, <2>2, <2>3, SetStatusType DEF RemoveNode, TypeOK, Statuses
<1>3. ASSUME NEW r \in Request, HandshakeFailed(r)
      PROVE  TypeInv'
  <2>1. NextAttempt(r) \in {"select", "failed"}
        /\ (NextAttempt(r) = "select" => tries[r] < MaxTries)
    BY DEF NextAttempt
  <2> QED
    BY <1>3, <2>1 DEF HandshakeFailed, TypeOK, AttemptsLeft, tableVars, historyVars
<1>4. ASSUME NEW r \in Request,
             Arrive(r) \/ SelectNone(r) \/ DialAccepted(r) \/ DialRefused(r)
                \/ HandshakeAcked(r)
      PROVE  TypeInv'
  BY <1>4 DEF Arrive, SelectNone, DialAccepted, DialRefused, HandshakeAcked,
              TypeOK, AttemptsLeft, tableVars, historyVars
<1>5. ASSUME TableNext
      PROVE  TypeInv'
  <2>1. requestVars' = requestVars
        /\ \E n \in NodeId, s \in Statuses : SetStatus(n, s, {})
    BY <1>5, TableWrites
  <2> QED
    BY <2>1, SetStatusType DEF TypeOK, AttemptsLeft, requestVars
<1>6. CASE UNCHANGED vars
  BY <1>6 DEF vars, tableVars, requestVars, historyVars, TypeOK, AttemptsLeft
<1> QED
  BY <1>1, <1>2, <1>3, <1>4, <1>5, <1>6 DEF Next, RequestNext

(* Every reachable state is well typed: in particular no request makes     *)
(* more than MaxTries selections, the bound of the loop in                 *)
(* dialAndHandshakeNode.                                                   *)
THEOREM RoutingTypes == Spec => []TypeOK
<1>1. TypeInv => TypeOK
  BY DEF TypeInv
<1> QED
  BY <1>1, TypeInit, TypeStep, PTL DEF Spec

-----------------------------------------------------------------------------
(* Balance.  The loads since the last change of the pool are those of a    *)
(* counter that started at entry b of the list and has gone round q times: *)
(* the entries before the cursor have one more, those before b one less.   *)

Bit(p) == IF p THEN 1 ELSE 0

Cursor == rr % Cardinality(Pool)

Rounds(q, b) ==
    \A n \in Pool :
        load[n] = q + Bit(Rank(Pool, n) < Cursor) - Bit(Rank(Pool, n) < b)

BalanceInv ==
    Pool # {} => \E q \in Int, b \in 0 .. Cardinality(Pool) - 1 : Rounds(q, b)

(* The pool as a set of naturals, with its length and its cursor.          *)
LEMMA PoolFacts ==
    ASSUME TypeOK, Pool # {}
    PROVE  /\ Pool \in SUBSET NodeId
           /\ Cardinality(Pool) \in Nat \ {0}
           /\ Cursor \in 0 .. Cardinality(Pool) - 1
<1>1. Pool \in SUBSET NodeId /\ Cardinality(Pool) \in Nat \ {0}
  BY PoolType DEF Pool
<1>2. rr \in Nat
  BY DEF TypeOK
<1> QED
  BY <1>1, <1>2, Euclid DEF Cursor

(* The node at the cursor never has more than another one.                 *)
LEMMA ChosenIsLeast ==
    ASSUME TypeOK, BalanceInv, NEW n \in NodeId, Chosen(n), NEW m \in Pool
    PROVE  load[n] <= load[m]
<1>1. n \in Pool /\ Rank(Pool, n) = Cursor
  BY DEF Chosen, Cursor
<1>2. PICK q \in Int, b \in 0 .. Cardinality(Pool) - 1 : Rounds(q, b)
  BY <1>1 DEF BalanceInv
<1>3. /\ Rank(Pool, m) \in 0 .. Cardinality(Pool) - 1
      /\ Rank(Pool, n) \in 0 .. Cardinality(Pool) - 1
      /\ Cardinality(Pool) \in Nat \ {0}
      /\ Cursor \in 0 .. Cardinality(Pool) - 1
  BY <1>1, PoolFacts, RankRange
<1>4. /\ load[n] = q + Bit(Rank(Pool, n) < Cursor) - Bit(Rank(Pool, n) < b)
      /\ load[m] = q + Bit(Rank(Pool, m) < Cursor) - Bit(Rank(Pool, m) < b)
  BY <1>1, <1>2 DEF Rounds
<1> QED
  BY <1>1, <1>3, <1>4, SMT DEF Bit

(* A pick moves the cursor over the node it picks: the rounds stay regular. *)
LEMMA SelectKeepsRounds ==
    ASSUME TypeOK, BalanceInv, NEW r \in Request, Select(r)
    PROVE  BalanceInv'
<1>1. PICK n \in NodeId : Chosen(n) /\ load' = [load EXCEPT ![n] = @ + 1]
  BY DEF Select
<1>2. rr' = rr + 1 /\ status' = status /\ Pool' = Pool
  BY DEF Select, Pool
<1>3. n \in Pool /\ Rank(Pool, n) = Cursor
  BY <1>1 DEF Chosen, Cursor
<1>4. /\ Pool \in SUBSET NodeId
      /\ Cardinality(Pool) \in Nat \ {0}
      /\ Cursor \in 0 .. Cardinality(Pool) - 1
  BY <1>3, PoolFacts
<1>5. Cursor' = IF Cursor + 1 = Cardinality(Pool) THEN 0 ELSE Cursor + 1
  BY <1>2, <1>4, NextEntry DEF Cursor, TypeOK
<1>6. PICK q \in Int, b \in 0 .. Cardinality(Pool) - 1 : Rounds(q, b)
  BY <1>3 DEF BalanceInv
<1>7. ASSUME NEW m \in Pool
      PROVE  /\ load[m] = q + Bit(Rank(Pool, m) < Cursor) - Bit(Rank(Pool, m) < b)
             /\ load'[m] = load[m] + Bit(Rank(Pool, m) = Cursor)
             /\ Rank(Pool, m) \in 0 .. Cardinality(Pool) - 1
  <2>1. Rank(Pool, m) = Cursor <=> m = n
    BY <1>3, <1>4, RankInjective
  <2>2. load'[m] = IF m = n THEN load[m] + 1 ELSE load[m]
    BY <1>1, <1>4 DEF TypeOK
  <2>3. load[m] \in Nat
    BY <1>4 DEF TypeOK
  <2>4. load'[m] = load[m] + Bit(Rank(Pool, m) = Cursor)
    BY <2>1, <2>2, <2>3, SMT DEF Bit
  <2> QED
    BY <1>4, <1>6, <2>4, RankRange DEF Rounds
<1>8. CASE Cursor + 1 = Cardinality(Pool)
  <2>1. ASSUME NEW m \in Pool
        PROVE  load'[m] = (q + 1) + Bit(Rank(Pool, m) < 0) - Bit(Rank(Pool, m) < b)
    BY <1>4, <1>7, <1>8, SMT DEF Bit
  <2>2. Rounds(q + 1, b)'
    BY <1>2, <1>5, <1>8, <2>1 DEF Rounds
  <2> QED
    BY <1>2, <2>2 DEF BalanceInv
<1>9. CASE Cursor + 1 # Cardinality(Pool)
  <2>1. ASSUME NEW m \in Pool
        PROVE  load'[m] = q + Bit(Rank(Pool, m) < Cursor + 1) - Bit(Rank(Pool, m) < b)
    BY <1>4, <1>7, <1>9, SMT DEF Bit
  <2>2. Rounds(q, b)'
    BY <1>2, <1>5, <1>9, <2>1 DEF Rounds
  <2> QED
    BY <1>2, <2>2 DEF BalanceInv
<1> QED
  BY <1>8, <1>9

(* A change of the pool starts a new count at the present cursor.          *)
LEMMA SetStatusKeepsRounds ==
    ASSUME TypeOK, BalanceInv, NEW n \in NodeId, NEW s \in Statuses, NEW by,
           SetStatus(n, s, by)
    PROVE  BalanceInv'
<1>1. rr' = rr /\ Pool' = Selectable(status')
  BY DEF SetStatus, Pool
<1>2. CASE Selectable(status') = Pool
  <2>1. rr' = rr /\ Pool' = Pool /\ load' = load
    BY <1>1, <1>2 DEF SetStatus, Observe, historyVars
  <2> QED
    BY <2>1 DEF BalanceInv, Rounds, Cursor
<1>3. CASE Selectable(status') # Pool
  <2>1. load' = NoLoad
    BY <1>3 DEF SetStatus, Observe
  <2>2. SUFFICES ASSUME Pool' # {}
                 PROVE  BalanceInv'
    BY DEF BalanceInv
  <2>3. Cursor' \in 0 .. Cardinality(Pool') - 1
    <3>1. rr \in Nat /\ Cardinality(Pool') \in Nat \ {0}
      BY <1>1, <2>2, PoolType DEF TypeOK
    <3> QED
      BY <1>1, <3>1, Euclid DEF Cursor
  <2>4. \A m \in Pool' :
           load'[m] = 0 + Bit(Rank(Pool', m) < Cursor') - Bit(Rank(Pool', m) < Cursor')
    <3>1. ASSUME NEW m \in Pool'
          PROVE  load'[m] = 0
      BY <1>1, <2>1, PoolType DEF NoLoad
    <3> QED
      BY <3>1, SMT DEF Bit
  <2>5. \E q \in Int, b \in 0 .. Cardinality(Pool') - 1 :
           \A m \in Pool' :
              load'[m] = q + Bit(Rank(Pool', m) < Cursor') - Bit(Rank(Pool', m) < b)
    BY <2>3, <2>4
  <2> QED
    BY <2>5 DEF BalanceInv, Rounds
<1> QED
  BY <1>2, <1>3

(* No step of anyone disturbs the regular rounds.                          *)
LEMMA BalanceStep == TypeInv /\ BalanceInv /\ [Next]_vars => BalanceInv'
<1> SUFFICES ASSUME TypeInv, BalanceInv, [Next]_vars
             PROVE  BalanceInv'
  OBVIOUS
<1> USE DEF TypeInv
<1>1. ASSUME NEW r \in Request, Select(r)
      PROVE  BalanceInv'
  BY <1>1, SelectKeepsRounds
<1>2. ASSUME NEW r \in Request, RemoveNode(r)
      PROVE  BalanceInv'
  <2>1. SetStatus(sel[r], "OFFLINE", {r}) /\ sel[r] \in NodeId /\ "OFFLINE" \in Statuses
    BY <1>2 DEF RemoveNode, TypeOK, Statuses
  <2> QED
    BY <2>1, SetStatusKeepsRounds
<1>3. ASSUME NEW r \in Request,
             Arrive(r) \/ SelectNone(r) \/ DialAccepted(r) \/ DialRefused(r)
                \/ HandshakeAcked(r) \/ HandshakeFailed(r)
      PROVE  BalanceInv'
  BY <1>3 DEF Arrive, SelectNone, DialAccepted, DialRefused, HandshakeAcked,
              HandshakeFailed, tableVars, historyVars,
              BalanceInv, Rounds, Cursor, Pool
<1>4. CASE TableNext
  BY <1>4, TableWrites, SetStatusKeepsRounds
<1>5. CASE UNCHANGED vars
  BY <1>5 DEF vars, tableVars, historyVars, BalanceInv, Rounds, Cursor, Pool
<1> QED
  BY <1>1, <1>2, <1>3, <1>4, <1>5 DEF Next, RequestNext

(* An engine that has started and picked nothing is at the start of a round. *)
LEMMA BalanceInit == Init => BalanceInv
<1> SUFFICES ASSUME Init, Pool # {}
             PROVE  \E q \in Int, b \in 0 .. Cardinality(Pool) - 1 : Rounds(q, b)
  BY DEF BalanceInv
<1>1. TypeOK
  BY TypeInit DEF TypeInv
<1>2. Cursor \in 0 .. Cardinality(Pool) - 1
  BY <1>1, PoolFacts
<1>3. Rounds(0, Cursor)
  <2>1. \A n \in Pool : load[n] = 0
    BY <1>1, PoolFacts DEF Init, NoLoad
  <2> QED
    BY <2>1, SMT DEF Rounds, Bit
<1> QED
  BY <1>2, <1>3

(* Each step picks a least-loaded node, changes the pool, or is invisible to *)
(* the abstract balancer.                                                  *)
LEMMA BalanceRefines ==
    TypeInv /\ BalanceInv /\ [Next]_vars
        => [LoadBalancer!Next]_(LoadBalancer!vars)
<1> SUFFICES ASSUME TypeInv, BalanceInv, [Next]_vars
             PROVE  LoadBalancer!Next \/ UNCHANGED <<Pool, load>>
  BY DEF LoadBalancer!vars
<1> USE DEF TypeInv
<1>1. ASSUME NEW r \in Request, Select(r)
      PROVE  LoadBalancer!Next
  <2>1. PICK n \in NodeId : Chosen(n) /\ load' = [load EXCEPT ![n] = @ + 1]
    BY <1>1 DEF Select
  <2>2. Pool' = Pool
    BY <1>1 DEF Select, Pool
  <2>3. LoadBalancer!Pick(n)
    BY <2>1, <2>2, ChosenIsLeast DEF LoadBalancer!Pick, Chosen
  <2> QED
    BY <2>3 DEF LoadBalancer!Next
<1>2. ASSUME NEW n \in NodeId, NEW s \in Statuses, NEW by, SetStatus(n, s, by)
      PROVE  LoadBalancer!Next \/ UNCHANGED <<Pool, load>>
  <2>1. Pool' = Selectable(status') /\ Pool' \in SUBSET NodeId
    BY PoolType DEF Pool
  <2> QED
    BY <1>2, <2>1 DEF SetStatus, Observe, historyVars, LoadBalancer!Next,
                      LoadBalancer!Repool, LoadBalancer!NoLoad, NoLoad
<1>3. ASSUME NEW r \in Request, RemoveNode(r)
      PROVE  LoadBalancer!Next \/ UNCHANGED <<Pool, load>>
  <2>1. SetStatus(sel[r], "OFFLINE", {r}) /\ sel[r] \in NodeId /\ "OFFLINE" \in Statuses
    BY <1>3 DEF RemoveNode, TypeOK, Statuses
  <2> QED
    BY <2>1, <1>2
<1>4. ASSUME NEW r \in Request,
             Arrive(r) \/ SelectNone(r) \/ DialAccepted(r) \/ DialRefused(r)
                \/ HandshakeAcked(r) \/ HandshakeFailed(r)
      PROVE  UNCHANGED <<Pool, load>>
  BY <1>4 DEF Arrive, SelectNone, DialAccepted, DialRefused, HandshakeAcked,
              HandshakeFailed, tableVars, historyVars, Pool
<1>5. CASE TableNext
  BY <1>5, TableWrites, <1>2
<1>6. CASE UNCHANGED vars
  BY <1>6 DEF vars, tableVars, historyVars, Pool
<1> QED
  BY <1>1, <1>3, <1>4, <1>5, <1>6 DEF Next, RequestNext

(* Routing implements Balancer: whatever the requests, the health loop and *)
(* the announcements do in between, selectNode sends each connection to a  *)
(* node with the least connections since the pool last changed.            *)
THEOREM RoutingBalances == Spec => BalancesLoad
<1>1. Init => LoadBalancer!Init
  <2>1. Pool \in SUBSET NodeId
    BY PoolType DEF Pool
  <2> QED
    BY <2>1 DEF Init, LoadBalancer!Init, LoadBalancer!NoLoad, NoLoad
<1> QED
  BY <1>1, TypeInit, TypeStep, BalanceInit, BalanceStep, BalanceRefines, PTL
     DEF Spec, BalancesLoad, LoadBalancer!Spec

(* The README's promise of an even alternation: between two changes of the *)
(* pool no selectable node is ever more than one connection ahead.         *)
THEOREM RoutingEvenLoad == Spec => []EvenLoad
<1>1. TypeInv /\ BalanceInv => EvenLoad
  <2> SUFFICES ASSUME TypeInv, BalanceInv, NEW m \in Pool, NEW n \in Pool
               PROVE  load[m] <= load[n] + 1
    BY DEF EvenLoad, LoadBalancer!Balanced
  <2>1. /\ Rank(Pool, m) \in 0 .. Cardinality(Pool) - 1
        /\ Rank(Pool, n) \in 0 .. Cardinality(Pool) - 1
        /\ Cardinality(Pool) \in Nat \ {0}
        /\ Cursor \in 0 .. Cardinality(Pool) - 1
    BY PoolFacts, RankRange DEF TypeInv
  <2>2. PICK q \in Int, b \in 0 .. Cardinality(Pool) - 1 : Rounds(q, b)
    BY DEF BalanceInv
  <2>3. /\ load[n] = q + Bit(Rank(Pool, n) < Cursor) - Bit(Rank(Pool, n) < b)
        /\ load[m] = q + Bit(Rank(Pool, m) < Cursor) - Bit(Rank(Pool, m) < b)
    BY <2>2 DEF Rounds
  <2> QED
    BY <2>1, <2>3, SMT DEF Bit
<1> QED
  BY <1>1, TypeInit, TypeStep, BalanceInit, BalanceStep, PTL DEF Spec

-----------------------------------------------------------------------------
(* Fail-over.  For a request that no other disturbs, the nodes of the pool *)
(* it has tried are those the cursor has gone past since the pool last     *)
(* changed: the c entries right behind the cursor.  Until that is the      *)
(* whole pool, no node has been tried twice.                               *)

Behind(n) == IF Rank(Pool, n) < Cursor
             THEN Cursor - Rank(Pool, n)
             ELSE Cursor - Rank(Pool, n) + Cardinality(Pool)

GonePast(r, c) == \A n \in Pool : n \in tried[r] <=> Behind(n) <= c

Covered(r) ==
    /\ stayed[r] = Pool
    /\ \/ Pool \subseteq tried[r]
       \/ /\ Cardinality(tried[r]) = tries[r]
          /\ \E c \in Nat : GonePast(r, c)

FailoverInv ==
    \A r \in Request :
        /\ stayed[r] \subseteq Pool
        /\ tries[r] = 0 => tried[r] = {}
        /\ alone[r] => Covered(r)
        /\ pc[r] = "failed" /\ tries[r] < MaxTries => stayed[r] = {}

(* No request has picked anything yet.                                     *)
LEMMA FailoverInit == Init => FailoverInv
BY DEF Init, FailoverInv

(* The node at the cursor is a whole round behind it, any other less.      *)
LEMMA BehindRange ==
    ASSUME TypeOK, NEW n \in Pool
    PROVE  Behind(n) \in 1 .. Cardinality(Pool)
<1>1. /\ Rank(Pool, n) \in 0 .. Cardinality(Pool) - 1
      /\ Cursor \in 0 .. Cardinality(Pool) - 1
      /\ Cardinality(Pool) \in Nat \ {0}
  BY PoolFacts, RankRange
<1> QED
  BY <1>1, SMT DEF Behind

(* Who has tried none of the pool is at the start of a round.              *)
LEMMA NoneTried ==
    TypeOK => \A q \in Request : Pool \cap tried[q] = {} => GonePast(q, 0)
<1> SUFFICES ASSUME TypeOK, NEW q \in Request, Pool \cap tried[q] = {}, NEW n \in Pool
             PROVE  n \in tried[q] <=> Behind(n) <= 0
  BY DEF GonePast
<1>1. Behind(n) \in 1 .. Cardinality(Pool) /\ Cardinality(Pool) \in Nat
  BY BehindRange, PoolFacts
<1>2. ~(Behind(n) <= 0)
  BY <1>1, SMT
<1> QED
  BY <1>2

LEMMA NoneTriedNext ==
    (TypeOK => \A q \in Request : Pool \cap tried[q] = {} => GonePast(q, 0))'
BY NoneTried, PTL

(* A table write that changes the pool disturbs every request but one it   *)
(* was made for, and this one has tried nothing of what is left; one that  *)
(* does not leaves what they have covered as it is.                        *)
LEMMA SetStatusKeepsFailover ==
    ASSUME TypeOK, TypeOK', FailoverInv, NEW n \in NodeId, NEW s \in Statuses, NEW by,
           SetStatus(n, s, by), by # {} => s = "OFFLINE",
           NEW r \in Request, tries' = tries
    PROVE  /\ stayed'[r] \subseteq Pool'
           /\ stayed'[r] \subseteq stayed[r]
           /\ tries'[r] = 0 => tried'[r] = {}
           /\ alone'[r] => Covered(r)'
<1>1. rr' = rr /\ Pool' = Selectable(status') /\ tried' = tried
  BY DEF SetStatus, Observe, Pool, historyVars
<1>2. /\ stayed[r] \subseteq Pool /\ (tries[r] = 0 => tried[r] = {})
      /\ alone[r] => Covered(r)
  BY DEF FailoverInv
<1>3. CASE Pool' = Pool
  <2>1. stayed' = stayed /\ alone' = alone
    BY <1>1, <1>3 DEF SetStatus, Observe, historyVars
  <2> QED
    BY <1>1, <1>2, <1>3, <2>1 DEF Covered, GonePast, Behind, Cursor
<1>4. CASE Pool' # Pool
  <2>1. /\ stayed'[r] = stayed[r] \cap Pool'
        /\ alone'[r] => alone[r] /\ r \in by /\ tried[r] \cap Pool' = {}
    BY <1>1, <1>4 DEF SetStatus, Observe
  <2>2. ASSUME alone'[r] PROVE Covered(r)'
    <3>1. Covered(r) /\ s = "OFFLINE" /\ tried'[r] \cap Pool' = {}
      BY <1>1, <1>2, <2>1, <2>2
    <3>2. Pool' \subseteq Pool
      BY <1>1, <3>1 DEF SetStatus, Selectable, Pool, TypeOK
    <3>3. stayed'[r] = Pool'
      BY <2>1, <3>1, <3>2 DEF Covered
    <3>4. GonePast(r, 0)'
      BY <3>1, NoneTriedNext
    <3>5. \/ Pool' \subseteq tried'[r]
          \/ Cardinality(tried'[r]) = tries'[r]
      BY <1>1, <3>1, <3>2 DEF Covered
    <3> QED
      BY <3>3, <3>4, <3>5 DEF Covered
  <2> QED
    BY <1>1, <1>2, <2>1, <2>2
<1> QED
  BY <1>3, <1>4

(* A pick of an undisturbed request adds the entry the cursor goes past,   *)
(* one it has not tried before or the pool is covered.                     *)
LEMMA SelectCovers ==
    ASSUME TypeOK, FailoverInv, NEW r \in Request, Select(r), alone'[r]
    PROVE  Covered(r)'
<1>1. PICK n \in NodeId : Chosen(n) /\ tried' = [tried EXCEPT ![r] = @ \cup {n}]
  BY DEF Select
<1>2. /\ rr' = rr + 1 /\ Pool' = Pool /\ tries'[r] = tries[r] + 1
      /\ tried'[r] = tried[r] \cup {n} /\ tries[r] \in Nat
  BY <1>1 DEF Select, Pool, TypeOK
<1>3. n \in Pool /\ Rank(Pool, n) = Cursor
  BY <1>1 DEF Chosen, Cursor
<1>4. /\ Pool \in SUBSET NodeId
      /\ Cardinality(Pool) \in Nat \ {0}
      /\ Cursor \in 0 .. Cardinality(Pool) - 1
  BY <1>3, PoolFacts
<1>5. Cursor' = IF Cursor + 1 = Cardinality(Pool) THEN 0 ELSE Cursor + 1
  BY <1>2, <1>4, NextEntry DEF Cursor, TypeOK
<1>6. tries[r] = 0 \/ alone[r]
  BY DEF Select, TypeOK
<1>7. stayed'[r] = Pool'
  <2>1. CASE tries[r] = 0
    BY <1>2, <2>1 DEF Select, TypeOK
  <2>2. CASE tries[r] # 0
    BY <1>2, <1>6, <2>2 DEF Select, FailoverInv, Covered
  <2> QED
    BY <2>1, <2>2
<1>8. \/ Pool \subseteq tried[r]
      \/ Cardinality(tried[r]) = tries[r] /\ \E c \in Nat : GonePast(r, c)
  <2>1. CASE tries[r] = 0
    <3>1. tried[r] = {}
      BY <2>1 DEF FailoverInv
    <3>2. GonePast(r, 0)
      BY <3>1, NoneTried
    <3> QED
      BY <2>1, <3>1, <3>2, FS_EmptySet
  <2>2. CASE alone[r]
    BY <2>2 DEF FailoverInv, Covered
  <2> QED
    BY <1>6, <2>1, <2>2
<1>9. CASE Pool \subseteq tried[r]
  BY <1>2, <1>7, <1>9 DEF Covered
<1>10. ASSUME NEW c \in Nat, GonePast(r, c), Cardinality(tried[r]) = tries[r]
       PROVE  Covered(r)'
  <2>1. CASE n \in tried[r]
    <3>1. Behind(n) = Cardinality(Pool)
      BY <1>3, <1>4, SMT DEF Behind
    <3>2. Cardinality(Pool) <= c
      BY <1>3, <1>10, <2>1, <3>1 DEF GonePast
    <3>3. ASSUME NEW m \in Pool PROVE Behind(m) <= c
      <4>1. Behind(m) \in 1 .. Cardinality(Pool)
        BY BehindRange
      <4> QED
        BY <1>4, <3>2, <4>1, SMT
    <3>4. Pool \subseteq tried[r]
      BY <1>10, <3>3 DEF GonePast
    <3> QED
      BY <1>2, <1>7, <3>4 DEF Covered
  <2>2. CASE n \notin tried[r]
    <3>1. Cardinality(tried'[r]) = tries'[r]
      <4>1. tried[r] \subseteq NodeId /\ IsFiniteSet(tried[r])
        BY FS_Subset, RoutingAssumption DEF TypeOK
      <4>2. Cardinality(tried[r] \cup {n}) = Cardinality(tried[r]) + 1
        BY <2>2, <4>1, FS_AddElement
      <4> QED
        BY <1>2, <1>10, <4>2
    <3>2. ASSUME NEW m \in Pool
          PROVE  m \in tried'[r] <=> Behind(m)' <= c + 1
      <4>1. Rank(Pool, m) \in 0 .. Cardinality(Pool) - 1
        BY <1>4, RankRange
      <4>2. Behind(m)' = IF Rank(Pool, m) < Cursor' THEN Cursor' - Rank(Pool, m)
                         ELSE Cursor' - Rank(Pool, m) + Cardinality(Pool)
        BY <1>2 DEF Behind
      <4>3. CASE m = n
        <5>1. Behind(m)' = 1
          BY <1>3, <1>4, <1>5, <4>2, <4>3, SMT
        <5> QED
          BY <1>2, <4>3, <5>1, SMT
      <4>4. CASE m # n
        <5>1. Rank(Pool, m) # Cursor
          BY <1>3, <1>4, <4>4, RankInjective
        <5>2. Behind(m)' = Behind(m) + 1 /\ Behind(m) \in Nat
          BY <1>4, <1>5, <4>1, <4>2, <5>1, SMT DEF Behind
        <5>3. Behind(m)' <= c + 1 <=> Behind(m) <= c
          BY <5>2, SMT
        <5>4. m \in tried'[r] <=> m \in tried[r]
          BY <1>2, <4>4
        <5> QED
          BY <1>10, <5>3, <5>4 DEF GonePast
      <4> QED
        BY <4>3, <4>4
    <3>3. GonePast(r, c + 1)'
      BY <1>2, <3>2 DEF GonePast
    <3>4. c + 1 \in Nat
      OBVIOUS
    <3> QED
      BY <1>7, <3>1, <3>3, <3>4 DEF Covered
  <2> QED
    BY <2>1, <2>2
<1> QED
  BY <1>8, <1>9, <1>10

(* Every step keeps account of what each undisturbed request has covered.  *)
LEMMA FailoverStep == TypeInv /\ FailoverInv /\ [Next]_vars => FailoverInv'
<1> SUFFICES ASSUME TypeInv, FailoverInv, [Next]_vars
             PROVE  FailoverInv'
  OBVIOUS
<1> USE DEF TypeInv
<1>0. TypeOK'
  BY TypeStep
<1>1. ASSUME NEW r \in Request, Select(r)
      PROVE  FailoverInv'
  <2>1. /\ Pool' = Pool /\ pc' = [pc EXCEPT ![r] = "dial"]
        /\ tries' = [tries EXCEPT ![r] = @ + 1]
        /\ stayed' = IF tries[r] = 0 THEN [stayed EXCEPT ![r] = Pool] ELSE stayed
        /\ alone' = [q \in Request |-> q = r /\ (tries[r] = 0 \/ alone[r])]
    BY <1>1 DEF Select, Pool
  <2>2. ASSUME NEW q \in Request
        PROVE  /\ stayed'[q] \subseteq Pool'
               /\ tries'[q] = 0 => tried'[q] = {}
               /\ alone'[q] => Covered(q)'
               /\ pc'[q] = "failed" /\ tries'[q] < MaxTries => stayed'[q] = {}
    <3>1. CASE q = r
      <4>1. stayed'[r] \subseteq Pool'
        BY <2>1 DEF FailoverInv, TypeOK
      <4>2. pc'[r] = "dial" /\ tries'[r] # 0
        BY <2>1, SMT DEF TypeOK
      <4> QED
        BY <1>1, <3>1, <4>1, <4>2, SelectCovers
    <3>2. CASE q # r
      <4>1. /\ stayed'[q] = stayed[q] /\ ~alone'[q]
            /\ pc'[q] = pc[q] /\ tries'[q] = tries[q] /\ tried'[q] = tried[q]
        BY <1>1, <2>1, <3>2 DEF TypeOK, Select
      <4> QED
        BY <2>1, <4>1 DEF FailoverInv
    <3> QED
      BY <3>1, <3>2
  <2> QED
    BY <2>2 DEF FailoverInv
<1>2. ASSUME NEW r \in Request, RemoveNode(r)
      PROVE  FailoverInv'
  <2>1. /\ SetStatus(sel[r], "OFFLINE", {r}) /\ sel[r] \in NodeId /\ "OFFLINE" \in Statuses
        /\ tries' = tries /\ pc' = [pc EXCEPT ![r] = NextAttempt(r)]
    BY <1>2 DEF RemoveNode, TypeOK, Statuses
  <2>2. ASSUME NEW q \in Request
        PROVE  pc'[q] = "failed" /\ tries'[q] < MaxTries => stayed'[q] = {}
    <3>1. stayed'[q] \subseteq stayed[q]
      BY <1>0, <2>1, SetStatusKeepsFailover
    <3>2. CASE q = r
      <4>1. pc'[q] = NextAttempt(q)
        BY <2>1, <3>2 DEF TypeOK
      <4> QED
        BY <2>1, <4>1 DEF NextAttempt
    <3>3. CASE q # r
      <4>1. pc'[q] = pc[q]
        BY <2>1, <3>3 DEF TypeOK
      <4> QED
        BY <2>1, <3>1, <4>1 DEF FailoverInv
    <3> QED
      BY <3>2, <3>3
  <2> QED
    BY <1>0, <2>1, <2>2, SetStatusKeepsFailover DEF FailoverInv
<1>3. ASSUME NEW r \in Request, SelectNone(r)
      PROVE  FailoverInv'
  <2>1. \A q \in Request : stayed[q] = {}
    BY <1>3 DEF SelectNone, FailoverInv
  <2>2. UNCHANGED <<status, rr, tries, stayed, alone, tried>>
    BY <1>3 DEF SelectNone, tableVars, historyVars
  <2> QED
    BY <2>1, <2>2 DEF FailoverInv, Covered, GonePast, Behind, Cursor, Pool
<1>4. ASSUME NEW r \in Request,
             Arrive(r) \/ DialAccepted(r) \/ DialRefused(r)
                \/ HandshakeAcked(r) \/ HandshakeFailed(r)
      PROVE  FailoverInv'
  <2>1. UNCHANGED <<status, rr, tries, stayed, alone, tried>>
    BY <1>4 DEF Arrive, DialAccepted, DialRefused, HandshakeAcked,
                HandshakeFailed, tableVars, historyVars
  <2>2. \A q \in Request :
           pc'[q] = "failed" /\ tries[q] < MaxTries => pc[q] = "failed"
    BY <1>4 DEF Arrive, DialAccepted, DialRefused, HandshakeAcked,
                HandshakeFailed, NextAttempt, TypeOK
  <2> QED
    BY <2>1, <2>2 DEF FailoverInv, Covered, GonePast, Behind, Cursor, Pool
<1>5. CASE TableNext
  <2>1. PICK n \in NodeId, s \in Statuses : SetStatus(n, s, {})
    BY <1>5, TableWrites
  <2>2. pc' = pc /\ tries' = tries
    BY <1>5, TableWrites DEF requestVars
  <2> QED
    BY <1>0, <2>1, <2>2, SetStatusKeepsFailover DEF FailoverInv
<1>6. CASE UNCHANGED vars
  BY <1>6 DEF vars, tableVars, requestVars, historyVars,
              FailoverInv, Covered, GonePast, Behind, Cursor, Pool
<1> QED
  BY <1>1, <1>2, <1>3, <1>4, <1>5, <1>6 DEF Next, RequestNext

(* An undisturbed request that has made all its attempts and has not tried *)
(* all it could pick has tried as many nodes as it made attempts, and one  *)
(* more was there.                                                         *)
LEMMA CoveredIsExhaustive ==
    ASSUME TypeOK, FailoverInv, NEW r \in Request, pc[r] = "failed", alone[r],
           Cardinality(stayed[r] \cup tried[r]) <= MaxTries, NEW n \in stayed[r]
    PROVE  n \in tried[r]
<1>1. /\ stayed[r] = Pool /\ n \in Pool
      /\ Pool \subseteq tried[r] \/ Cardinality(tried[r]) = tries[r]
  BY DEF FailoverInv, Covered
<1>2. tries[r] = MaxTries /\ MaxTries \in Nat
  <2>1. tries[r] \in 0 .. MaxTries /\ MaxTries \in Nat /\ ~(tries[r] < MaxTries)
    BY <1>1, RoutingAssumption DEF FailoverInv, TypeOK
  <2> QED
    BY <2>1, SMT
<1>3. SUFFICES ASSUME n \notin tried[r] PROVE FALSE
  OBVIOUS
<1>4. /\ IsFiniteSet(stayed[r] \cup tried[r]) /\ IsFiniteSet(tried[r])
      /\ tried[r] \cup {n} \subseteq stayed[r] \cup tried[r]
  <2>1. stayed[r] \cup tried[r] \subseteq NodeId
    BY DEF TypeOK
  <2> QED
    BY <2>1, FS_Subset, RoutingAssumption
<1>5. Cardinality(tried[r] \cup {n}) = MaxTries + 1
  <2>1. Cardinality(tried[r]) = MaxTries
    BY <1>1, <1>2, <1>3
  <2>2. Cardinality(tried[r] \cup {n}) = Cardinality(tried[r]) + 1
    BY <1>3, <1>4, FS_AddElement
  <2> QED
    BY <2>1, <2>2
<1>6. /\ Cardinality(tried[r] \cup {n}) <= Cardinality(stayed[r] \cup tried[r])
      /\ Cardinality(stayed[r] \cup tried[r]) \in Nat
  BY <1>4, FS_Subset, FS_CardinalityType
<1> QED
  BY <1>2, <1>5, <1>6, SMT

(* A request that no other disturbs gives up only after trying every node  *)
(* it found, if they are no more than its attempts; refused dials, which   *)
(* take nodes out of the pool, included as long as they come first.        *)
THEOREM RoutingFailover == Spec => []ExhaustiveFailover
<1>1. TypeInv /\ FailoverInv => ExhaustiveFailover
  BY CoveredIsExhaustive DEF TypeInv, ExhaustiveFailover
<1> QED
  BY <1>1, TypeInit, TypeStep, FailoverInit, FailoverStep, PTL DEF Spec

(* A request that gives up with attempts left does so because no node has  *)
(* been selectable all along.                                              *)
THEOREM RoutingEarlyGiveUp == Spec => []EarlyGiveUp
<1>1. FailoverInv => EarlyGiveUp
  BY DEF FailoverInv, EarlyGiveUp
<1> QED
  BY <1>1, TypeInit, TypeStep, FailoverInit, FailoverStep, PTL DEF Spec
=============================================================================
