---------------------------- MODULE TunnelProofs ----------------------------
(***************************************************************************)
(* Theorems about Tunnel, for any number of tries and bytes: which target  *)
(* gets the application's data, when an engine closes a connection, and    *)
(* that both directions of a tunnel are pipes.                             *)
(***************************************************************************)
EXTENDS Tunnel, SequenceTheorems, TLAPS

-----------------------------------------------------------------------------
(* The connections and their ends are apart from one another.              *)
LEMMA Places ==
    /\ A \in Conn /\ \A i \in Tries : T(i) \in Conn /\ X(i) \in Conn
    /\ \A i \in Tries : T(i) # A /\ X(i) # A
    /\ \A i, j \in Tries : T(i) # X(j)
    /\ \A i, j \in Tries : i # j => T(i) # T(j) /\ X(i) # X(j)
BY DEF Conn, A, T, X

LEMMA Ends ==
    /\ \A c \in Conn : NearEnd(c) \in {"near", "far"} \X Conn
    /\ \A c \in Conn : FarEnd(c) \in {"near", "far"} \X Conn
    /\ \A c, d \in Conn : NearEnd(c) # FarEnd(d)
    /\ \A c, d \in Conn : c # d => NearEnd(c) # NearEnd(d) /\ FarEnd(c) # FarEnd(d)
BY DEF NearEnd, FarEnd

LEMMA Messages ==
    /\ Header \in Msg /\ Ok \in Msg /\ Refused \in Msg
    /\ \A n \in Nat : Request(n) \in Msg /\ Byte(n) \in Msg
    /\ Ok # Refused
BY DEF Msg, Request, Header, Ok, Refused, Byte

LEMMA TriesAreNat == \A i \in Tries : i \in Nat /\ i # 0 /\ i <= MaxTries
BY TunnelAssumption DEF Tries

-----------------------------------------------------------------------------
(***************************************************************************)
(* Setting up.  What the client engine knows of the try it is at, and what *)
(* each server engine has done to its two connections.                     *)
(***************************************************************************)
Reason(i) == near[A] \in Done \/ far[X(i)] \in Done

ClientSide ==
    /\ client \in {"parse", "select", "wait"} => served = 0
    /\ client \in {"reply", "relay", "over"} => served # 0
    /\ served # 0 => served = try
    /\ client = "wait" => try # 0
    /\ client = "parse" => Len(up[A]) <= sentUp + 1 /\ taken = 0 /\ kept = 0
    /\ far[A] = IF client \in {"over", "failed"} THEN "closed" ELSE "open"
    /\ client \in {"wait", "reply", "relay"} => near[T(try)] = "open"
    /\ client = "relay" => FarEnd(A) \notin armed
    /\ served # 0 => NearEnd(T(served)) \notin armed
    /\ client \in {"over", "failed"} /\ served # 0 => Reason(served)

ServerSide(i) ==
    /\ near[T(i)] # "half" /\ near[X(i)] # "half"
    /\ i > try => server[i] = "none"
    /\ server[i] \in {"none", "header", "dial", "ack"} => down[T(i)] = <<>>
    /\ server[i] \in {"none", "header", "dial"} => far[X(i)] = "none"
    /\ far[X(i)] = "none" => down[T(i)] \in {<<>>, <<Refused>>}
    /\ server[i] \in {"ack", "relay"} => far[X(i)] # "none" /\ near[X(i)] = "open"
    /\ server[i] \in {"header", "dial", "ack", "relay"} => far[T(i)] = "open"
    /\ NearEnd(X(i)) \notin armed
    /\ server[i] = "relay" => FarEnd(T(i)) \notin armed
    /\ server[i] = "over" =>
          /\ far[T(i)] = "closed"
          /\ far[X(i)] \in {"none", "closed"} \/ near[T(i)] = "closed"

(* Before a try is acknowledged and relayed, nothing of the application's  *)
(* has entered its tunnel.                                                 *)
Early(i) ==
    i # served \/ ~Established =>
        /\ gotUp[i] = <<>> /\ up[X(i)] = <<>>
        /\ up[T(i)] = <<>> \/ (up[T(i)] = <<Header>> /\ server[i] = "header")

SetupInv ==
    /\ TypeOK
    /\ ClientSide
    /\ ServedIsConnected
    /\ \A i \in Tries : ServerSide(i) /\ Early(i)

-----------------------------------------------------------------------------
(* What a step leaves alone.                                               *)
SameAt(c) ==
    /\ near'[c] = near[c] /\ far'[c] = far[c]
    /\ up'[c] = up[c] /\ down'[c] = down[c]
    /\ NearEnd(c) \in armed' <=> NearEnd(c) \in armed
    /\ FarEnd(c) \in armed' <=> FarEnd(c) \in armed

LEMMA SameKeeps ==
    ASSUME TypeOK, NEW i \in Tries, ServerSide(i), Early(i),
           SameAt(T(i)), SameAt(X(i)),
           server'[i] = server[i], gotUp'[i] = gotUp[i],
           try' \in Nat, try <= try',
           i = served /\ Established => i = served' /\ Established'
    PROVE  ServerSide(i)' /\ Early(i)'
<1>1. i > try' => i > try
  BY TriesAreNat DEF TypeOK
<1> QED
  BY <1>1 DEF ServerSide, Early, SameAt

-----------------------------------------------------------------------------
(* Sequences of messages.                                                  *)
LEMMA Emptied == <<>> \in Seq(Msg) /\ Len(<<>>) = 0
BY EmptySeq

LEMMA Taken ==
    ASSUME NEW s \in Seq(Msg), s # <<>>
    PROVE  /\ Head(s) \in Msg /\ Head(s) = s[1]
           /\ Tail(s) \in Seq(Msg)
           /\ Len(s) \in Nat \ {0}
           /\ Len(Tail(s)) = Len(s) - 1
           /\ \A k \in 1 .. Len(Tail(s)) : Tail(s)[k] = s[k + 1]
<1>1. Len(s) \in Nat \ {0}
  BY EmptySeq
<1> QED
  BY <1>1, HeadTailProperties

LEMMA Added ==
    ASSUME NEW s \in Seq(Msg), NEW m \in Msg
    PROVE  /\ Append(s, m) \in Seq(Msg)
           /\ Len(Append(s, m)) = Len(s) + 1
           /\ \A k \in 1 .. Len(s) : Append(s, m)[k] = s[k]
           /\ Append(s, m)[Len(s) + 1] = m
BY AppendProperties

-----------------------------------------------------------------------------
(* The operations on connections.                                          *)
LEMMA SendUpFacts ==
    ASSUME NEW w \in [Conn -> Seq(Msg)], NEW c \in Conn, NEW m \in Msg
    PROVE  /\ SendUp(w, c, m) \in [Conn -> Seq(Msg)]
           /\ \A d \in Conn \ {c} : SendUp(w, c, m)[d] = w[d]
           /\ SendUp(w, c, m)[c] = IF far[c] = "closed" THEN w[c] ELSE Append(w[c], m)
<1>1. Append(w[c], m) \in Seq(Msg)
  BY Added
<1> QED
  BY <1>1 DEF SendUp

LEMMA SendDownFacts ==
    ASSUME NEW w \in [Conn -> Seq(Msg)], NEW c \in Conn, NEW m \in Msg
    PROVE  /\ SendDown(w, c, m) \in [Conn -> Seq(Msg)]
           /\ \A d \in Conn \ {c} : SendDown(w, c, m)[d] = w[d]
           /\ SendDown(w, c, m)[c] = IF near[c] = "closed" THEN w[c] ELSE Append(w[c], m)
<1>1. Append(w[c], m) \in Seq(Msg)
  BY Added
<1> QED
  BY <1>1 DEF SendDown

(* Closing takes what was to be read at the closed end, may take what is   *)
(* under way to the other, and touches no other connection.                *)
WiresTyped ==
    /\ near \in [Conn -> EndState] /\ far \in [Conn -> EndState \ {"half"}]
    /\ up \in [Conn -> Seq(Msg)] /\ down \in [Conn -> Seq(Msg)]
    /\ armed \subseteq {"near", "far"} \X Conn

LEMMA CloseFacts ==
    ASSUME TypeOK, NEW N \in SUBSET Conn, NEW F \in SUBSET Conn, CloseEnds(N, F)
    PROVE  /\ WiresTyped'
           /\ \A c \in Conn : near'[c] = IF c \in N THEN "closed" ELSE near[c]
           /\ \A c \in Conn : far'[c] = IF c \in F THEN "closed" ELSE far[c]
           /\ \A c \in Conn : up'[c] = up[c] \/ up'[c] = <<>>
           /\ \A c \in Conn : down'[c] = down[c] \/ down'[c] = <<>>
           /\ \A c \in F : up'[c] = <<>>
           /\ \A c \in N : down'[c] = <<>>
           /\ armed' \subseteq armed
           /\ \A c \in Conn : c \notin N /\ c \notin F => SameAt(c)
<1>1. PICK cutUp \in SUBSET {c \in N : down[c] # <<>>},
           cutDown \in SUBSET {c \in F : up[c] # <<>>} :
         /\ up' = [c \in Conn |-> IF c \in F \cup cutUp THEN <<>> ELSE up[c]]
         /\ down' = [c \in Conn |-> IF c \in N \cup cutDown THEN <<>> ELSE down[c]]
  BY DEF CloseEnds
<1>2. near' \in [Conn -> EndState] /\ far' \in [Conn -> EndState \ {"half"}]
  BY DEF CloseEnds, TypeOK, EndState
<1>3. up' \in [Conn -> Seq(Msg)] /\ down' \in [Conn -> Seq(Msg)]
  BY <1>1, Emptied DEF TypeOK
<1>4. armed' \subseteq armed /\ armed \subseteq {"near", "far"} \X Conn
  BY DEF CloseEnds, TypeOK
<1>5. ASSUME NEW c \in Conn, c \notin N, c \notin F
      PROVE  /\ NearEnd(c) \in armed' <=> NearEnd(c) \in armed
             /\ FarEnd(c) \in armed' <=> FarEnd(c) \in armed
  <2>1. \A d \in N : d \in Conn /\ NearEnd(c) # NearEnd(d) /\ FarEnd(c) # NearEnd(d)
    BY <1>5, Ends
  <2>2. \A d \in F : d \in Conn /\ FarEnd(c) # FarEnd(d) /\ NearEnd(c) # FarEnd(d)
    BY <1>5, Ends
  <2> QED
    BY <2>1, <2>2 DEF CloseEnds
<1>6. /\ \A c \in Conn : near'[c] = IF c \in N THEN "closed" ELSE near[c]
      /\ \A c \in Conn : far'[c] = IF c \in F THEN "closed" ELSE far[c]
  BY DEF CloseEnds
<1>7. /\ \A c \in Conn : up'[c] = up[c] \/ up'[c] = <<>>
      /\ \A c \in Conn : down'[c] = down[c] \/ down'[c] = <<>>
      /\ \A c \in F : up'[c] = <<>>
      /\ \A c \in N : down'[c] = <<>>
      /\ \A c \in Conn : c \notin N /\ c \notin F => up'[c] = up[c] /\ down'[c] = down[c]
  BY <1>1
<1> QED
  BY <1>2, <1>3, <1>4, <1>5, <1>6, <1>7 DEF WiresTyped, SameAt

(* A relay moves one message from one connection to the other, where it is *)
(* lost if nobody is left to read it.                                      *)
LEMMA CarryFacts ==
    ASSUME TypeOK, NEW c \in Conn, NEW d \in Conn, c # d, Carry(c, d)
    PROVE  /\ WiresTyped'
           /\ UNCHANGED <<near, far, armed>>
           /\ \A e \in Conn \ {c, d} : SameAt(e)
           /\ \/ /\ up[c] # <<>> /\ down' = down
                 /\ up'[c] = Tail(up[c])
                 /\ up'[d] = IF far[d] = "closed" THEN up[d] ELSE Append(up[d], Head(up[c]))
              \/ /\ down[d] # <<>> /\ up' = up
                 /\ down'[d] = Tail(down[d])
                 /\ down'[c] = IF near[c] = "closed" THEN down[c] ELSE Append(down[c], Head(down[d]))
<1>1. UNCHANGED <<near, far, armed>>
  BY DEF Carry
<1>2. CASE /\ up[c] # <<>> /\ down' = down
           /\ up' = SendUp([up EXCEPT ![c] = Tail(@)], d, Head(up[c]))
  <2> DEFINE w == [up EXCEPT ![c] = Tail(@)]
  <2>1. Head(up[c]) \in Msg /\ Tail(up[c]) \in Seq(Msg)
    BY <1>2, Taken DEF TypeOK
  <2>2. /\ w \in [Conn -> Seq(Msg)] /\ w[c] = Tail(up[c]) /\ w[d] = up[d]
        /\ \A e \in Conn \ {c, d} : w[e] = up[e]
    BY <2>1 DEF TypeOK
  <2>3. up' = SendUp(w, d, Head(up[c]))
    BY <1>2
  <2> HIDE DEF w
  <2>4. /\ up' \in [Conn -> Seq(Msg)]
        /\ \A e \in Conn \ {d} : up'[e] = w[e]
        /\ up'[d] = IF far[d] = "closed" THEN w[d] ELSE Append(w[d], Head(up[c]))
    <3> DEFINE m == Head(up[c])
                z == SendUp(w, d, m)
    <3>1. m \in Msg /\ w \in [Conn -> Seq(Msg)] /\ up' = z
      BY <2>1, <2>2, <2>3
    <3> HIDE DEF m
    <3>2. /\ z \in [Conn -> Seq(Msg)]
          /\ \A e \in Conn \ {d} : z[e] = w[e]
          /\ z[d] = IF far[d] = "closed" THEN w[d] ELSE Append(w[d], m)
      BY <3>1, SendUpFacts
    <3> HIDE DEF z
    <3> QED
      BY <3>1, <3>2 DEF m
  <2> QED
    BY <1>1, <1>2, <2>2, <2>4 DEF WiresTyped, SameAt, TypeOK
<1>3. CASE /\ down[d] # <<>> /\ up' = up
           /\ down' = SendDown([down EXCEPT ![d] = Tail(@)], c, Head(down[d]))
  <2> DEFINE w == [down EXCEPT ![d] = Tail(@)]
  <2>1. Head(down[d]) \in Msg /\ Tail(down[d]) \in Seq(Msg)
    BY <1>3, Taken DEF TypeOK
  <2>2. /\ w \in [Conn -> Seq(Msg)] /\ w[d] = Tail(down[d]) /\ w[c] = down[c]
        /\ \A e \in Conn \ {c, d} : w[e] = down[e]
    BY <2>1 DEF TypeOK
  <2>3. down' = SendDown(w, c, Head(down[d]))
    BY <1>3
  <2> HIDE DEF w
  <2>4. /\ down' \in [Conn -> Seq(Msg)]
        /\ \A e \in Conn \ {c} : down'[e] = w[e]
        /\ down'[c] = IF near[c] = "closed" THEN w[c] ELSE Append(w[c], Head(down[d]))
    <3> DEFINE m == Head(down[d])
                z == SendDown(w, c, m)
    <3>1. m \in Msg /\ w \in [Conn -> Seq(Msg)] /\ down' = z
      BY <2>1, <2>2, <2>3
    <3> HIDE DEF m
    <3>2. /\ z \in [Conn -> Seq(Msg)]
          /\ \A e \in Conn \ {c} : z[e] = w[e]
          /\ z[c] = IF near[c] = "closed" THEN w[c] ELSE Append(w[c], m)
      BY <3>1, SendDownFacts
    <3> HIDE DEF z
    <3> QED
      BY <3>1, <3>2 DEF m
  <2> QED
    BY <1>1, <1>3, <2>2, <2>4 DEF WiresTyped, SameAt, TypeOK
<1> QED
  BY <1>2, <1>3 DEF Carry

-----------------------------------------------------------------------------
(* The client engine up to the acknowledgement.                            *)

(* Whatever leaves the connections of all tries alone.                     *)
LEMMA OnlyFront ==
    ASSUME SetupInv, \A c \in Conn \ {A} : SameAt(c),
           server' = server, gotUp' = gotUp, try' \in Nat, try <= try', served' = served,
           served # 0 /\ Established => Established'
    PROVE  ServedIsConnected' /\ \A i \in Tries : ServerSide(i)' /\ Early(i)'
<1>1. ASSUME NEW i \in Tries
      PROVE  SameAt(T(i)) /\ SameAt(X(i)) /\ ServerSide(i)' /\ Early(i)'
  <2>1. SameAt(T(i)) /\ SameAt(X(i))
    BY Places
  <2> QED
    BY <2>1, SameKeeps, TriesAreNat DEF SetupInv
<1>2. ServedIsConnected'
  <2>1. served # 0 => served \in Tries
    BY TunnelAssumption DEF SetupInv, TypeOK, Tries
  <2> QED
    BY <1>1, <2>1 DEF SetupInv, ServedIsConnected, SameAt
<1> QED
  BY <1>1, <1>2

(* What reading the request does, whichever front end it is for.           *)
LEMMA ParseFacts ==
    ASSUME TypeOK, Parse
    PROVE  \E n \in Nat :
              /\ client = "parse" /\ n < Len(up[A])
              /\ up' = [up EXCEPT ![A] = SubSeq(@, n + 2, Len(@))]
              /\ taken' = n /\ kept' \in {kept} \cup 0 .. n /\ client' = "select"
              /\ UNCHANGED <<front, head, near, far, down, armed, try, served, server, peers>>
<1>1. 0 .. MaxUp \subseteq Nat /\ 0 .. head \subseteq Nat
  BY TunnelAssumption DEF TypeOK
<1>2. PICK n \in Nat : TakeRequest(n) /\ kept' \in {kept} \cup 0 .. n
  <2>1. CASE ParseSocks
    BY <1>1, <2>1 DEF ParseSocks
  <2>2. CASE ParseHttp
    <3>1. PICK n \in 0 .. head : TakeRequest(n) /\ kept' \in IF n = head THEN {n} ELSE 0 .. n
      BY <2>2 DEF ParseHttp
    <3>2. n \in Nat /\ n \in 0 .. n
      BY <1>1, <3>1
    <3> QED
      BY <3>1, <3>2
  <2> QED
    BY <2>1, <2>2 DEF Parse
<1> QED
  BY <1>2 DEF Parse, TakeRequest

(* What is left of a sequence behind its first items.                      *)
LEMMA RestTyped ==
    ASSUME NEW s \in Seq(Msg), NEW n \in Nat
    PROVE  SubSeq(s, n + 2, Len(s)) \in Seq(Msg)
<1>1. n + 2 \in Int /\ Len(s) \in Int /\ \A k \in n + 2 .. Len(s) : k \in 1 .. Len(s)
  BY LenProperties
<1>2. \A k \in n + 2 .. Len(s) : s[k] \in Msg
  BY <1>1, ElementOfSeq
<1> QED
  BY <1>1, <1>2, SubSeqProperties

LEMMA ParseKeeps == SetupInv /\ Parse => SetupInv'
<1> SUFFICES ASSUME SetupInv, Parse PROVE SetupInv'
  OBVIOUS
<1>1. PICK n \in Nat :
         /\ client = "parse" /\ n < Len(up[A])
         /\ up' = [up EXCEPT ![A] = SubSeq(@, n + 2, Len(@))]
         /\ taken' = n /\ kept' \in {kept} \cup 0 .. n /\ client' = "select"
         /\ UNCHANGED <<front, head, near, far, down, armed, try, served, server, peers>>
  BY ParseFacts DEF SetupInv
<1>2. TypeOK /\ ClientSide
  BY DEF SetupInv
<1>3. up'[A] \in Seq(Msg)
  BY <1>1, <1>2, Places, RestTyped DEF TypeOK
<1>4. taken' \in 0 .. MaxUp /\ kept' \in 0 .. taken'
  <2>1. Len(up[A]) <= sentUp + 1 /\ sentUp <= MaxUp /\ sentUp \in Nat
    BY <1>1, <1>2, TunnelAssumption DEF ClientSide, TypeOK
  <2>2. Len(up[A]) \in Nat /\ kept = 0
    BY <1>1, <1>2, Places, LenProperties DEF ClientSide, TypeOK
  <2> QED
    BY <1>1, <2>1, <2>2, TunnelAssumption
<1>5. TypeOK'
  BY <1>1, <1>2, <1>3, <1>4 DEF TypeOK, peers
<1>6. \A c \in Conn \ {A} : SameAt(c)
  BY <1>1, <1>2 DEF SameAt, TypeOK
<1>7. ClientSide'
  BY <1>1, <1>2 DEF ClientSide
<1>8. ServedIsConnected' /\ \A i \in Tries : ServerSide(i)' /\ Early(i)'
  BY <1>1, <1>2, <1>6, OnlyFront DEF TypeOK, peers, Established, ClientSide
<1> QED
  BY <1>5, <1>7, <1>8 DEF SetupInv

LEMMA ParseFailsKeeps == SetupInv /\ ParseFails => SetupInv'
<1> SUFFICES ASSUME SetupInv, ParseFails PROVE SetupInv'
  OBVIOUS
<1>1. /\ client = "parse" /\ CloseEnds({}, {A}) /\ client' = "failed"
      /\ UNCHANGED <<front, head, try, served, taken, kept, server, peers>>
  BY DEF ParseFails
<1>2. TypeOK /\ ClientSide /\ served = 0
  BY <1>1 DEF SetupInv, ClientSide
<1>3. WiresTyped' /\ far'[A] = "closed" /\ \A c \in Conn \ {A} : SameAt(c)
  <2>1. {} \in SUBSET Conn /\ {A} \in SUBSET Conn
    BY Places
  <2> QED
    BY <1>1, <1>2, <2>1, CloseFacts
<1>4. TypeOK'
  BY <1>1, <1>2, <1>3 DEF TypeOK, WiresTyped, peers
<1>5. ClientSide'
  BY <1>1, <1>2, <1>3 DEF ClientSide
<1>6. ServedIsConnected' /\ \A i \in Tries : ServerSide(i)' /\ Early(i)'
  BY <1>1, <1>2, <1>3, OnlyFront DEF TypeOK, peers
<1> QED
  BY <1>4, <1>5, <1>6 DEF SetupInv

LEMMA DialKeeps == SetupInv /\ Dial => SetupInv'
<1> SUFFICES ASSUME SetupInv, Dial PROVE SetupInv'
  OBVIOUS
<1>0. PICK j \in Nat : j = try + 1
  BY DEF SetupInv, TypeOK
<1>1. /\ client = "select" /\ try < MaxTries /\ try' = j
      /\ near' = [near EXCEPT ![T(j)] = "open"]
      /\ far' = [far EXCEPT ![T(j)] = "open"]
      /\ up' = [up EXCEPT ![T(j)] = <<Header>>]
      /\ armed' = armed \cup {NearEnd(T(j)), FarEnd(T(j))}
      /\ client' = "wait"
      /\ server' = [server EXCEPT ![j] = "header"]
      /\ UNCHANGED <<front, head, down, served, taken, kept, peers>>
  BY <1>0 DEF Dial
<1>2. TypeOK /\ ClientSide /\ served = 0 /\ far[A] = "open"
  BY <1>1 DEF SetupInv, ClientSide
<1>3. j \in Tries /\ try \in Nat /\ j \in Nat /\ j > try /\ j <= MaxTries /\ j # 0
  BY <1>0, <1>1, <1>2, TunnelAssumption DEF TypeOK, Tries
<1>4. T(j) \in Conn /\ T(j) # A /\ \A i \in Tries : T(j) # X(i) /\ (i # j => T(i) # T(j))
  BY <1>3, Places
<1>5. <<Header>> \in Seq(Msg)
  BY Messages
<1>6. TypeOK'
  <2>1. near' \in [Conn -> EndState] /\ far' \in [Conn -> EndState \ {"half"}]
    BY <1>1, <1>2 DEF TypeOK, EndState
  <2>2. up' \in [Conn -> Seq(Msg)] /\ down' \in [Conn -> Seq(Msg)]
    BY <1>1, <1>2, <1>5 DEF TypeOK
  <2>3. armed' \subseteq {"near", "far"} \X Conn
    BY <1>1, <1>2, <1>4, Ends DEF TypeOK
  <2>4. try' \in 0 .. MaxTries /\ served' \in 0 .. try'
    BY <1>1, <1>2, <1>3, TunnelAssumption
  <2>5. server' \in [Tries -> {"none", "header", "dial", "ack", "relay", "over"}]
    BY <1>1, <1>2 DEF TypeOK
  <2> QED
    BY <1>1, <1>2, <2>1, <2>2, <2>3, <2>4, <2>5 DEF TypeOK, peers
<1>7. \A c \in Conn \ {T(j)} : SameAt(c)
  BY <1>1, <1>2, <1>4, Ends DEF SameAt, TypeOK
<1>8. ClientSide'
  <2>1. near'[T(j)] = "open" /\ far'[A] = "open"
    BY <1>1, <1>2, <1>4, <1>7, Places DEF TypeOK, SameAt
  <2> QED
    BY <1>1, <1>2, <1>3, <2>1 DEF ClientSide
<1>9. ASSUME NEW i \in Tries, i # j
      PROVE  ServerSide(i)' /\ Early(i)'
  <2>1. SameAt(T(i)) /\ SameAt(X(i)) /\ server'[i] = server[i]
    BY <1>1, <1>2, <1>4, <1>7, <1>9, Places DEF TypeOK
  <2> QED
    BY <1>1, <1>2, <1>3, <2>1, SameKeeps, TriesAreNat DEF SetupInv, peers
<1>10. ServerSide(j)' /\ Early(j)'
  <2>1. /\ server[j] = "none" /\ ServerSide(j) /\ Early(j) /\ far[X(j)] = "none"
        /\ down[T(j)] = <<>>
    BY <1>3 DEF SetupInv, ServerSide
  <2>2. /\ near'[T(j)] = "open" /\ far'[T(j)] = "open" /\ up'[T(j)] = <<Header>>
        /\ server'[j] = "header" /\ SameAt(X(j)) /\ down' = down /\ gotUp' = gotUp
    BY <1>1, <1>2, <1>3, <1>4, <1>7, Places DEF TypeOK, peers
  <2>3. ServerSide(j)'
    BY <1>1, <1>3, <2>1, <2>2 DEF ServerSide, SameAt
  <2>4. Early(j)'
    BY <1>1, <1>2, <1>3, <2>1, <2>2 DEF Early, SameAt, Established
  <2> QED
    BY <2>3, <2>4
<1> QED
  BY <1>1, <1>2, <1>6, <1>8, <1>9, <1>10 DEF SetupInv, ServedIsConnected

LEMMA DialFailsKeeps == SetupInv /\ DialFails => SetupInv'
<1> SUFFICES ASSUME SetupInv, DialFails PROVE SetupInv'
  OBVIOUS
<1>1. /\ client = "select" /\ try < MaxTries /\ try' = try + 1
      /\ UNCHANGED <<front, head, near, far, up, down, armed, client, served, taken, kept, server, peers>>
  BY DEF DialFails, wires
<1>2. TypeOK /\ ClientSide /\ served = 0
  BY <1>1 DEF SetupInv, ClientSide
<1>3. try' \in 0 .. MaxTries /\ served' \in 0 .. try' /\ try' \in Nat /\ try <= try'
  BY <1>1, <1>2, TunnelAssumption DEF TypeOK
<1>4. TypeOK'
  BY <1>1, <1>2, <1>3 DEF TypeOK, peers
<1>5. ClientSide'
  BY <1>1, <1>2 DEF ClientSide
<1>6. \A c \in Conn : SameAt(c)
  BY <1>1 DEF SameAt
<1>7. ServedIsConnected' /\ \A i \in Tries : ServerSide(i)' /\ Early(i)'
  BY <1>1, <1>2, <1>3, <1>6, OnlyFront DEF peers
<1> QED
  BY <1>4, <1>5, <1>7 DEF SetupInv

(* Whatever closes the client engine's end of one tunnel, and at most the  *)
(* application's connection with it.                                       *)
LEMMA TunnelClosed ==
    ASSUME SetupInv, NEW j \in Tries, NEW F \in SUBSET {A}, CloseEnds({T(j)}, F),
           server' = server, gotUp' = gotUp, try' = try, served' = served,
           Established => Established'
    PROVE  /\ WiresTyped' /\ armed' \subseteq armed
           /\ \A i \in Tries : far'[X(i)] = far[X(i)]
           /\ near'[A] = near[A] /\ (F = {} => far'[A] = far[A]) /\ (A \in F => far'[A] = "closed")
           /\ ServedIsConnected' /\ \A i \in Tries : ServerSide(i)' /\ Early(i)'
<1>1. TypeOK /\ try \in Nat
  BY TunnelAssumption DEF SetupInv, TypeOK
<1>2. {T(j)} \in SUBSET Conn /\ F \in SUBSET Conn
  BY Places
<1>3. /\ WiresTyped' /\ armed' \subseteq armed
      /\ \A c \in Conn : near'[c] = IF c \in {T(j)} THEN "closed" ELSE near[c]
      /\ \A c \in Conn : far'[c] = IF c \in F THEN "closed" ELSE far[c]
      /\ \A c \in Conn : up'[c] = up[c] \/ up'[c] = <<>>
      /\ \A c \in {T(j)} : down'[c] = <<>>
      /\ \A c \in Conn : c \notin {T(j)} /\ c \notin F => SameAt(c)
  BY <1>1, <1>2, CloseFacts
<1>4. ASSUME NEW i \in Tries
      PROVE  /\ ServerSide(i) /\ Early(i) /\ SameAt(X(i))
             /\ far'[T(i)] = far[T(i)] /\ (i # j => SameAt(T(i)))
  <2>1. /\ X(i) \in Conn /\ X(i) # T(j) /\ X(i) # A /\ T(i) \in Conn /\ T(i) # A
        /\ i # j => T(i) # T(j)
    BY Places
  <2> QED
    BY <1>3, <2>1 DEF SetupInv
<1>5. ASSUME NEW i \in Tries, i # j
      PROVE  ServerSide(i)' /\ Early(i)'
  BY <1>1, <1>4, <1>5, SameKeeps
<1>6. ServerSide(j)' /\ Early(j)'
  <2>1. /\ near'[T(j)] = "closed" /\ down'[T(j)] = <<>>
        /\ up'[T(j)] = up[T(j)] \/ up'[T(j)] = <<>>
    BY <1>3, Places
  <2>2. ServerSide(j)'
    BY <1>3, <1>4, <2>1 DEF ServerSide, SameAt
  <2>3. Early(j)'
    BY <1>4, <2>1 DEF Early, SameAt
  <2> QED
    BY <2>2, <2>3
<1>7. ServedIsConnected'
  <2>1. served # 0 => served \in Tries
    BY TunnelAssumption DEF SetupInv, TypeOK, Tries
  <2> QED
    BY <1>4, <2>1 DEF SetupInv, ServedIsConnected, SameAt
<1>8. near'[A] = near[A] /\ (F = {} => far'[A] = far[A]) /\ (A \in F => far'[A] = "closed")
  BY <1>3, Places
<1> QED
  BY <1>3, <1>4, <1>5, <1>6, <1>7, <1>8 DEF SameAt

LEMMA AckedKeeps == SetupInv /\ Acked => SetupInv'
<1> SUFFICES ASSUME SetupInv, Acked PROVE SetupInv'
  OBVIOUS
<1>1. TypeOK /\ ClientSide /\ client = "wait" /\ served = 0
  BY DEF SetupInv, ClientSide, Acked
<1>2. PICK j \in Tries : j = try
  BY <1>1, TunnelAssumption DEF ClientSide, TypeOK, Tries
<1>3. /\ down[T(j)] # <<>> /\ Head(down[T(j)]) = Ok
      /\ down' = [down EXCEPT ![T(j)] = Tail(@)]
      /\ armed' = armed \ {NearEnd(T(j))}
      /\ served' = j /\ client' = "reply"
      /\ UNCHANGED <<front, head, near, far, up, try, taken, kept, server, peers>>
  BY <1>2 DEF Acked
<1>4. /\ j # 0 /\ T(j) \in Conn /\ T(j) # A
      /\ \A i \in Tries : X(i) # T(j) /\ (i # j => T(i) # T(j))
  BY Places, TriesAreNat
<1>5. TypeOK'
  <2>1. Tail(down[T(j)]) \in Seq(Msg)
    BY <1>1, <1>3, <1>4, Taken DEF TypeOK
  <2>2. served' \in 0 .. try'
    BY <1>1, <1>2, <1>3 DEF TypeOK
  <2> QED
    BY <1>1, <1>3, <2>1, <2>2 DEF TypeOK, peers
<1>6. \A c \in Conn \ {T(j)} : SameAt(c)
  BY <1>1, <1>3, <1>4, Ends DEF SameAt, TypeOK
<1>7. ServerSide(j) /\ Early(j) /\ far[X(j)] # "none"
  <2>1. ServerSide(j) /\ Early(j)
    BY DEF SetupInv
  <2>2. down[T(j)] # <<Refused>>
    BY <1>3, Messages
  <2> QED
    BY <1>3, <2>1, <2>2 DEF ServerSide
<1>8. ASSUME NEW i \in Tries, i # j
      PROVE  ServerSide(i)' /\ Early(i)'
  <2>1. SameAt(T(i)) /\ SameAt(X(i))
    BY <1>4, <1>6, <1>8, Places
  <2>2. try' \in Nat /\ try <= try'
    BY <1>1, <1>3, TunnelAssumption DEF TypeOK
  <2> QED
    BY <1>1, <1>3, <2>1, <2>2, SameKeeps DEF SetupInv, Established, peers
<1>9. ServerSide(j)' /\ Early(j)'
  <2>1. SameAt(X(j)) /\ near'[T(j)] = near[T(j)] /\ far'[T(j)] = far[T(j)]
    BY <1>3, <1>4, <1>6, Places
  <2>2. FarEnd(T(j)) \in armed' <=> FarEnd(T(j)) \in armed
    BY <1>3, <1>4, Ends
  <2>3. ServerSide(j)'
    BY <1>3, <1>7, <2>1, <2>2 DEF ServerSide, SameAt
  <2>4. Early(j)'
    BY <1>1, <1>3, <1>4, <1>7, <2>1 DEF Early, SameAt, peers
  <2> QED
    BY <2>3, <2>4
<1>10. ClientSide'
  BY <1>1, <1>2, <1>3, <1>4 DEF ClientSide
<1>11. ServedIsConnected'
  BY <1>3, <1>7 DEF ServedIsConnected
<1> QED
  BY <1>5, <1>8, <1>9, <1>10, <1>11 DEF SetupInv

LEMMA NotAckedKeeps == SetupInv /\ NotAcked => SetupInv'
<1> SUFFICES ASSUME SetupInv, NotAcked PROVE SetupInv'
  OBVIOUS
<1>1. TypeOK /\ ClientSide /\ client = "wait" /\ served = 0
  BY DEF SetupInv, ClientSide, NotAcked
<1>2. PICK j \in Tries : j = try
  BY <1>1, TunnelAssumption DEF ClientSide, TypeOK, Tries
<1>3. /\ CloseEnds({T(j)}, {}) /\ client' = "select"
      /\ UNCHANGED <<front, head, try, served, taken, kept, server, peers>>
  BY <1>2 DEF NotAcked
<1>4. /\ WiresTyped' /\ far'[A] = far[A]
      /\ ServedIsConnected' /\ \A i \in Tries : ServerSide(i)' /\ Early(i)'
  BY <1>1, <1>3, TunnelClosed DEF Established, peers
<1>5. TypeOK'
  BY <1>1, <1>3, <1>4 DEF TypeOK, WiresTyped, peers
<1>6. ClientSide'
  BY <1>1, <1>3, <1>4 DEF ClientSide
<1> QED
  BY <1>4, <1>5, <1>6 DEF SetupInv

LEMMA GiveUpKeeps == SetupInv /\ GiveUp => SetupInv'
<1> SUFFICES ASSUME SetupInv, GiveUp PROVE SetupInv'
  OBVIOUS
<1>1. TypeOK /\ ClientSide /\ client = "select" /\ served = 0
  BY DEF SetupInv, ClientSide, GiveUp
<1>2. /\ far' = [far EXCEPT ![A] = "closed"]
      /\ down' \in {SendDown(down, A, Refused), down}
      /\ up' = [up EXCEPT ![A] = <<>>]
      /\ armed' = armed \ {FarEnd(A)}
      /\ client' = "failed"
      /\ UNCHANGED <<front, head, near, try, served, taken, kept, server, peers>>
  BY DEF GiveUp
<1>3. down' \in [Conn -> Seq(Msg)] /\ \A c \in Conn \ {A} : down'[c] = down[c]
  <2>1. down \in [Conn -> Seq(Msg)] /\ A \in Conn /\ Refused \in Msg
    BY <1>1, Places, Messages DEF TypeOK
  <2>2. /\ SendDown(down, A, Refused) \in [Conn -> Seq(Msg)]
        /\ \A d \in Conn \ {A} : SendDown(down, A, Refused)[d] = down[d]
    BY <2>1, SendDownFacts
  <2>3. CASE down' = down
    BY <2>1, <2>3
  <2>4. CASE down' = SendDown(down, A, Refused)
    BY <2>2, <2>4
  <2> QED
    BY <1>2, <2>3, <2>4
<1>4. TypeOK'
  BY <1>1, <1>2, <1>3, Emptied DEF TypeOK, peers, EndState
<1>5. \A c \in Conn \ {A} : SameAt(c)
  BY <1>1, <1>2, <1>3, Places, Ends DEF SameAt, TypeOK
<1>6. ClientSide'
  BY <1>1, <1>2, Places DEF ClientSide, TypeOK
<1>7. ServedIsConnected' /\ \A i \in Tries : ServerSide(i)' /\ Early(i)'
  BY <1>1, <1>2, <1>5, OnlyFront, TunnelAssumption DEF TypeOK, peers
<1> QED
  BY <1>4, <1>6, <1>7 DEF SetupInv

-----------------------------------------------------------------------------
(* The client engine after the acknowledgement.                            *)
LEMMA ServedFacts ==
    ASSUME SetupInv, client \in {"reply", "relay"}
    PROVE  /\ served \in Tries /\ served = try /\ served # 0
           /\ near[T(served)] = "open" /\ far[A] = "open" /\ far[X(served)] # "none"
           /\ ServerSide(served) /\ Early(served)
           /\ far[T(served)] = "closed" => far[X(served)] = "closed"
<1>1. TypeOK /\ ClientSide /\ served # 0 /\ served = try
  BY DEF SetupInv, ClientSide
<1>2. served \in Tries
  BY <1>1, TunnelAssumption DEF TypeOK, Tries
<1>3. /\ near[T(served)] = "open" /\ far[A] = "open" /\ far[X(served)] # "none"
      /\ ServerSide(served) /\ Early(served)
  BY <1>1, <1>2 DEF SetupInv, ClientSide, ServedIsConnected
<1>4. server[served] \in {"none", "header", "dial", "ack", "relay", "over"}
  BY <1>1, <1>2 DEF TypeOK
<1> QED
  BY <1>1, <1>2, <1>3, <1>4 DEF ServerSide

LEMMA ReplyKeeps == SetupInv /\ Reply => SetupInv'
<1> SUFFICES ASSUME SetupInv, Reply PROVE SetupInv'
  OBVIOUS
<1>1. TypeOK /\ ClientSide /\ client = "reply"
  BY DEF SetupInv, Reply
<1>2. PICK j \in Tries : j = served
  BY <1>1, ServedFacts
<1>3. /\ j = try /\ near[T(j)] = "open" /\ far[A] = "open" /\ far[X(j)] # "none"
      /\ ServerSide(j) /\ j # 0
  BY <1>1, <1>2, ServedFacts
<1>4. /\ IF front = "plain"
         THEN up' = SendUp(up, T(j), Request(kept)) /\ down' = down
         ELSE up' = up /\ down' = SendDown(down, A, Ok)
      /\ armed' = armed \ {FarEnd(A)}
      /\ client' = "relay"
      /\ UNCHANGED <<front, head, near, far, try, served, taken, kept, server, peers>>
  BY <1>2 DEF Reply
<1>5. /\ T(j) \in Conn /\ A \in Conn /\ T(j) # A /\ X(j) # A /\ X(j) # T(j) /\ X(j) \in Conn
      /\ \A i \in Tries : X(i) # T(j) /\ (i # j => T(i) # T(j))
  BY Places
<1>6. /\ up' \in [Conn -> Seq(Msg)] /\ down' \in [Conn -> Seq(Msg)]
      /\ \A c \in Conn \ {A, T(j)} : up'[c] = up[c]
      /\ \A c \in Conn \ {A} : down'[c] = down[c]
  <2>1. CASE front = "plain"
    <3>1. up \in [Conn -> Seq(Msg)] /\ Request(kept) \in Msg
      BY <1>1, Messages, TunnelAssumption DEF TypeOK
    <3>2. /\ SendUp(up, T(j), Request(kept)) \in [Conn -> Seq(Msg)]
          /\ \A d \in Conn \ {T(j)} : SendUp(up, T(j), Request(kept))[d] = up[d]
      BY <1>5, <3>1, SendUpFacts
    <3> QED
      BY <1>1, <1>4, <2>1, <3>2 DEF TypeOK
  <2>2. CASE front # "plain"
    <3>1. /\ SendDown(down, A, Ok) \in [Conn -> Seq(Msg)]
          /\ \A d \in Conn \ {A} : SendDown(down, A, Ok)[d] = down[d]
      <4>1. down \in [Conn -> Seq(Msg)] /\ Ok \in Msg
        BY <1>1, Messages DEF TypeOK
      <4> QED
        BY <1>5, <4>1, SendDownFacts
    <3> QED
      BY <1>1, <1>4, <2>2, <3>1 DEF TypeOK
  <2> QED
    BY <2>1, <2>2
<1>7. TypeOK'
  BY <1>1, <1>4, <1>6 DEF TypeOK, peers
<1>8. /\ \A c \in Conn : NearEnd(c) \in armed' <=> NearEnd(c) \in armed
      /\ \A c \in Conn \ {A} : FarEnd(c) \in armed' <=> FarEnd(c) \in armed
      /\ FarEnd(A) \notin armed'
  BY <1>4, <1>5, Ends
<1>9. \A c \in Conn \ {A, T(j)} : SameAt(c)
  BY <1>4, <1>6, <1>8 DEF SameAt
<1>10. ASSUME NEW i \in Tries, i # j
       PROVE  ServerSide(i)' /\ Early(i)'
  <2>1. SameAt(T(i)) /\ SameAt(X(i))
    BY <1>5, <1>9, <1>10, Places
  <2>2. try' \in Nat /\ try <= try'
    BY <1>1, <1>4, TunnelAssumption DEF TypeOK
  <2> QED
    BY <1>2, <1>4, <1>10, <2>1, <2>2, SameKeeps DEF SetupInv, peers
<1>11. ServerSide(j)' /\ Early(j)'
  <2>1. down'[T(j)] = down[T(j)] /\ SameAt(X(j))
    BY <1>5, <1>6, <1>9
  <2>2. ServerSide(j)'
    BY <1>3, <1>4, <1>5, <1>8, <2>1 DEF ServerSide
  <2> QED
    BY <1>2, <1>4, <2>2 DEF Early, Established
<1>12. ClientSide' /\ ServedIsConnected'
  BY <1>1, <1>2, <1>3, <1>4, <1>5, <1>8 DEF ClientSide, ServedIsConnected
<1> QED
  BY <1>7, <1>10, <1>11, <1>12 DEF SetupInv

LEMMA ReplyFailsKeeps == SetupInv /\ ReplyFails => SetupInv'
<1> SUFFICES ASSUME SetupInv, ReplyFails PROVE SetupInv'
  OBVIOUS
<1>1. TypeOK /\ ClientSide /\ client = "reply"
  BY DEF SetupInv, ReplyFails
<1>2. PICK j \in Tries : j = served
  BY <1>1, ServedFacts
<1>3. /\ j = try /\ j # 0
      /\ far[T(j)] = "closed" => far[X(j)] = "closed"
  BY <1>1, <1>2, ServedFacts
<1>4. /\ near[A] = "closed" \/ far[T(j)] = "closed"
      /\ CloseEnds(IF front = "socks" THEN {T(j)} ELSE {}, {A})
      /\ client' = "failed"
      /\ UNCHANGED <<front, head, try, served, taken, kept, server, peers>>
  BY <1>2 DEF ReplyFails
<1>5. /\ WiresTyped' /\ armed' \subseteq armed
      /\ far'[X(j)] = far[X(j)] /\ near'[A] = near[A] /\ far'[A] = "closed"
      /\ ServedIsConnected' /\ \A i \in Tries : ServerSide(i)' /\ Early(i)'
  <2>1. CASE front = "socks"
    BY <1>1, <1>4, <2>1, TunnelClosed DEF Established, peers
  <2>2. CASE front # "socks"
    <3>1. {} \in SUBSET Conn /\ {A} \in SUBSET Conn /\ CloseEnds({}, {A})
      BY <1>4, <2>2, Places
    <3>2. /\ WiresTyped' /\ armed' \subseteq armed
          /\ \A c \in Conn : near'[c] = near[c]
          /\ \A c \in Conn \ {A} : SameAt(c)
          /\ far'[A] = "closed"
      BY <1>1, <3>1, CloseFacts
    <3>3. ServedIsConnected' /\ \A i \in Tries : ServerSide(i)' /\ Early(i)'
      BY <1>1, <1>4, <3>2, OnlyFront, TunnelAssumption DEF TypeOK, peers, Established
    <3> QED
      BY <3>2, <3>3, Places DEF SameAt
  <2> QED
    BY <2>1, <2>2
<1>6. TypeOK'
  BY <1>1, <1>4, <1>5 DEF TypeOK, WiresTyped, peers
<1>7. Reason(j)'
  BY <1>3, <1>4, <1>5 DEF Reason, Done
<1>8. ClientSide'
  BY <1>1, <1>2, <1>3, <1>4, <1>5, <1>7 DEF ClientSide
<1> QED
  BY <1>5, <1>6, <1>8 DEF SetupInv

LEMMA ClientCarryKeeps == SetupInv /\ ClientCarry => SetupInv'
<1> SUFFICES ASSUME SetupInv, ClientCarry PROVE SetupInv'
  OBVIOUS
<1>1. TypeOK /\ ClientSide /\ client = "relay"
  BY DEF SetupInv, ClientCarry
<1>2. PICK j \in Tries : j = served
  BY <1>1, ServedFacts
<1>3. ServerSide(j) /\ far[X(j)] # "none" /\ j = try /\ j # 0
  BY <1>1, <1>2, ServedFacts
<1>4. /\ Carry(A, T(j))
      /\ UNCHANGED <<front, head, client, try, served, taken, kept, server, peers>>
  BY <1>2 DEF ClientCarry
<1>5. A \in Conn /\ T(j) \in Conn /\ A # T(j)
  BY Places
<1>6. /\ WiresTyped'
      /\ UNCHANGED <<near, far, armed>>
      /\ \A e \in Conn \ {A, T(j)} : SameAt(e)
      /\ down'[T(j)] = down[T(j)] \/ down[T(j)] # <<>>
  BY <1>1, <1>4, <1>5, CarryFacts
<1>7. TypeOK'
  BY <1>1, <1>4, <1>6 DEF TypeOK, WiresTyped, peers
<1>8. ASSUME NEW i \in Tries, i # j
       PROVE  ServerSide(i)' /\ Early(i)'
  <2>1. SameAt(T(i)) /\ SameAt(X(i))
    BY <1>6, <1>8, Places
  <2>2. try' \in Nat /\ try <= try'
    BY <1>1, <1>4, TunnelAssumption DEF TypeOK
  <2> QED
    BY <1>2, <1>4, <1>8, <2>1, <2>2, SameKeeps DEF SetupInv, peers
<1>9. ServerSide(j)' /\ Early(j)'
  <2>1. ServerSide(j)'
    BY <1>3, <1>4, <1>6 DEF ServerSide
  <2> QED
    BY <1>1, <1>2, <1>4, <2>1 DEF Early, Established
<1>10. ClientSide' /\ ServedIsConnected'
  BY <1>1, <1>2, <1>3, <1>4, <1>6 DEF ClientSide, ServedIsConnected
<1> QED
  BY <1>7, <1>8, <1>9, <1>10 DEF SetupInv

LEMMA ClientEndsKeeps == SetupInv /\ ClientEnds => SetupInv'
<1> SUFFICES ASSUME SetupInv, ClientEnds PROVE SetupInv'
  OBVIOUS
<1>1. TypeOK /\ ClientSide /\ client = "relay"
  BY DEF SetupInv, ClientEnds
<1>2. PICK j \in Tries : j = served
  BY <1>1, ServedFacts
<1>3. /\ near[T(j)] = "open" /\ far[A] = "open" /\ j = try /\ j # 0
      /\ far[T(j)] = "closed" => far[X(j)] = "closed"
  BY <1>1, <1>2, ServedFacts
<1>4. /\ MayEnd(A, T(j)) /\ CloseEnds({T(j)}, {A}) /\ client' = "over"
      /\ UNCHANGED <<front, head, try, served, taken, kept, server, peers>>
  BY <1>2 DEF ClientEnds, CloseBoth
<1>5. /\ WiresTyped' /\ armed' \subseteq armed
      /\ far'[X(j)] = far[X(j)] /\ near'[A] = near[A] /\ far'[A] = "closed"
      /\ ServedIsConnected' /\ \A i \in Tries : ServerSide(i)' /\ Early(i)'
  BY <1>1, <1>4, TunnelClosed DEF Established, peers
<1>6. TypeOK'
  BY <1>1, <1>4, <1>5 DEF TypeOK, WiresTyped, peers
<1>7. Reason(j)'
  <2>1. far[T(j)] # "half"
    BY <1>1, Places DEF TypeOK
  <2>2. near[A] \in Done \/ far[T(j)] = "closed"
    BY <1>1, <1>2, <1>4, <2>1 DEF MayEnd, UpEnds, DownEnds, ClientSide, Done
  <2> QED
    BY <1>3, <1>5, <2>2 DEF Reason, Done
<1>8. ClientSide'
  BY <1>1, <1>2, <1>3, <1>4, <1>5, <1>7 DEF ClientSide
<1> QED
  BY <1>5, <1>6, <1>8 DEF SetupInv

LEMMA CollectKeeps == SetupInv /\ Collect => SetupInv'
<1> SUFFICES ASSUME SetupInv, Collect PROVE SetupInv'
  OBVIOUS
<1>1. TypeOK /\ ClientSide /\ client = "failed"
  BY DEF SetupInv, Collect
<1>2. PICK j \in Tries : CloseEnds({T(j)}, {})
  BY DEF Collect
<1>3. UNCHANGED <<front, head, client, try, served, taken, kept, server, peers>>
  BY DEF Collect
<1>4. /\ WiresTyped' /\ armed' \subseteq armed
      /\ \A i \in Tries : far'[X(i)] = far[X(i)]
      /\ near'[A] = near[A] /\ far'[A] = far[A]
      /\ ServedIsConnected' /\ \A i \in Tries : ServerSide(i)' /\ Early(i)'
  BY <1>2, <1>3, TunnelClosed DEF Established, peers
<1>5. TypeOK'
  BY <1>1, <1>3, <1>4 DEF TypeOK, WiresTyped, peers
<1>6. served # 0 => served \in Tries
  BY <1>1, TunnelAssumption DEF TypeOK, Tries
<1>7. ClientSide'
  BY <1>1, <1>3, <1>4, <1>6 DEF ClientSide, Reason
<1> QED
  BY <1>4, <1>5, <1>7 DEF SetupInv

-----------------------------------------------------------------------------
(* The server engines.                                                     *)

(* A step of the server engine of try j, or of its target, on its two      *)
(* connections.                                                            *)
LEMMA OneServer ==
    ASSUME SetupInv, NEW j \in Tries,
           \A c \in Conn : c \notin {T(j), X(j)} => SameAt(c),
           near'[T(j)] = near[T(j)],
           armed' \subseteq armed,
           \A i \in Tries : i # j => server'[i] = server[i] /\ gotUp'[i] = gotUp[i],
           UNCHANGED <<client, try, served, taken, kept, sentUp>>,
           far[X(j)] # "none" => far'[X(j)] # "none",
           far[X(j)] \in Done => far'[X(j)] \in Done,
           ServerSide(j)', Early(j)'
    PROVE  ClientSide' /\ ServedIsConnected' /\ \A i \in Tries : ServerSide(i)' /\ Early(i)'
<1>1. TypeOK /\ ClientSide /\ try \in Nat
  <2>1. TypeOK /\ ClientSide
    BY DEF SetupInv
  <2>2. try \in 0 .. MaxTries
    BY <2>1 DEF TypeOK
  <2> QED
    BY <2>1, <2>2, TunnelAssumption
<1>2. ASSUME NEW i \in Tries, i # j
      PROVE  SameAt(T(i)) /\ SameAt(X(i))
  BY <1>2, Places
<1>3. ASSUME NEW i \in Tries, i # j
      PROVE  ServerSide(i)' /\ Early(i)'
  BY <1>1, <1>2, <1>3, SameKeeps DEF SetupInv, Established
<1>4. SameAt(A)
  BY Places
<1>5. served # 0 => served \in Tries
  BY <1>1, TunnelAssumption DEF TypeOK, Tries
<1>6. client = "wait" => try \in Tries
  BY <1>1, TunnelAssumption DEF TypeOK, Tries, ClientSide
<1>7. ServedIsConnected'
  BY <1>2, <1>5 DEF SetupInv, ServedIsConnected, SameAt
<1>8. \A i \in Tries : near'[T(i)] = near[T(i)] /\ (Reason(i) => Reason(i)')
  BY <1>2, <1>4 DEF SameAt, Reason
<1>9. ClientSide'
  BY <1>1, <1>4, <1>5, <1>6, <1>8 DEF ClientSide, SameAt
<1> QED
  BY <1>3, <1>7, <1>9

(* One message read from a connection that held one, or added to none.     *)
LEMMA OneMessage ==
    ASSUME NEW m \in Msg
    PROVE  Tail(<<m>>) = <<>> /\ Append(<<>>, m) = <<m>> /\ <<m>> # <<>>
<1>1. <<m>> \in Seq(Msg) /\ Len(<<m>>) = 1
  OBVIOUS
<1>2. Tail(<<m>>) \in Seq(Msg) /\ Len(Tail(<<m>>)) = 0 /\ <<m>> # <<>>
  BY <1>1, HeadTailProperties, EmptySeq
<1> QED
  BY <1>2, EmptySeq

LEMMA ReadHeaderKeeps == ASSUME NEW j \in Tries PROVE SetupInv /\ ReadHeader(j) => SetupInv'
<1> SUFFICES ASSUME SetupInv, ReadHeader(j) PROVE SetupInv'
  OBVIOUS
<1>1. /\ TypeOK /\ ServerSide(j) /\ Early(j) /\ ServedIsConnected
      /\ T(j) \in Conn /\ X(j) \in Conn /\ T(j) # X(j)
  BY Places DEF SetupInv
<1>2. /\ server[j] = "header" /\ up[T(j)] # <<>>
      /\ up' = [up EXCEPT ![T(j)] = Tail(@)]
      /\ server' = [server EXCEPT ![j] = "dial"]
      /\ UNCHANGED <<front, head, near, far, down, armed, client, try, served, taken, kept, peers>>
  BY DEF ReadHeader, ServerGoes
<1>3. far[X(j)] = "none" /\ j # served /\ up[T(j)] = <<Header>>
  BY <1>1, <1>2, TriesAreNat DEF ServerSide, ServedIsConnected, Early
<1>4. /\ Tail(up[T(j)]) = <<>> /\ Tail(up[T(j)]) \in Seq(Msg)
  BY <1>3, OneMessage, Messages, Emptied
<1>5. TypeOK'
  BY <1>1, <1>2, <1>4 DEF TypeOK, peers
<1>6. \A c \in Conn : c \notin {T(j), X(j)} => SameAt(c)
  BY <1>1, <1>2 DEF SameAt, TypeOK
<1>7. up'[T(j)] = <<>> /\ up'[X(j)] = up[X(j)] /\ server'[j] = "dial"
  BY <1>1, <1>2, <1>4 DEF TypeOK
<1>8. ServerSide(j)' /\ Early(j)'
  BY <1>1, <1>2, <1>3, <1>7 DEF ServerSide, Early, peers
<1>9. \A i \in Tries : i # j => server'[i] = server[i] /\ gotUp'[i] = gotUp[i]
  BY <1>1, <1>2 DEF TypeOK, peers
<1> QED
  BY <1>1, <1>2, <1>5, <1>6, <1>8, <1>9, OneServer DEF SetupInv, peers

LEMMA ReadHeaderFailsKeeps ==
    ASSUME NEW j \in Tries PROVE SetupInv /\ ReadHeaderFails(j) => SetupInv'
<1> SUFFICES ASSUME SetupInv, ReadHeaderFails(j) PROVE SetupInv'
  OBVIOUS
<1>1. /\ TypeOK /\ ServerSide(j) /\ Early(j)
      /\ T(j) \in Conn /\ X(j) \in Conn /\ T(j) # X(j)
      /\ {} \in SUBSET Conn /\ {T(j)} \in SUBSET Conn
  BY Places DEF SetupInv
<1>2. /\ server[j] = "header" /\ CloseEnds({}, {T(j)})
      /\ server' = [server EXCEPT ![j] = "over"]
      /\ UNCHANGED <<front, head, client, try, served, taken, kept, peers>>
  BY DEF ReadHeaderFails, ServerGoes
<1>3. /\ WiresTyped' /\ armed' \subseteq armed
      /\ \A c \in Conn : c # T(j) => SameAt(c)
      /\ near'[T(j)] = near[T(j)] /\ far'[T(j)] = "closed" /\ up'[T(j)] = <<>>
      /\ down'[T(j)] = down[T(j)] \/ down'[T(j)] = <<>>
  BY <1>1, <1>2, CloseFacts
<1>4. TypeOK'
  BY <1>1, <1>2, <1>3 DEF TypeOK, WiresTyped, peers
<1>5. SameAt(X(j)) /\ server'[j] = "over"
  BY <1>1, <1>2, <1>3 DEF TypeOK
<1>6. ServerSide(j)' /\ Early(j)'
  BY <1>1, <1>2, <1>3, <1>5 DEF ServerSide, Early, SameAt, peers, Established
<1>7. \A i \in Tries : i # j => server'[i] = server[i] /\ gotUp'[i] = gotUp[i]
  BY <1>1, <1>2 DEF TypeOK, peers
<1> QED
  BY <1>1, <1>2, <1>3, <1>4, <1>5, <1>6, <1>7, OneServer DEF SetupInv, peers, SameAt

LEMMA DialTargetKeeps == ASSUME NEW j \in Tries PROVE SetupInv /\ DialTarget(j) => SetupInv'
<1> SUFFICES ASSUME SetupInv, DialTarget(j) PROVE SetupInv'
  OBVIOUS
<1>1. /\ TypeOK /\ ServerSide(j) /\ Early(j)
      /\ T(j) \in Conn /\ X(j) \in Conn /\ T(j) # X(j)
  BY Places DEF SetupInv
<1>2. /\ server[j] = "dial"
      /\ near' = [near EXCEPT ![X(j)] = "open"]
      /\ far' = [far EXCEPT ![X(j)] = "open"]
      /\ server' = [server EXCEPT ![j] = "ack"]
      /\ UNCHANGED <<front, head, up, down, armed, client, try, served, taken, kept, peers>>
  BY DEF DialTarget, ServerGoes
<1>3. TypeOK'
  BY <1>1, <1>2 DEF TypeOK, peers, EndState
<1>4. \A c \in Conn : c # X(j) => SameAt(c)
  BY <1>1, <1>2 DEF SameAt, TypeOK
<1>5. near'[X(j)] = "open" /\ far'[X(j)] = "open" /\ server'[j] = "ack" /\ SameAt(T(j))
  BY <1>1, <1>2, <1>4 DEF TypeOK
<1>6. ServerSide(j)' /\ Early(j)'
  BY <1>1, <1>2, <1>5 DEF ServerSide, Early, SameAt, peers, Established
<1>7. \A i \in Tries : i # j => server'[i] = server[i] /\ gotUp'[i] = gotUp[i]
  BY <1>1, <1>2 DEF TypeOK, peers
<1>8. far[X(j)] \notin Done
  BY <1>1, <1>2 DEF ServerSide, Done
<1> QED
  BY <1>1, <1>2, <1>3, <1>4, <1>5, <1>6, <1>7, <1>8, OneServer DEF SetupInv, peers, SameAt

LEMMA DialTargetFailsKeeps ==
    ASSUME NEW j \in Tries PROVE SetupInv /\ DialTargetFails(j) => SetupInv'
<1> SUFFICES ASSUME SetupInv, DialTargetFails(j) PROVE SetupInv'
  OBVIOUS
<1>1. /\ TypeOK /\ ServerSide(j) /\ Early(j)
      /\ T(j) \in Conn /\ X(j) \in Conn /\ T(j) # X(j)
  BY Places DEF SetupInv
<1>2. /\ server[j] = "dial"
      /\ far' = [far EXCEPT ![T(j)] = "closed"]
      /\ up' = [up EXCEPT ![T(j)] = <<>>]
      /\ down' = SendDown(down, T(j), Refused)
      /\ armed' = armed \ {FarEnd(T(j))}
      /\ server' = [server EXCEPT ![j] = "over"]
      /\ UNCHANGED <<front, head, near, client, try, served, taken, kept, peers>>
  BY DEF DialTargetFails, ServerGoes
<1>3. /\ down' \in [Conn -> Seq(Msg)]
      /\ \A c \in Conn \ {T(j)} : down'[c] = down[c]
      /\ down'[T(j)] \in {<<>>, <<Refused>>}
  <2>1. down \in [Conn -> Seq(Msg)] /\ Refused \in Msg /\ down[T(j)] = <<>>
    BY <1>1, <1>2, Messages DEF TypeOK, ServerSide
  <2> DEFINE w == SendDown(down, T(j), Refused)
  <2>2. /\ w \in [Conn -> Seq(Msg)]
        /\ \A c \in Conn \ {T(j)} : w[c] = down[c]
        /\ w[T(j)] = IF near[T(j)] = "closed" THEN down[T(j)] ELSE Append(down[T(j)], Refused)
    BY <1>1, <2>1, SendDownFacts
  <2>3. w[T(j)] \in {<<>>, <<Refused>>}
    BY <2>1, <2>2, OneMessage
  <2> QED
    BY <1>2, <2>2, <2>3
<1>4. TypeOK'
  BY <1>1, <1>2, <1>3, Emptied DEF TypeOK, peers, EndState
<1>5. \A c \in Conn : c # T(j) => SameAt(c)
  BY <1>1, <1>2, <1>3, Ends DEF SameAt, TypeOK
<1>6. far'[T(j)] = "closed" /\ up'[T(j)] = <<>> /\ server'[j] = "over" /\ SameAt(X(j))
  BY <1>1, <1>2, <1>5 DEF TypeOK
<1>7. ServerSide(j)' /\ Early(j)'
  BY <1>1, <1>2, <1>3, <1>6 DEF ServerSide, Early, SameAt, peers, Established
<1>8. \A i \in Tries : i # j => server'[i] = server[i] /\ gotUp'[i] = gotUp[i]
  BY <1>1, <1>2 DEF TypeOK, peers
<1> QED
  BY <1>1, <1>2, <1>4, <1>5, <1>6, <1>7, <1>8, OneServer DEF SetupInv, peers, SameAt

LEMMA AckKeeps == ASSUME NEW j \in Tries PROVE SetupInv /\ Ack(j) => SetupInv'
<1> SUFFICES ASSUME SetupInv, Ack(j) PROVE SetupInv'
  OBVIOUS
<1>1. /\ TypeOK /\ ServerSide(j) /\ Early(j)
      /\ T(j) \in Conn /\ X(j) \in Conn /\ T(j) # X(j)
  BY Places DEF SetupInv
<1>2. /\ server[j] = "ack"
      /\ down' = SendDown(down, T(j), Ok)
      /\ armed' = armed \ {FarEnd(T(j))}
      /\ server' = [server EXCEPT ![j] = "relay"]
      /\ UNCHANGED <<front, head, near, far, up, client, try, served, taken, kept, peers>>
  BY DEF Ack, ServerGoes
<1>3. /\ down' \in [Conn -> Seq(Msg)]
      /\ \A c \in Conn \ {T(j)} : down'[c] = down[c]
  <2>1. down \in [Conn -> Seq(Msg)] /\ Ok \in Msg
    BY <1>1, Messages DEF TypeOK
  <2>2. /\ SendDown(down, T(j), Ok) \in [Conn -> Seq(Msg)]
        /\ \A c \in Conn \ {T(j)} : SendDown(down, T(j), Ok)[c] = down[c]
    BY <1>1, <2>1, SendDownFacts
  <2> QED
    BY <1>2, <2>2
<1>4. TypeOK'
  BY <1>1, <1>2, <1>3 DEF TypeOK, peers
<1>5. \A c \in Conn : c # T(j) => SameAt(c)
  BY <1>1, <1>2, <1>3, Ends DEF SameAt, TypeOK
<1>6. FarEnd(T(j)) \notin armed' /\ server'[j] = "relay" /\ SameAt(X(j))
  BY <1>1, <1>2, <1>5 DEF TypeOK
<1>7. ServerSide(j)' /\ Early(j)'
  BY <1>1, <1>2, <1>3, <1>6 DEF ServerSide, Early, SameAt, peers, Established
<1>8. \A i \in Tries : i # j => server'[i] = server[i] /\ gotUp'[i] = gotUp[i]
  BY <1>1, <1>2 DEF TypeOK, peers
<1> QED
  BY <1>1, <1>2, <1>4, <1>5, <1>6, <1>7, <1>8, OneServer DEF SetupInv, peers, SameAt

(* A server engine that ends closes both its connections, and had a reason *)
(* to on one side of them.                                                 *)
LEMMA ServerOverKeeps ==
    ASSUME SetupInv, NEW j \in Tries, server[j] \in {"ack", "relay"},
           near[T(j)] = "closed" \/ far[X(j)] = "closed",
           CloseEnds({X(j)}, {T(j)}), ServerGoes(j, "over")
    PROVE  SetupInv'
<1>1. /\ TypeOK /\ ServerSide(j) /\ Early(j)
      /\ T(j) \in Conn /\ X(j) \in Conn /\ T(j) # X(j)
      /\ {X(j)} \in SUBSET Conn /\ {T(j)} \in SUBSET Conn
  BY Places DEF SetupInv
<1>2. /\ server' = [server EXCEPT ![j] = "over"]
      /\ UNCHANGED <<front, head, client, try, served, taken, kept, peers>>
  BY DEF ServerGoes
<1>3. /\ WiresTyped' /\ armed' \subseteq armed
      /\ \A c \in Conn : c \notin {T(j), X(j)} => SameAt(c)
      /\ near'[T(j)] = near[T(j)] /\ near'[X(j)] = "closed" /\ far'[T(j)] = "closed"
      /\ far'[X(j)] = far[X(j)]
      /\ up'[T(j)] = <<>> /\ (up'[X(j)] = up[X(j)] \/ up'[X(j)] = <<>>)
  BY <1>1, CloseFacts
<1>4. TypeOK'
  BY <1>1, <1>2, <1>3 DEF TypeOK, WiresTyped, peers
<1>5. server'[j] = "over"
  BY <1>1, <1>2 DEF TypeOK
<1>6. ServerSide(j)' /\ Early(j)'
  BY <1>1, <1>2, <1>3, <1>5 DEF ServerSide, Early, peers, Established
<1>7. \A i \in Tries : i # j => server'[i] = server[i] /\ gotUp'[i] = gotUp[i]
  BY <1>1, <1>2 DEF TypeOK, peers
<1> QED
  BY <1>1, <1>2, <1>3, <1>4, <1>5, <1>6, <1>7, OneServer DEF SetupInv, peers

LEMMA ServerEndsKeeps ==
    ASSUME NEW j \in Tries PROVE SetupInv /\ (AckFails(j) \/ ServerEnds(j)) => SetupInv'
<1> SUFFICES ASSUME SetupInv, AckFails(j) \/ ServerEnds(j) PROVE SetupInv'
  OBVIOUS
<1>1. CASE AckFails(j)
  BY <1>1, ServerOverKeeps DEF AckFails
<1>2. CASE ServerEnds(j)
  <2>1. /\ server[j] = "relay" /\ MayEnd(T(j), X(j)) /\ CloseEnds({X(j)}, {T(j)})
        /\ ServerGoes(j, "over")
    BY <1>2 DEF ServerEnds, CloseBoth
  <2>2. ServerSide(j) /\ far[X(j)] # "half"
    BY Places DEF SetupInv, TypeOK
  <2>3. near[T(j)] = "closed" \/ far[X(j)] = "closed"
    BY <2>1, <2>2 DEF MayEnd, UpEnds, DownEnds, ServerSide, Done
  <2> QED
    BY <2>1, <2>3, ServerOverKeeps
<1> QED
  BY <1>1, <1>2

LEMMA ServerCarryKeeps == ASSUME NEW j \in Tries PROVE SetupInv /\ ServerCarry(j) => SetupInv'
<1> SUFFICES ASSUME SetupInv, ServerCarry(j) PROVE SetupInv'
  OBVIOUS
<1>1. /\ TypeOK /\ ServerSide(j) /\ Early(j)
      /\ T(j) \in Conn /\ X(j) \in Conn /\ T(j) # X(j)
  BY Places DEF SetupInv
<1>2. /\ server[j] = "relay" /\ Carry(T(j), X(j))
      /\ UNCHANGED <<front, head, server, client, try, served, taken, kept, peers>>
  BY DEF ServerCarry, ServerGoes, SetupInv, TypeOK
<1>3. /\ WiresTyped'
      /\ UNCHANGED <<near, far, armed>>
      /\ \A c \in Conn : c \notin {T(j), X(j)} => SameAt(c)
      /\ up[T(j)] # <<>> \/ up' = up
  BY <1>1, <1>2, CarryFacts
<1>4. TypeOK'
  BY <1>1, <1>2, <1>3 DEF TypeOK, WiresTyped, peers
<1>5. ServerSide(j)' /\ Early(j)'
  BY <1>1, <1>2, <1>3 DEF ServerSide, Early, peers, Established
<1> QED
  BY <1>1, <1>2, <1>3, <1>4, <1>5, OneServer DEF SetupInv, peers

-----------------------------------------------------------------------------
(* The application and the targets.                                        *)
LEMMA TargetSendsKeeps == ASSUME NEW j \in Tries PROVE SetupInv /\ TargetSends(j) => SetupInv'
<1> SUFFICES ASSUME SetupInv, TargetSends(j) PROVE SetupInv'
  OBVIOUS
<1>1. /\ TypeOK /\ ServerSide(j) /\ Early(j)
      /\ T(j) \in Conn /\ X(j) \in Conn /\ T(j) # X(j)
  BY Places DEF SetupInv
<1>2. /\ sentDown[j] < MaxDown /\ sentDown' = [sentDown EXCEPT ![j] = @ + 1]
      /\ down' = SendDown(down, X(j), Byte(sentDown[j] + 1))
      /\ UNCHANGED <<front, head, near, far, up, armed, server, client, try, served, taken, kept,
                     sentUp, gotUp, gotDown>>
  BY DEF TargetSends, engines
<1>3. sentDown[j] + 1 \in 0 .. MaxDown
  BY <1>1, <1>2, TunnelAssumption DEF TypeOK
<1>4. /\ down' \in [Conn -> Seq(Msg)]
      /\ \A c \in Conn \ {X(j)} : down'[c] = down[c]
  <2>1. sentDown[j] + 1 \in Nat
    BY <1>3
  <2>2. down \in [Conn -> Seq(Msg)] /\ Byte(sentDown[j] + 1) \in Msg
    BY <1>1, <2>1, Messages DEF TypeOK
  <2>3. /\ SendDown(down, X(j), Byte(sentDown[j] + 1)) \in [Conn -> Seq(Msg)]
        /\ \A c \in Conn \ {X(j)} : SendDown(down, X(j), Byte(sentDown[j] + 1))[c] = down[c]
    BY <1>1, <2>2, SendDownFacts
  <2> QED
    BY <1>2, <2>3
<1>5. TypeOK'
  <2>1. sentDown' \in [Tries -> 0 .. MaxDown]
    BY <1>1, <1>2, <1>3 DEF TypeOK
  <2> QED
    BY <1>1, <1>2, <1>4, <2>1 DEF TypeOK
<1>6. \A c \in Conn : c # X(j) => SameAt(c)
  BY <1>2, <1>4 DEF SameAt
<1>7. ServerSide(j)' /\ Early(j)'
  BY <1>1, <1>2, <1>4 DEF ServerSide, Early, Established
<1> QED
  BY <1>1, <1>2, <1>5, <1>6, <1>7, OneServer DEF SetupInv

LEMMA TargetReadsKeeps == ASSUME NEW j \in Tries PROVE SetupInv /\ TargetReads(j) => SetupInv'
<1> SUFFICES ASSUME SetupInv, TargetReads(j) PROVE SetupInv'
  OBVIOUS
<1>1. /\ TypeOK /\ ServerSide(j) /\ Early(j)
      /\ T(j) \in Conn /\ X(j) \in Conn /\ T(j) # X(j)
  BY Places DEF SetupInv
<1>2. /\ up[X(j)] # <<>>
      /\ gotUp' = [gotUp EXCEPT ![j] = Append(@, Head(up[X(j)]))]
      /\ up' = [up EXCEPT ![X(j)] = Tail(@)]
      /\ UNCHANGED <<front, head, near, far, down, armed, server, client, try, served, taken, kept,
                     sentUp, sentDown, gotDown>>
  BY DEF TargetReads, engines
<1>3. TypeOK'
  <2>1. Head(up[X(j)]) \in Msg /\ Tail(up[X(j)]) \in Seq(Msg)
    BY <1>1, <1>2, Taken DEF TypeOK
  <2>2. Append(gotUp[j], Head(up[X(j)])) \in Seq(Msg)
    BY <1>1, <2>1, Added DEF TypeOK
  <2>3. up' \in [Conn -> Seq(Msg)] /\ gotUp' \in [Tries -> Seq(Msg)]
    BY <1>1, <1>2, <2>1, <2>2 DEF TypeOK
  <2> QED
    BY <1>1, <1>2, <2>3 DEF TypeOK
<1>4. \A c \in Conn : c # X(j) => SameAt(c)
  BY <1>1, <1>2 DEF SameAt, TypeOK
<1>5. ServerSide(j)' /\ Early(j)'
  BY <1>1, <1>2 DEF ServerSide, Early, Established
<1>6. \A i \in Tries : i # j => gotUp'[i] = gotUp[i]
  BY <1>1, <1>2 DEF TypeOK
<1> QED
  BY <1>1, <1>2, <1>3, <1>4, <1>5, <1>6, OneServer DEF SetupInv

LEMMA TargetClosesKeeps ==
    ASSUME NEW j \in Tries PROVE SetupInv /\ TargetCloses(j) => SetupInv'
<1> SUFFICES ASSUME SetupInv, TargetCloses(j) PROVE SetupInv'
  OBVIOUS
<1>1. /\ TypeOK /\ ServerSide(j) /\ Early(j)
      /\ T(j) \in Conn /\ X(j) \in Conn /\ T(j) # X(j)
      /\ {} \in SUBSET Conn /\ {X(j)} \in SUBSET Conn
  BY Places DEF SetupInv
<1>2. /\ far[X(j)] = "open" /\ CloseEnds({}, {X(j)})
      /\ UNCHANGED <<front, head, server, client, try, served, taken, kept, peers>>
  BY DEF TargetCloses
<1>3. /\ WiresTyped' /\ armed' \subseteq armed
      /\ \A c \in Conn : c # X(j) => SameAt(c)
      /\ near'[X(j)] = near[X(j)] /\ far'[X(j)] = "closed"
      /\ up'[X(j)] = <<>>
  BY <1>1, <1>2, CloseFacts
<1>4. TypeOK'
  BY <1>1, <1>2, <1>3 DEF TypeOK, WiresTyped, peers
<1>5. SameAt(T(j))
  BY <1>1, <1>3
<1>6. ServerSide(j)' /\ Early(j)'
  BY <1>1, <1>2, <1>3, <1>5 DEF ServerSide, Early, SameAt, peers, Established
<1> QED
  BY <1>1, <1>2, <1>3, <1>4, <1>5, <1>6, OneServer DEF SetupInv, peers, SameAt, Done

(* A step of the application touches its own connection only, and nobody   *)
(* else's end of that.                                                     *)
LEMMA AppKeeps ==
    SetupInv /\ (AppSends \/ AppReads \/ AppHalfCloses \/ AppCloses) => SetupInv'
<1> SUFFICES ASSUME SetupInv, AppSends \/ AppReads \/ AppHalfCloses \/ AppCloses
             PROVE  SetupInv'
  OBVIOUS
<1>1. TypeOK /\ ClientSide /\ A \in Conn /\ try \in Nat
  BY Places, TunnelAssumption DEF SetupInv, TypeOK
(* It is enough to look at A.                                              *)
<1>2. ASSUME TypeOK', \A c \in Conn \ {A} : SameAt(c), armed' \subseteq armed,
             far'[A] = far[A], near[A] \in Done => near'[A] \in Done,
             client = "parse" => Len(up'[A]) <= sentUp' + 1,
             UNCHANGED <<client, try, served, taken, kept, server, gotUp>>
      PROVE  SetupInv'
  <2>1. ServedIsConnected' /\ \A i \in Tries : ServerSide(i)' /\ Early(i)'
    BY <1>1, <1>2, OnlyFront DEF Established
  <2>2. served # 0 => served \in Tries
    BY <1>1, TunnelAssumption DEF TypeOK, Tries
  <2>3. client = "wait" => try \in Tries
    BY <1>1, TunnelAssumption DEF TypeOK, Tries, ClientSide
  <2>4. \A i \in Tries : near'[T(i)] = near[T(i)] /\ (Reason(i) => Reason(i)')
    BY <1>2, Places DEF SameAt, Reason
  <2>5. ClientSide'
    BY <1>1, <1>2, <2>2, <2>3, <2>4 DEF ClientSide
  <2> QED
    BY <1>2, <2>1, <2>5 DEF SetupInv
<1>3. CASE AppSends
  <2>1. /\ UNCHANGED <<front, head, near, far, down, armed, client, try, served, taken, kept, server,
                       sentDown, gotUp, gotDown>>
        /\ sentUp \in Nat /\ up[A] \in Seq(Msg) /\ up \in [Conn -> Seq(Msg)]
    BY <1>1, <1>3, TunnelAssumption DEF AppSends, engines, TypeOK
  <2>2. PICK m \in Msg : up' = SendUp(up, A, m)
    BY <1>3, <2>1, Messages DEF AppSends
  <2>3. /\ up' \in [Conn -> Seq(Msg)]
        /\ \A c \in Conn \ {A} : up'[c] = up[c]
        /\ up'[A] = IF far[A] = "closed" THEN up[A] ELSE Append(up[A], m)
    <3>1. /\ SendUp(up, A, m) \in [Conn -> Seq(Msg)]
          /\ \A c \in Conn \ {A} : SendUp(up, A, m)[c] = up[c]
          /\ SendUp(up, A, m)[A] = IF far[A] = "closed" THEN up[A] ELSE Append(up[A], m)
      BY <1>1, <2>1, SendUpFacts
    <3> QED
      BY <2>2, <3>1
  <2>4. sentUp' \in 0 .. MaxUp
    BY <1>1, <1>3, TunnelAssumption DEF AppSends, TypeOK
  <2>5. TypeOK'
    BY <1>1, <2>1, <2>3, <2>4 DEF TypeOK
  <2>6. \A c \in Conn \ {A} : SameAt(c)
    BY <2>1, <2>3 DEF SameAt
  <2>7. client = "parse" => Len(up'[A]) <= sentUp' + 1
    <3> SUFFICES ASSUME client = "parse" PROVE Len(up'[A]) <= sentUp' + 1
      OBVIOUS
    <3>1. Len(up[A]) \in Nat /\ Len(up'[A]) <= Len(up[A]) + 1 /\ Len(up[A]) <= sentUp + 1
      BY <1>1, <2>1, <2>3, Added, LenProperties DEF ClientSide
    <3>2. \/ up[A] = <<>> /\ sentUp' = sentUp
          \/ sentUp' = sentUp + 1
      BY <1>3 DEF AppSends
    <3>3. Len(up'[A]) \in Nat
      BY <2>3, LenProperties, Places
    <3>4. CASE up[A] = <<>> /\ sentUp' = sentUp
      BY <2>1, <3>1, <3>3, <3>4, Emptied
    <3>5. CASE sentUp' = sentUp + 1
      BY <2>1, <3>1, <3>3, <3>5
    <3> QED
      BY <3>2, <3>4, <3>5
  <2> QED
    BY <1>2, <2>1, <2>5, <2>6, <2>7
<1>4. CASE AppReads
  <2>1. /\ down[A] # <<>>
        /\ gotDown' = Append(gotDown, Head(down[A]))
        /\ down' = [down EXCEPT ![A] = Tail(@)]
        /\ UNCHANGED <<front, head, near, far, up, armed, client, try, served, taken, kept, server,
                       sentUp, sentDown, gotUp>>
    BY <1>4 DEF AppReads, engines
  <2>2. Head(down[A]) \in Msg /\ Tail(down[A]) \in Seq(Msg)
    BY <1>1, <2>1, Taken DEF TypeOK
  <2>3. Append(gotDown, Head(down[A])) \in Seq(Msg)
    BY <1>1, <2>2, Added DEF TypeOK
  <2>4. TypeOK'
    BY <1>1, <2>1, <2>2, <2>3 DEF TypeOK
  <2>5. \A c \in Conn \ {A} : SameAt(c)
    BY <1>1, <2>1 DEF SameAt, TypeOK
  <2> QED
    BY <1>1, <1>2, <2>1, <2>4, <2>5 DEF ClientSide
<1>5. CASE AppHalfCloses
  <2>1. /\ near' = [near EXCEPT ![A] = "half"]
        /\ UNCHANGED <<front, head, far, up, down, armed, client, try, served, taken, kept, server>>
        /\ UNCHANGED peers
    BY <1>5 DEF AppHalfCloses, engines
  <2>2. TypeOK'
    BY <1>1, <2>1 DEF TypeOK, EndState, peers
  <2>3. \A c \in Conn \ {A} : SameAt(c)
    BY <1>1, <2>1 DEF SameAt, TypeOK
  <2>4. near'[A] \in Done
    BY <1>1, <2>1 DEF TypeOK, Done
  <2> QED
    BY <1>1, <1>2, <2>1, <2>2, <2>3, <2>4 DEF ClientSide, peers
<1>6. CASE AppCloses
  <2>1. /\ CloseEnds({A}, {}) /\ {} \in SUBSET Conn /\ {A} \in SUBSET Conn
        /\ UNCHANGED <<front, head, client, try, served, taken, kept, server, peers>>
    BY <1>1, <1>6 DEF AppCloses
  <2>2. /\ WiresTyped' /\ armed' \subseteq armed
        /\ \A c \in Conn \ {A} : SameAt(c)
        /\ near'[A] = "closed" /\ far'[A] = far[A]
        /\ up'[A] = up[A] \/ up'[A] = <<>>
    BY <1>1, <2>1, CloseFacts
  <2>3. TypeOK'
    BY <1>1, <2>1, <2>2 DEF TypeOK, WiresTyped, peers
  <2>4. client = "parse" => Len(up'[A]) <= sentUp' + 1
    BY <1>1, <2>1, <2>2, Emptied, TunnelAssumption DEF ClientSide, peers, TypeOK
  <2> QED
    BY <1>2, <2>1, <2>2, <2>3, <2>4 DEF peers, Done
<1> QED
  BY <1>3, <1>4, <1>5, <1>6

-----------------------------------------------------------------------------
(* SetupInv is inductive.                                                  *)
LEMMA SetupInit == Init => SetupInv
<1> SUFFICES ASSUME Init PROVE SetupInv
  OBVIOUS
<1>1. /\ A \in Conn /\ 0 \in 0 .. MaxTries /\ 0 \in 0 .. MaxUp /\ 0 \in 0 .. MaxDown
      /\ FarEnd(A) \in {"near", "far"} \X Conn
  BY Places, Ends, TunnelAssumption
<1>2. TypeOK
  <2>1. head \in 0 .. MaxHead /\ taken \in 0 .. MaxUp /\ kept \in 0 .. taken
    BY <1>1, TunnelAssumption DEF Init
  <2> QED
    BY <1>1, <2>1, Emptied DEF Init, TypeOK, EndState
<1>3. ClientSide
  BY <1>1, Emptied DEF Init, ClientSide
<1>4. ASSUME NEW i \in Tries
      PROVE  ServerSide(i) /\ Early(i)
  <2>1. /\ T(i) \in Conn /\ X(i) \in Conn /\ T(i) # A /\ X(i) # A
        /\ NearEnd(X(i)) # FarEnd(A) /\ FarEnd(T(i)) # FarEnd(A)
    BY Places, Ends
  <2> QED
    BY <2>1 DEF Init, ServerSide, Early
<1> QED
  BY <1>2, <1>3, <1>4 DEF SetupInv, ServedIsConnected, Init

LEMMA SetupNext == SetupInv /\ [Next]_vars => SetupInv'
<1> SUFFICES ASSUME SetupInv, [Next]_vars PROVE SetupInv'
  OBVIOUS
<1>1. CASE ClientNext \/ Collect
  BY <1>1, ParseKeeps, ParseFailsKeeps, DialKeeps, DialFailsKeeps, AckedKeeps, NotAckedKeeps,
     GiveUpKeeps, ReplyKeeps, ReplyFailsKeeps, ClientCarryKeeps, ClientEndsKeeps, CollectKeeps
     DEF ClientNext
<1>2. ASSUME NEW i \in Tries, ServerNext(i) PROVE SetupInv'
  BY <1>2, ReadHeaderKeeps, ReadHeaderFailsKeeps, DialTargetKeeps, DialTargetFailsKeeps,
     AckKeeps, ServerEndsKeeps, ServerCarryKeeps DEF ServerNext
<1>3. CASE AppSends \/ AppReads \/ AppHalfCloses \/ AppCloses
  BY <1>3, AppKeeps
<1>4. ASSUME NEW i \in Tries, TargetSends(i) \/ TargetReads(i) \/ TargetCloses(i)
      PROVE  SetupInv'
  BY <1>4, TargetSendsKeeps, TargetReadsKeeps, TargetClosesKeeps
<1>5. CASE UNCHANGED vars
  BY <1>5 DEF vars, wires, engines, peers, SetupInv, TypeOK, ClientSide, ServedIsConnected,
              ServerSide, Early, Established, Reason
<1> QED
  BY <1>1, <1>2, <1>3, <1>4, <1>5 DEF Next

LEMMA SetupAlways == Spec => []SetupInv
BY SetupInit, SetupNext, PTL DEF Spec

(* Everything is of its type: no end is in a state it cannot be in, no try *)
(* is made beyond the last, and the buffered reader never holds more than  *)
(* was sent.                                                               *)
THEOREM TunnelTypes == Spec => []TypeOK
<1>1. SetupInv => TypeOK
  BY DEF SetupInv
<1> QED
  BY <1>1, SetupAlways, PTL

(* Of all the targets that were dialled only the one of the acknowledged   *)
(* try gets anything the application sent.                                 *)
THEOREM TunnelOneTarget == Spec => []OneTarget
<1>1. SetupInv => OneTarget
  BY DEF SetupInv, Early, OneTarget
<1> QED
  BY <1>1, SetupAlways, PTL

(* The acknowledgement comes from a server engine that has its target.     *)
THEOREM TunnelServedIsConnected == Spec => []ServedIsConnected
<1>1. SetupInv => ServedIsConnected
  BY DEF SetupInv
<1> QED
  BY <1>1, SetupAlways, PTL

(* An engine closes a connection of the acknowledged try only after the    *)
(* application or the target has: no deadline outlives the setting up.     *)
THEOREM TunnelClosedWithReason == Spec => []ClosedWithReason
<1>1. SetupInv => ClosedWithReason
  <2> SUFFICES ASSUME SetupInv, served # 0,
                      \/ far[A] = "closed" \/ near[X(served)] = "closed"
                      \/ near[T(served)] = "closed" \/ far[T(served)] = "closed"
               PROVE  Reason(served)
    BY DEF ClosedWithReason, Reason
  <2>1. TypeOK /\ ClientSide /\ served \in Tries
    BY TunnelAssumption DEF SetupInv, TypeOK, Tries
  <2>2. CASE client \in {"over", "failed"}
    BY <2>1, <2>2 DEF ClientSide
  <2>3. CASE client \in {"reply", "relay"}
    <3>1. /\ near[T(served)] = "open" /\ far[A] = "open" /\ far[X(served)] # "none"
          /\ ServerSide(served)
          /\ server[served] \in {"none", "header", "dial", "ack", "relay", "over"}
      BY <2>1, <2>3, ServedFacts DEF TypeOK
    <3>2. server[served] = "over" => far[X(served)] = "closed"
      BY <3>1 DEF ServerSide
    <3> QED
      BY <3>1, <3>2 DEF ServerSide, Reason, Done
  <2> QED
    BY <2>1, <2>2, <2>3 DEF ClientSide, TypeOK
<1> QED
  BY <1>1, SetupAlways, PTL

-----------------------------------------------------------------------------
(***************************************************************************)
(* The data.  In both directions a stream is numbered: item n is the n-th  *)
(* byte, but for the request or the positive answer, which comes first at  *)
(* a number of its own.  What is read, and what is under way on each       *)
(* connection, are consecutive stretches of it, as far as the connections  *)
(* are still there to deliver them.                                        *)
(***************************************************************************)
ItemNr(first, n) == IF n = first[1] THEN first[2] ELSE Byte(n)

Numbered(first, s, n) == \A k \in 1 .. Len(s) : s[k] = ItemNr(first, n + k - 1)

LEMMA NumberedNone == \A first, n : Numbered(first, <<>>, n)
BY Emptied DEF Numbered

LEMMA NumberedTail ==
    ASSUME NEW first, NEW s \in Seq(Msg), s # <<>>, NEW n \in Nat, Numbered(first, s, n)
    PROVE  /\ Head(s) = ItemNr(first, n)
           /\ Numbered(first, Tail(s), n + 1)
           /\ Tail(s) \in Seq(Msg) /\ Head(s) \in Msg
           /\ Len(s) \in Nat \ {0} /\ Len(Tail(s)) = Len(s) - 1
<1>1. /\ Head(s) \in Msg /\ Head(s) = s[1]
      /\ Tail(s) \in Seq(Msg)
      /\ Len(s) \in Nat \ {0}
      /\ Len(Tail(s)) = Len(s) - 1
      /\ \A k \in 1 .. Len(Tail(s)) : Tail(s)[k] = s[k + 1]
  BY Taken
<1>2. Head(s) = ItemNr(first, n)
  <2>1. 1 \in 1 .. Len(s) /\ n + 1 - 1 = n
    BY <1>1
  <2> QED
    BY <1>1, <2>1 DEF Numbered
<1>3. ASSUME NEW k \in 1 .. Len(Tail(s))
      PROVE  Tail(s)[k] = ItemNr(first, (n + 1) + k - 1)
  <2>1. k + 1 \in 1 .. Len(s) /\ n + (k + 1) - 1 = (n + 1) + k - 1
    BY <1>1
  <2> QED
    BY <1>1, <2>1 DEF Numbered
<1> QED
  BY <1>1, <1>2, <1>3 DEF Numbered

LEMMA NumberedAppend ==
    ASSUME NEW first, NEW s \in Seq(Msg), NEW n \in Nat, NEW m \in Msg,
           Numbered(first, s, n), m = ItemNr(first, n + Len(s))
    PROVE  /\ Numbered(first, Append(s, m), n)
           /\ Append(s, m) \in Seq(Msg)
           /\ Len(s) \in Nat /\ Len(Append(s, m)) = Len(s) + 1
<1>1. /\ Append(s, m) \in Seq(Msg)
      /\ Len(Append(s, m)) = Len(s) + 1
      /\ \A k \in 1 .. Len(s) : Append(s, m)[k] = s[k]
      /\ Append(s, m)[Len(s) + 1] = m
      /\ Len(s) \in Nat
  BY Added, LenProperties
<1>2. ASSUME NEW k \in 1 .. Len(s) + 1
      PROVE  Append(s, m)[k] = ItemNr(first, n + k - 1)
  <2>1. CASE k \in 1 .. Len(s)
    BY <1>1, <2>1 DEF Numbered
  <2>2. CASE k = Len(s) + 1
    <3>1. n + k - 1 = n + Len(s)
      BY <1>1, <2>2
    <3> QED
      BY <1>1, <2>2, <3>1
  <2> QED
    BY <1>1, <2>1, <2>2
<1> QED
  BY <1>1, <1>2 DEF Numbered

LEMMA NumberedRest ==
    ASSUME NEW first, NEW s \in Seq(Msg), NEW n \in Nat, NEW h \in Nat, Numbered(first, s, n)
    PROVE  /\ Numbered(first, SubSeq(s, h + 1, Len(s)), n + h)
           /\ SubSeq(s, h + 1, Len(s)) \in Seq(Msg)
           /\ Len(SubSeq(s, h + 1, Len(s))) = IF h <= Len(s) THEN Len(s) - h ELSE 0
<1> DEFINE r == SubSeq(s, h + 1, Len(s))
<1>1. Len(s) \in Nat /\ h + 1 \in Int /\ Len(s) \in Int
  BY LenProperties
<1>2. \A k \in h + 1 .. Len(s) : s[k] \in Msg
  BY <1>1, ElementOfSeq
<1>3. /\ r \in Seq(Msg)
      /\ Len(r) = IF h + 1 <= Len(s) THEN Len(s) - (h + 1) + 1 ELSE 0
      /\ \A k \in 1 .. Len(s) - (h + 1) + 1 : r[k] = s[(h + 1) + k - 1]
  BY <1>1, <1>2, SubSeqProperties
<1> HIDE DEF r
<1>4. Len(r) = IF h <= Len(s) THEN Len(s) - h ELSE 0
  BY <1>1, <1>3
<1>5. ASSUME NEW k \in 1 .. Len(r)
      PROVE  r[k] = ItemNr(first, (n + h) + k - 1)
  <2>1. /\ k \in 1 .. Len(s) - (h + 1) + 1 /\ (h + 1) + k - 1 \in 1 .. Len(s)
        /\ n + ((h + 1) + k - 1) - 1 = (n + h) + k - 1
    BY <1>1, <1>4
  <2> QED
    BY <1>3, <2>1 DEF Numbered
<1> QED
  BY <1>3, <1>4, <1>5 DEF Numbered, r

(* A whole numbered sequence, and its beginnings.                          *)
LEMMA NumberedSame ==
    ASSUME NEW first, NEW n \in Nat, NEW s \in Seq(Msg), NEW t \in Seq(Msg),
           Numbered(first, s, n), Numbered(first, t, n), Len(s) = Len(t)
    PROVE  s = t
<1>1. Len(s) \in Nat /\ \A k \in 1 .. Len(s) : s[k] = t[k]
  BY LenProperties DEF Numbered
<1> QED
  BY <1>1, SeqEqual

-----------------------------------------------------------------------------
(* A connection that still delivers; and one to which a step does nothing  *)
(* but, maybe, end it and take what is under way.                          *)
Intact(c) == near[c] \in {"open", "half"} /\ far[c] = "open"

ShrinksUp(c) ==
    /\ Intact(c)' => Intact(c)
    /\ up'[c] = up[c] \/ (up'[c] = <<>> /\ ~Intact(c)')

ShrinksDown(c) ==
    /\ Intact(c)' => Intact(c)
    /\ down'[c] = down[c] \/ (down'[c] = <<>> /\ ~Intact(c)')

LEMMA SameShrinks == \A c : SameAt(c) => ShrinksUp(c) /\ ShrinksDown(c)
BY DEF SameAt, ShrinksUp, ShrinksDown, Intact

LEMMA CloseShrinks ==
    ASSUME TypeOK, NEW N \in SUBSET Conn, NEW F \in SUBSET Conn, CloseEnds(N, F),
           NEW c \in Conn
    PROVE  ShrinksUp(c) /\ ShrinksDown(c)
<1>1. /\ near'[c] = IF c \in N THEN "closed" ELSE near[c]
      /\ far'[c] = IF c \in F THEN "closed" ELSE far[c]
      /\ up'[c] = up[c] \/ up'[c] = <<>>
      /\ down'[c] = down[c] \/ down'[c] = <<>>
      /\ c \notin N /\ c \notin F => SameAt(c)
  BY CloseFacts
<1> QED
  BY <1>1 DEF ShrinksUp, ShrinksDown, Intact, SameAt

-----------------------------------------------------------------------------
(***************************************************************************)
(* Upwards.  The request stands in the place of the last byte that was     *)
(* taken with it.  Where in the numbered stream the target is, and the     *)
(* first item under way on each of the three connections.                  *)
(***************************************************************************)
Start == <<taken, Request(kept)>>

Skipped == IF front = "plain" THEN taken ELSE taken + 1

AtTarget(j) == Skipped + Len(gotUp[j])
AtServer(j) == AtTarget(j) + Len(up[X(j)])
AtClient(j) == AtServer(j) + Len(up[T(j)])
AtFront ==
    IF client = "parse" THEN 0 ELSE IF Established THEN AtClient(served) ELSE 1 + taken

UpTunnel(j) ==
    /\ Numbered(Start, gotUp[j], Skipped)
    /\ Numbered(Start, up[X(j)], AtTarget(j))
    /\ AtServer(j) <= sentUp + 1
    /\ Intact(X(j)) =>
          /\ Numbered(Start, up[T(j)], AtServer(j))
          /\ AtClient(j) <= sentUp + 1

UpFront ==
    /\ Numbered(Start, up[A], AtFront)
    /\ AtFront + Len(up[A]) <= sentUp + 1
    /\ Intact(A) => \/ AtFront + Len(up[A]) = sentUp + 1
                    \/ client = "parse" /\ up[A] = <<>> /\ sentUp = 0

UpFlow ==
    /\ taken <= sentUp
    /\ client = "parse" => served = 0 /\ taken = 0
    /\ Established => UpTunnel(served)
    /\ (Established => Intact(X(served)) /\ Intact(T(served))) => UpFront

(* The numbers are numbers.                                                *)
LEMMA UpNumbers ==
    ASSUME TypeOK
    PROVE  /\ taken \in Nat /\ kept \in Nat /\ sentUp \in Nat /\ Skipped \in Nat
           /\ \A c \in Conn : up[c] \in Seq(Msg) /\ Len(up[c]) \in Nat
           /\ \A j \in Tries : gotUp[j] \in Seq(Msg) /\ Len(gotUp[j]) \in Nat
           /\ \A j \in Tries : AtTarget(j) \in Nat /\ AtServer(j) \in Nat /\ AtClient(j) \in Nat
<1>1. taken \in Nat /\ kept \in Nat /\ sentUp \in Nat /\ Skipped \in Nat
  BY TunnelAssumption DEF TypeOK, Skipped
<1>2. \A c \in Conn : up[c] \in Seq(Msg) /\ Len(up[c]) \in Nat
  BY LenProperties DEF TypeOK
<1>3. \A j \in Tries : gotUp[j] \in Seq(Msg) /\ Len(gotUp[j]) \in Nat
  BY LenProperties DEF TypeOK
<1>4. ASSUME NEW j \in Tries
      PROVE  AtTarget(j) \in Nat /\ AtServer(j) \in Nat /\ AtClient(j) \in Nat
  <2>1. Len(gotUp[j]) \in Nat /\ Len(up[X(j)]) \in Nat /\ Len(up[T(j)]) \in Nat
    BY <1>2, <1>3, Places
  <2>2. AtTarget(j) \in Nat
    BY <1>1, <2>1 DEF AtTarget
  <2>3. AtServer(j) \in Nat
    BY <2>1, <2>2 DEF AtServer
  <2>4. AtClient(j) \in Nat
    BY <2>1, <2>3 DEF AtClient
  <2> QED
    BY <2>2, <2>3, <2>4
<1> QED
  BY <1>1, <1>2, <1>3, <1>4

LEMMA EstablishedTry ==
    ASSUME SetupInv, Established
    PROVE  served \in Tries /\ served # 0 /\ client \in {"relay", "over"}
BY TunnelAssumption DEF SetupInv, ClientSide, TypeOK, Tries, Established

(* Before the tunnel is there only the application's connection counts.    *)
LEMMA FrontShrinks ==
    ASSUME SetupInv, SetupInv', UpFlow, ~Established, ~Established',
           UNCHANGED <<sentUp, taken, kept>>, client' # "parse" \/ client = "parse",
           \/ ShrinksUp(A) /\ (client = "parse" => client' = "parse")
           \/ up'[A] = <<>> /\ ~Intact(A)'
    PROVE  UpFlow'
<1>1. sentUp \in Nat /\ up[A] \in Seq(Msg) /\ Len(up[A]) \in Nat
  BY UpNumbers, Places DEF SetupInv
<1>2. UpFront
  BY DEF UpFlow
<1>3. /\ AtFront = IF client = "parse" THEN 0 ELSE 1 + taken
      /\ AtFront' = IF client' = "parse" THEN 0 ELSE 1 + taken
      /\ Start' = Start /\ taken \in Nat
  BY UpNumbers DEF AtFront, Start, SetupInv
<1>4. client' = "parse" => served' = 0 /\ taken' = 0
  BY DEF UpFlow, SetupInv, ClientSide
<1>5. CASE up'[A] = <<>> /\ ~Intact(A)'
  <2>1. UpFront'
    <3>1. AtFront' <= sentUp + 1
      BY <1>1, <1>3 DEF UpFlow
    <3> QED
      BY <1>1, <1>3, <1>5, <3>1, NumberedNone, Emptied DEF UpFront
  <2> QED
    BY <1>4, <2>1 DEF UpFlow
<1>6. CASE /\ up'[A] = up[A] /\ (Intact(A)' => Intact(A))
           /\ client = "parse" <=> client' = "parse"
  <2>1. AtFront' = AtFront
    BY <1>3, <1>6
  <2>2. Numbered(Start, up[A], AtFront)'
    BY <1>2, <1>6, <2>1 DEF UpFront, Numbered, ItemNr, Start, Request, Byte
  <2>3. UpFront'
    BY <1>2, <1>6, <2>1, <2>2 DEF UpFront
  <2> QED
    BY <1>4, <2>3 DEF UpFlow
<1> QED
  BY <1>5, <1>6 DEF ShrinksUp

(* Once it is there, losing the end of what is under way keeps the rest in *)
(* its place.                                                              *)
LEMMA TunnelShrinks ==
    ASSUME SetupInv, SetupInv', UpFlow, Established, Established',
           UNCHANGED <<front, head, sentUp, taken, kept, served>>, gotUp'[served] = gotUp[served],
           ShrinksUp(A), ShrinksUp(T(served)), ShrinksUp(X(served))
    PROVE  UpFlow'
<1>1. PICK j \in Tries : j = served
  BY EstablishedTry
<1>2. /\ sentUp \in Nat /\ Skipped \in Nat /\ Skipped' = Skipped
      /\ Len(gotUp[j]) \in Nat /\ Len(up[X(j)]) \in Nat /\ Len(up[T(j)]) \in Nat
      /\ Len(up[A]) \in Nat /\ AtTarget(j) \in Nat
  BY UpNumbers, Places DEF SetupInv, Skipped
<1>3. UpTunnel(j) /\ (Intact(X(j)) /\ Intact(T(j)) => UpFront)
  BY <1>1 DEF UpFlow
<1>4. AtTarget(j)' = AtTarget(j)
  BY <1>1, <1>2 DEF AtTarget
<1>5. client \in {"relay", "over"} /\ client' \in {"relay", "over"}
  BY DEF Established
<1>6. UpTunnel(j)'
  <2>1. Numbered(Start, gotUp[j], Skipped)'
    BY <1>1, <1>2, <1>3 DEF UpTunnel, Numbered, ItemNr, Start, Request, Byte
  <2>2. /\ Numbered(Start, up[X(j)], AtTarget(j))'
        /\ AtServer(j)' <= sentUp' + 1 /\ AtServer(j) <= sentUp + 1
        /\ Intact(X(j))' => AtServer(j)' = AtServer(j)
    <3>1. CASE up'[X(j)] = up[X(j)]
      <4>1. Numbered(Start, up[X(j)], AtTarget(j))'
        BY <1>3, <1>4, <3>1 DEF UpTunnel, Numbered, ItemNr, Start, Request, Byte
      <4> QED
        BY <1>3, <1>4, <3>1, <4>1 DEF UpTunnel, AtServer
    <3>2. CASE up'[X(j)] = <<>> /\ ~Intact(X(j))'
      BY <1>2, <1>3, <1>4, <3>2, NumberedNone, Emptied DEF UpTunnel, AtServer
    <3> QED
      BY <1>1, <3>1, <3>2 DEF ShrinksUp
  <2>3. ASSUME Intact(X(j))'
        PROVE  Numbered(Start, up[T(j)], AtServer(j))' /\ AtClient(j)' <= sentUp' + 1
    <3>1. /\ Numbered(Start, up[T(j)], AtServer(j)) /\ AtServer(j)' = AtServer(j)
          /\ AtClient(j) <= sentUp + 1
      BY <1>1, <1>3, <2>2, <2>3 DEF UpTunnel, ShrinksUp
    <3>2. CASE up'[T(j)] = up[T(j)]
      <4>1. AtClient(j)' = AtClient(j)
        BY <3>1, <3>2 DEF AtClient
      <4> QED
        BY <3>1, <3>2, <4>1 DEF Numbered, ItemNr, Start, Request, Byte
    <3>3. CASE up'[T(j)] = <<>>
      <4>1. AtClient(j)' = AtServer(j)'
        <5>1. AtServer(j)' \in Nat
          BY <3>1, UpNumbers DEF SetupInv
        <5> QED
          BY <3>3, <5>1, Emptied DEF AtClient
      <4> QED
        BY <2>2, <3>3, <4>1, NumberedNone
    <3> QED
      BY <1>1, <3>2, <3>3 DEF ShrinksUp
  <2> QED
    BY <2>1, <2>2, <2>3 DEF UpTunnel
<1>7. ASSUME Intact(X(j))', Intact(T(j))'
      PROVE  UpFront'
  <2>1. UpFront /\ AtClient(j) <= sentUp + 1
    BY <1>1, <1>3, <1>7 DEF ShrinksUp, UpTunnel
  <2>2. up'[X(j)] = up[X(j)] /\ up'[T(j)] = up[T(j)]
    BY <1>1, <1>7 DEF ShrinksUp
  <2>3. AtFront = AtClient(j) /\ AtFront' = AtClient(j)'
    BY <1>1, <1>5 DEF AtFront
  <2>4. AtClient(j)' = AtClient(j)
    BY <1>4, <2>2 DEF AtClient, AtServer
  <2>5. AtClient(j) \in Nat
    BY UpNumbers DEF SetupInv
  <2>6. CASE up'[A] = up[A]
    <3>1. Numbered(Start, up[A], AtFront)'
      BY <2>1, <2>3, <2>4, <2>6 DEF UpFront, Numbered, ItemNr, Start, Request, Byte
    <3> QED
      BY <1>5, <2>1, <2>3, <2>4, <2>6, <3>1 DEF UpFront, ShrinksUp
  <2>7. CASE up'[A] = <<>> /\ ~Intact(A)'
    BY <2>1, <2>3, <2>4, <2>5, <2>7, NumberedNone, Emptied DEF UpFront
  <2> QED
    BY <2>6, <2>7 DEF ShrinksUp
<1>8. taken' <= sentUp' /\ client' # "parse"
  BY <1>5 DEF UpFlow
<1> QED
  BY <1>1, <1>6, <1>7, <1>8 DEF UpFlow

(* The steps that move something up.                                       *)
LEMMA UpParse == SetupInv /\ SetupInv' /\ UpFlow /\ Parse => UpFlow'
<1> SUFFICES ASSUME SetupInv, SetupInv', UpFlow, Parse PROVE UpFlow'
  OBVIOUS
<1>1. PICK h \in Nat :
         /\ client = "parse" /\ h < Len(up[A])
         /\ up' = [up EXCEPT ![A] = SubSeq(@, h + 2, Len(@))]
         /\ taken' = h /\ client' = "select"
         /\ UNCHANGED <<near, far, served, sentUp>>
  BY ParseFacts DEF SetupInv, peers
<1> DEFINE a == Len(up[A])
           r == SubSeq(up[A], (h + 1) + 1, Len(up[A]))
<1>2. UpFront /\ AtFront = 0 /\ AtFront' = 1 + h /\ served = 0 /\ taken = 0
  BY <1>1 DEF UpFlow, Established, AtFront
<1>3. /\ sentUp \in Nat /\ up[A] \in Seq(Msg) /\ a \in Nat /\ h + 2 = (h + 1) + 1
      /\ up'[A] = r
  BY <1>1, UpNumbers, Places DEF SetupInv, TypeOK
<1>4. /\ Numbered(Start, up[A], AtFront) /\ a <= sentUp + 1 /\ h < a
      /\ Intact(A) => a = sentUp + 1
  <2>1. a # 0
    BY <1>1, <1>3
  <2> QED
    BY <1>1, <1>2, <1>3, <2>1, Emptied DEF UpFront
<1>5. /\ Numbered(Start, r, AtFront + (h + 1)) /\ r \in Seq(Msg)
      /\ Len(r) = IF h + 1 <= Len(up[A]) THEN Len(up[A]) - (h + 1) ELSE 0
  <2>1. h + 1 \in Nat /\ AtFront \in Nat
    BY <1>1, <1>2
  <2>2. up[A] \in Seq(Msg) /\ Numbered(Start, up[A], AtFront)
    BY <1>3, <1>4
  <2> HIDE DEF a
  <2> QED
    BY <2>1, <2>2, NumberedRest
<1>6. \A k \in 1 .. Len(r) : r[k] = Byte((1 + h) + k - 1)
  <2>1. ASSUME NEW k \in 1 .. Len(r)
        PROVE  r[k] = Byte((1 + h) + k - 1)
    <3>1. k \in Nat /\ k # 0
      OBVIOUS
    <3>2. AtFront + (h + 1) + k - 1 = (1 + h) + k - 1 /\ (1 + h) + k - 1 # 0
      BY <1>1, <1>2, <3>1
    <3> QED
      BY <1>2, <1>5, <3>2 DEF Numbered, ItemNr, Start
  <2> QED
    BY <2>1
<1> HIDE DEF r
<1>7. Numbered(Start, up[A], AtFront)'
  <2>1. \A k \in 1 .. Len(r) : k \in Nat /\ k # 0 /\ (1 + h) + k - 1 # h
    <3>1. \A k \in 1 .. Len(r) : k \in Nat /\ k # 0
      OBVIOUS
    <3> QED
      BY <3>1
  <2> QED
    BY <1>1, <1>2, <1>3, <1>6, <2>1 DEF Numbered, ItemNr, Start, Byte
<1>8. /\ (1 + h) + Len(r) = a /\ a <= sentUp' + 1
      /\ Intact(A)' => a = sentUp' + 1
  <2>1. Len(r) = IF h + 1 <= a THEN a - (h + 1) ELSE 0
    BY <1>5
  <2>2. Intact(A)' <=> Intact(A)
    BY <1>1 DEF Intact
  <2> HIDE DEF a
  <2>3. h + 1 <= a
    BY <1>3, <1>4
  <2>4. (1 + h) + Len(r) = a
    BY <1>3, <2>1, <2>3
  <2> QED
    BY <1>1, <1>4, <2>2, <2>4
<1>9. UpFront'
  BY <1>2, <1>3, <1>7, <1>8 DEF UpFront
<1>10. taken' <= sentUp'
  <2> HIDE DEF a
  <2> QED
    BY <1>1, <1>3, <1>4
<1> QED
  BY <1>1, <1>9, <1>10 DEF UpFlow, Established

LEMMA UpReply == SetupInv /\ SetupInv' /\ UpFlow /\ Reply => UpFlow'
<1> SUFFICES ASSUME SetupInv, SetupInv', UpFlow, Reply PROVE UpFlow'
  OBVIOUS
<1>1. PICK j \in Tries : j = served
  BY ServedFacts DEF Reply
<1>2. /\ client = "reply" /\ client' = "relay"
      /\ UNCHANGED <<front, near, far, taken, kept, served, sentUp, gotUp>>
      /\ IF front = "plain" THEN up' = SendUp(up, T(j), Request(kept)) ELSE up' = up
  BY <1>1 DEF Reply, peers
<1>3. /\ j # 0 /\ gotUp[j] = <<>> /\ up[X(j)] = <<>> /\ up[T(j)] = <<>>
      /\ UpFront /\ AtFront = 1 + taken /\ ~Established /\ taken <= sentUp
  <2>1. ServerSide(j) /\ Early(j) /\ far[X(j)] # "none" /\ j # 0
    BY <1>1, <1>2, ServedFacts
  <2> QED
    BY <1>2, <2>1 DEF ServerSide, Early, Established, UpFlow, AtFront
<1>4. /\ up \in [Conn -> Seq(Msg)] /\ A \in Conn /\ T(j) \in Conn /\ X(j) \in Conn
      /\ A # T(j) /\ X(j) # A /\ X(j) # T(j)
      /\ sentUp \in Nat /\ taken \in Nat /\ kept \in Nat /\ up[A] \in Seq(Msg)
      /\ Len(up[A]) \in Nat
  BY UpNumbers, Places DEF SetupInv, TypeOK
<1>5. /\ Numbered(Start, up[A], 1 + taken) /\ (1 + taken) + Len(up[A]) <= sentUp + 1
      /\ Intact(A) => (1 + taken) + Len(up[A]) = sentUp + 1
  BY <1>2, <1>3 DEF UpFront
<1>6. Established' /\ AtFront' = AtClient(j)' /\ served' = j /\ Start' = Start
  BY <1>1, <1>2 DEF Established, AtFront, Start
(* What is left on the application's connection is where it was.           *)
<1>7. /\ up'[A] = up[A] /\ up'[X(j)] = <<>>
      /\ up'[T(j)] = IF front = "plain" /\ far[T(j)] # "closed" THEN <<Request(kept)>> ELSE <<>>
  <2>1. CASE front = "plain"
    <3>1. Request(kept) \in Msg
      BY <1>4, Messages
    <3>2. /\ \A d \in Conn \ {T(j)} : SendUp(up, T(j), Request(kept))[d] = up[d]
          /\ SendUp(up, T(j), Request(kept))[T(j)] =
                IF far[T(j)] = "closed" THEN up[T(j)] ELSE Append(up[T(j)], Request(kept))
      BY <1>4, <3>1, SendUpFacts
    <3> QED
      BY <1>2, <1>3, <1>4, <2>1, <3>1, <3>2, OneMessage
  <2>2. CASE front # "plain"
    BY <1>2, <1>3, <2>2
  <2> QED
    BY <2>1, <2>2
<1>8. Skipped' = Skipped /\ Skipped \in Nat /\ AtTarget(j)' = Skipped /\ AtServer(j)' = Skipped
  <2>1. Skipped' = Skipped /\ Skipped \in Nat
    BY <1>2, <1>4 DEF Skipped
  <2> QED
    BY <1>2, <1>3, <1>7, <2>1, Emptied DEF AtTarget, AtServer
<1>9. /\ Numbered(Start, up[T(j)], AtServer(j))'
      /\ AtClient(j)' = IF front = "plain" /\ far[T(j)] = "closed" THEN taken ELSE 1 + taken
  <2>1. CASE front = "plain" /\ far[T(j)] # "closed"
    <3>1. Len(<<Request(kept)>>) = 1 /\ <<Request(kept)>>[1] = Request(kept)
      OBVIOUS
    <3>2. Skipped = taken /\ taken + 1 - 1 = taken /\ taken + 1 = 1 + taken
      BY <1>4, <2>1 DEF Skipped
    <3>3. Numbered(Start, up'[T(j)], taken)
      BY <1>7, <2>1, <3>1, <3>2 DEF Numbered, ItemNr, Start
    <3>4. Numbered(Start, up[T(j)], AtServer(j))'
      BY <1>2, <1>8, <3>2, <3>3 DEF Numbered, ItemNr, Start, Request, Byte
    <3> QED
      BY <1>7, <1>8, <2>1, <3>1, <3>2, <3>4 DEF AtClient
  <2>2. CASE ~(front = "plain" /\ far[T(j)] # "closed")
    <3>1. up'[T(j)] = <<>>
      BY <1>7, <2>2
    <3>2. AtClient(j)' = Skipped
      BY <1>8, <3>1, Emptied DEF AtClient
    <3>3. Skipped = IF front = "plain" /\ far[T(j)] = "closed" THEN taken ELSE 1 + taken
      BY <1>4, <2>2 DEF Skipped
    <3> QED
      BY <3>1, <3>2, <3>3, NumberedNone
  <2> QED
    BY <2>1, <2>2
<1>10. UpTunnel(j)'
  <2>1. Numbered(Start, gotUp[j], Skipped)' /\ Numbered(Start, up[X(j)], AtTarget(j))'
    BY <1>2, <1>3, <1>7, NumberedNone
  <2>2. AtServer(j)' <= sentUp' + 1 /\ AtClient(j)' <= sentUp' + 1
    BY <1>2, <1>3, <1>4, <1>8, <1>9 DEF Skipped
  <2> QED
    BY <1>9, <2>1, <2>2 DEF UpTunnel
<1>11. Intact(T(j))' => UpFront'
  <2> SUFFICES ASSUME Intact(T(j))' PROVE UpFront'
    OBVIOUS
  <2>1. AtFront' = 1 + taken
    BY <1>2, <1>6, <1>9 DEF Intact
  <2>2. Numbered(Start, up[A], AtFront)'
    BY <1>2, <1>5, <1>7, <2>1 DEF Numbered, ItemNr, Start, Request, Byte
  <2> QED
    BY <1>2, <1>5, <1>7, <2>1, <2>2 DEF UpFront, Intact
<1> QED
  BY <1>2, <1>3, <1>6, <1>10, <1>11 DEF UpFlow

(* Of the acknowledged try both connections have been made.                *)
LEMMA ServedEnds ==
    ASSUME SetupInv, NEW j \in Tries, j = served, Established
    PROVE  /\ far[T(j)] \in {"open", "closed"} /\ far[X(j)] \in {"open", "closed"}
           /\ client = "relay" => near[T(j)] = "open"
           /\ server[j] \in {"ack", "relay", "over"}
<1>1. /\ TypeOK /\ ClientSide /\ ServerSide(j) /\ far[X(j)] # "none"
      /\ client \in {"relay", "over"}
  BY EstablishedTry DEF SetupInv, ServedIsConnected
<1>2. /\ far[X(j)] \in EndState \ {"half"}
      /\ server[j] \in {"none", "header", "dial", "ack", "relay", "over"}
  BY <1>1, Places DEF TypeOK
<1>3. client = "relay" => near[T(j)] = "open"
  BY <1>1, EstablishedTry DEF ClientSide
<1> QED
  BY <1>1, <1>2, <1>3 DEF ServerSide, EndState

LEMMA UpClientCarry == SetupInv /\ SetupInv' /\ UpFlow /\ ClientCarry => UpFlow'
<1> SUFFICES ASSUME SetupInv, SetupInv', UpFlow, ClientCarry PROVE UpFlow'
  OBVIOUS
<1>1. Established /\ client = "relay"
  BY DEF ClientCarry, Established
<1>2. PICK j \in Tries : j = served
  BY <1>1, EstablishedTry
<1>3. /\ Carry(A, T(j)) /\ Established' /\ client' = "relay"
      /\ UNCHANGED <<front, head, taken, kept, served, sentUp, gotUp>>
  BY <1>1, <1>2 DEF ClientCarry, peers, Established
<1>4. /\ TypeOK /\ A \in Conn /\ T(j) \in Conn /\ A # T(j)
      /\ X(j) \in Conn /\ X(j) # A /\ X(j) # T(j)
  BY Places DEF SetupInv
<1>5. /\ UNCHANGED <<near, far>> /\ SameAt(X(j))
      /\ \/ /\ up[A] # <<>> /\ up'[A] = Tail(up[A])
            /\ up'[T(j)] = IF far[T(j)] = "closed" THEN up[T(j)]
                           ELSE Append(up[T(j)], Head(up[A]))
         \/ up' = up
  BY <1>3, <1>4, CarryFacts
<1>6. CASE up' = up
  <2>1. ShrinksUp(A) /\ ShrinksUp(T(j)) /\ ShrinksUp(X(j))
    BY <1>5, <1>6 DEF ShrinksUp, Intact
  <2> QED
    BY <1>1, <1>2, <1>3, <2>1, TunnelShrinks
<1>7. CASE /\ up[A] # <<>> /\ up'[A] = Tail(up[A])
           /\ up'[T(j)] = IF far[T(j)] = "closed" THEN up[T(j)]
                          ELSE Append(up[T(j)], Head(up[A]))
  <2>1. UpTunnel(j) /\ (Intact(X(j)) /\ Intact(T(j)) => UpFront) /\ taken' <= sentUp'
    BY <1>1, <1>2, <1>3 DEF UpFlow
  <2>2. /\ Skipped' = Skipped /\ AtTarget(j)' = AtTarget(j) /\ AtServer(j)' = AtServer(j)
        /\ Intact(X(j))' = Intact(X(j)) /\ Intact(T(j))' = Intact(T(j))
        /\ Intact(A)' = Intact(A) /\ up'[X(j)] = up[X(j)]
    BY <1>3, <1>5 DEF Skipped, AtTarget, AtServer, SameAt, Intact
  <2>3. /\ Numbered(Start, gotUp[j], Skipped)' /\ Numbered(Start, up[X(j)], AtTarget(j))'
        /\ AtServer(j)' <= sentUp' + 1
    BY <1>3, <2>1, <2>2 DEF UpTunnel, Numbered, ItemNr, Start, Request, Byte
  <2>4. CASE Intact(X(j)) /\ Intact(T(j))
    <3> DEFINE n == AtServer(j)
               b == Len(up[T(j)])
               a == Len(up[A])
    <3>1. /\ n \in Nat /\ b \in Nat /\ a \in Nat /\ sentUp \in Nat
          /\ up[A] \in Seq(Msg) /\ up[T(j)] \in Seq(Msg)
      BY <1>4, UpNumbers
    <3>2. /\ Numbered(Start, up[T(j)], n) /\ Numbered(Start, up[A], n + b)
          /\ (n + b) + a <= sentUp + 1
          /\ Intact(A) => (n + b) + a = sentUp + 1
      BY <1>1, <1>2, <2>1, <2>4 DEF UpTunnel, UpFront, AtFront, AtClient
    <3>3. n + b \in Nat
      BY <3>1
    <3>4. /\ Head(up[A]) = ItemNr(Start, n + b) /\ Head(up[A]) \in Msg
          /\ Numbered(Start, Tail(up[A]), (n + b) + 1)
          /\ Len(Tail(up[A])) = a - 1 /\ a # 0
      BY <1>7, <3>1, <3>2, <3>3, NumberedTail
    <3>5. /\ Numbered(Start, Append(up[T(j)], Head(up[A])), n)
          /\ Len(Append(up[T(j)], Head(up[A]))) = b + 1
      <4>1. /\ Numbered(Start, up[T(j)], AtServer(j)) /\ AtServer(j) \in Nat
            /\ Head(up[A]) = ItemNr(Start, AtServer(j) + Len(up[T(j)]))
            /\ Head(up[A]) \in Msg /\ up[T(j)] \in Seq(Msg)
        BY <3>1, <3>2, <3>4
      <4> QED
        BY <4>1, NumberedAppend
    <3>6. up'[T(j)] = Append(up[T(j)], Head(up[A])) /\ up'[A] = Tail(up[A])
      BY <1>7, <2>4 DEF Intact
    <3>7. AtClient(j)' = n + (b + 1) /\ AtFront' = n + (b + 1)
      BY <1>2, <1>3, <2>2, <3>5, <3>6 DEF AtClient, AtFront
    <3>8. Len(up'[A]) = a - 1
      BY <3>4, <3>6
    <3> HIDE DEF n, a, b
    <3>9. /\ n + (b + 1) = (n + b) + 1 /\ n + (b + 1) <= sentUp + 1
          /\ (n + (b + 1)) + (a - 1) <= sentUp + 1
          /\ Intact(A) => (n + (b + 1)) + (a - 1) = sentUp + 1
      BY <3>1, <3>2, <3>4
    <3>10. Numbered(Start, up[T(j)], AtServer(j))'
      BY <1>3, <2>2, <3>5, <3>6 DEF Numbered, ItemNr, Start, Request, Byte, n
    <3>11. UpTunnel(j)'
      BY <1>3, <2>3, <3>7, <3>9, <3>10 DEF UpTunnel
    <3>12. Numbered(Start, up[A], AtFront)'
      BY <1>3, <3>4, <3>6, <3>7, <3>9 DEF Numbered, ItemNr, Start, Request, Byte
    <3>13. UpFront'
      BY <1>3, <2>2, <3>7, <3>8, <3>9, <3>12 DEF UpFront
    <3> QED
      BY <1>2, <1>3, <2>1, <3>11, <3>13 DEF UpFlow
  <2>5. CASE ~(Intact(X(j)) /\ Intact(T(j)))
    <3>1. Intact(X(j)) => far[T(j)] = "closed"
      BY <1>1, <1>2, <2>5, ServedEnds DEF Intact
    <3>2. Intact(X(j)) => up'[T(j)] = up[T(j)] /\ AtClient(j)' = AtClient(j)
      BY <1>7, <2>2, <3>1 DEF AtClient
    <3>3. ASSUME Intact(X(j))
          PROVE  Numbered(Start, up[T(j)], AtServer(j))' /\ AtClient(j)' <= sentUp' + 1
      BY <1>3, <2>1, <2>2, <3>2, <3>3 DEF UpTunnel, Numbered, ItemNr, Start, Request, Byte
    <3>4. UpTunnel(j)'
      BY <2>2, <2>3, <3>3 DEF UpTunnel
    <3> QED
      BY <1>2, <1>3, <2>1, <2>2, <2>5, <3>4 DEF UpFlow
  <2> QED
    BY <2>4, <2>5
<1> QED
  BY <1>5, <1>6, <1>7

LEMMA UpServerCarry ==
    ASSUME NEW j \in Tries, j = served, Established
    PROVE  SetupInv /\ SetupInv' /\ UpFlow /\ ServerCarry(j) => UpFlow'
<1> SUFFICES ASSUME SetupInv, SetupInv', UpFlow, ServerCarry(j) PROVE UpFlow'
  OBVIOUS
<1>1. /\ server[j] = "relay" /\ Carry(T(j), X(j)) /\ Established'
      /\ client' = client /\ client # "parse"
      /\ UNCHANGED <<front, head, taken, kept, served, sentUp, gotUp>>
  BY DEF ServerCarry, ServerGoes, peers, Established
<1>2. /\ TypeOK /\ A \in Conn /\ T(j) \in Conn /\ A # T(j)
      /\ X(j) \in Conn /\ X(j) # A /\ X(j) # T(j)
  BY Places DEF SetupInv
<1>3. /\ UNCHANGED <<near, far>> /\ SameAt(A)
      /\ \/ /\ up[T(j)] # <<>> /\ up'[T(j)] = Tail(up[T(j)])
            /\ up'[X(j)] = IF far[X(j)] = "closed" THEN up[X(j)]
                           ELSE Append(up[X(j)], Head(up[T(j)]))
         \/ up' = up
  BY <1>1, <1>2, CarryFacts
<1>4. CASE up' = up
  <2>1. ShrinksUp(A) /\ ShrinksUp(T(j)) /\ ShrinksUp(X(j))
    BY <1>3, <1>4 DEF ShrinksUp, Intact
  <2> QED
    BY <1>1, <2>1, TunnelShrinks
<1>5. CASE /\ up[T(j)] # <<>> /\ up'[T(j)] = Tail(up[T(j)])
           /\ up'[X(j)] = IF far[X(j)] = "closed" THEN up[X(j)]
                          ELSE Append(up[X(j)], Head(up[T(j)]))
  <2>1. UpTunnel(j) /\ (Intact(X(j)) /\ Intact(T(j)) => UpFront) /\ taken' <= sentUp'
    BY <1>1 DEF UpFlow
  <2>2. /\ Skipped' = Skipped /\ AtTarget(j)' = AtTarget(j)
        /\ Intact(X(j))' = Intact(X(j)) /\ Intact(T(j))' = Intact(T(j))
        /\ Intact(A)' = Intact(A) /\ up'[A] = up[A]
    BY <1>1, <1>3 DEF Skipped, AtTarget, SameAt, Intact
  <2>3. Numbered(Start, gotUp[j], Skipped)'
    BY <1>1, <2>1, <2>2 DEF UpTunnel, Numbered, ItemNr, Start, Request, Byte
  <2>4. CASE Intact(X(j))
    <3> DEFINE n == AtTarget(j)
               c == Len(up[X(j)])
               b == Len(up[T(j)])
    <3>1. /\ n \in Nat /\ b \in Nat /\ c \in Nat /\ sentUp \in Nat /\ n + c \in Nat
          /\ up[X(j)] \in Seq(Msg) /\ up[T(j)] \in Seq(Msg)
      BY <1>2, UpNumbers
    <3>2. /\ Numbered(Start, up[X(j)], n) /\ Numbered(Start, up[T(j)], n + c)
          /\ (n + c) + b <= sentUp + 1
      BY <2>1, <2>4 DEF UpTunnel, AtServer, AtClient
    <3>3. /\ Head(up[T(j)]) = ItemNr(Start, n + c) /\ Head(up[T(j)]) \in Msg
          /\ Numbered(Start, Tail(up[T(j)]), (n + c) + 1)
          /\ Len(Tail(up[T(j)])) = b - 1 /\ b # 0
      BY <1>5, <3>1, <3>2, NumberedTail
    <3>4. /\ Numbered(Start, Append(up[X(j)], Head(up[T(j)])), n)
          /\ Len(Append(up[X(j)], Head(up[T(j)]))) = c + 1
      BY <3>1, <3>2, <3>3, NumberedAppend
    <3>5. /\ up'[X(j)] = Append(up[X(j)], Head(up[T(j)])) /\ up'[T(j)] = Tail(up[T(j)])
          /\ Len(up'[X(j)]) = c + 1 /\ Len(up'[T(j)]) = b - 1
      BY <1>5, <2>4, <3>3, <3>4 DEF Intact
    <3>6. /\ AtServer(j)' = n + (c + 1) /\ AtClient(j)' = (n + (c + 1)) + (b - 1)
          /\ AtClient(j) = (n + c) + b
      BY <2>2, <3>5 DEF AtServer, AtClient
    <3> HIDE DEF n, b, c
    <3>7. /\ n + (c + 1) = (n + c) + 1 /\ n + (c + 1) <= sentUp + 1
          /\ (n + (c + 1)) + (b - 1) = (n + c) + b
      BY <3>1, <3>2, <3>3
    <3>8. /\ Numbered(Start, up[X(j)], AtTarget(j))'
          /\ Numbered(Start, up[T(j)], AtServer(j))'
      <4>1. Numbered(Start, up[X(j)], AtTarget(j))'
        BY <1>1, <2>2, <3>4, <3>5 DEF Numbered, ItemNr, Start, Request, Byte, n
      <4>2. Numbered(Start, up'[T(j)], AtServer(j)')
        BY <3>3, <3>5, <3>6, <3>7
      <4> QED
        BY <1>1, <4>1, <4>2 DEF Numbered, ItemNr, Start, Request, Byte
    <3>9. UpTunnel(j)'
      BY <1>1, <2>3, <3>2, <3>6, <3>7, <3>8 DEF UpTunnel
    <3>10. Intact(T(j)) => UpFront'
      <4>1. AtFront' = AtClient(j)' /\ AtFront = AtClient(j) /\ AtClient(j)' = AtClient(j)
        BY <1>1, <3>6, <3>7 DEF AtFront
      <4> QED
        BY <1>1, <2>1, <2>2, <2>4, <4>1 DEF UpFront, Numbered, ItemNr, Start, Request, Byte
    <3> QED
      BY <1>1, <2>1, <2>2, <3>9, <3>10 DEF UpFlow
  <2>5. CASE ~Intact(X(j))
    <3>1. far[X(j)] = "closed"
      <4>1. ServerSide(j)
        BY DEF SetupInv
      <4> QED
        BY <1>1, <2>5, <4>1, ServedEnds DEF Intact, ServerSide
    <3>2. up'[X(j)] = up[X(j)] /\ AtServer(j)' = AtServer(j)
      BY <1>5, <2>2, <3>1 DEF AtServer
    <3>3. Numbered(Start, up[X(j)], AtTarget(j))' /\ AtServer(j)' <= sentUp' + 1
      <4>1. Numbered(Start, up[X(j)], AtTarget(j)) /\ AtServer(j) <= sentUp + 1
        BY <2>1 DEF UpTunnel
      <4>2. Numbered(Start, up'[X(j)], AtTarget(j)') /\ AtServer(j)' <= sentUp + 1
        BY <2>2, <3>2, <4>1
      <4> QED
        BY <1>1, <4>2 DEF Numbered, ItemNr, Start, Request, Byte
    <3>4. UpTunnel(j)'
      BY <2>2, <2>3, <2>5, <3>3 DEF UpTunnel
    <3> QED
      BY <1>1, <2>1, <2>2, <2>5, <3>4 DEF UpFlow
  <2> QED
    BY <2>4, <2>5
<1> QED
  BY <1>3, <1>4, <1>5

LEMMA UpTargetReads ==
    ASSUME NEW j \in Tries
    PROVE  SetupInv /\ SetupInv' /\ UpFlow /\ TargetReads(j) => UpFlow'
<1> SUFFICES ASSUME SetupInv, SetupInv', UpFlow, TargetReads(j) PROVE UpFlow'
  OBVIOUS
<1>1. /\ far[X(j)] = "open" /\ up[X(j)] # <<>>
      /\ gotUp' = [gotUp EXCEPT ![j] = Append(@, Head(up[X(j)]))]
      /\ up' = [up EXCEPT ![X(j)] = Tail(@)]
      /\ UNCHANGED <<front, head, near, far, client, served, taken, kept, sentUp>>
  BY DEF TargetReads, engines
<1>2. j = served /\ Established
  BY <1>1 DEF SetupInv, Early
<1>3. /\ TypeOK /\ A \in Conn /\ T(j) \in Conn /\ A # T(j)
      /\ X(j) \in Conn /\ X(j) # A /\ X(j) # T(j)
  BY Places DEF SetupInv
<1>4. /\ up'[A] = up[A] /\ up'[T(j)] = up[T(j)] /\ up'[X(j)] = Tail(up[X(j)])
      /\ gotUp'[j] = Append(gotUp[j], Head(up[X(j)]))
  BY <1>1, <1>3 DEF TypeOK
<1>5. UpTunnel(j) /\ taken' <= sentUp' /\ Established' /\ Skipped' = Skipped
  BY <1>1, <1>2 DEF UpFlow, Established, Skipped
<1> DEFINE n == Skipped
           a == Len(gotUp[j])
           c == Len(up[X(j)])
<1>6. /\ n \in Nat /\ a \in Nat /\ c \in Nat /\ n + a \in Nat
      /\ gotUp[j] \in Seq(Msg) /\ up[X(j)] \in Seq(Msg)
  BY <1>3, UpNumbers
<1>7. Numbered(Start, gotUp[j], n) /\ Numbered(Start, up[X(j)], n + a)
  BY <1>5 DEF UpTunnel, AtTarget
<1>8. /\ Head(up[X(j)]) = ItemNr(Start, n + a) /\ Head(up[X(j)]) \in Msg
      /\ Numbered(Start, Tail(up[X(j)]), (n + a) + 1)
      /\ Len(Tail(up[X(j)])) = c - 1 /\ c # 0
  BY <1>1, <1>6, <1>7, NumberedTail
<1>9. /\ Numbered(Start, gotUp'[j], n)
      /\ Len(gotUp'[j]) = a + 1
  <2>1. /\ Numbered(Start, gotUp[j], Skipped) /\ Skipped \in Nat
        /\ Head(up[X(j)]) = ItemNr(Start, Skipped + Len(gotUp[j]))
        /\ Head(up[X(j)]) \in Msg /\ gotUp[j] \in Seq(Msg)
    BY <1>6, <1>7, <1>8
  <2>2. /\ Numbered(Start, Append(gotUp[j], Head(up[X(j)])), Skipped)
        /\ Len(Append(gotUp[j], Head(up[X(j)]))) = Len(gotUp[j]) + 1
    BY <2>1, NumberedAppend
  <2> QED
    BY <1>4, <2>2
<1>10. /\ AtTarget(j)' = n + (a + 1) /\ AtServer(j)' = (n + (a + 1)) + (c - 1)
       /\ AtServer(j) = (n + a) + c
  BY <1>4, <1>5, <1>8, <1>9 DEF AtTarget, AtServer
<1> HIDE DEF n, a, c
<1>11. n + (a + 1) = (n + a) + 1 /\ (n + (a + 1)) + (c - 1) = (n + a) + c
  BY <1>6, <1>8
<1>12. AtServer(j)' = AtServer(j) /\ AtClient(j)' = AtClient(j)
  BY <1>4, <1>10, <1>11 DEF AtClient
<1>13. Numbered(Start, up[X(j)], AtTarget(j))'
  <2>1. Numbered(Start, up'[X(j)], AtTarget(j)')
    BY <1>4, <1>8, <1>10, <1>11
  <2> QED
    BY <1>1, <2>1 DEF Numbered, ItemNr, Start, Request, Byte
<1>14. Numbered(Start, gotUp[j], Skipped)'
  BY <1>1, <1>5, <1>9 DEF Numbered, ItemNr, Start, Request, Byte, n
<1>15. UpTunnel(j)'
  <2>1. AtServer(j)' <= sentUp' + 1
    BY <1>1, <1>5, <1>12 DEF UpTunnel
  <2>2. Intact(X(j))' => Numbered(Start, up[T(j)], AtServer(j))'
    BY <1>1, <1>4, <1>5, <1>12 DEF UpTunnel, Intact, Numbered, ItemNr, Start, Request, Byte
  <2>3. Intact(X(j))' => AtClient(j)' <= sentUp' + 1
    BY <1>1, <1>5, <1>12 DEF UpTunnel, Intact
  <2> QED
    BY <1>13, <1>14, <2>1, <2>2, <2>3 DEF UpTunnel
<1>16. ASSUME Intact(X(j))', Intact(T(j))'
       PROVE  UpFront'
  <2>1. UpFront /\ AtFront' = AtFront
    BY <1>1, <1>2, <1>5, <1>12, <1>16 DEF UpFlow, Intact, AtFront
  <2> QED
    BY <1>1, <1>4, <2>1 DEF UpFront, Intact, Numbered, ItemNr, Start, Request, Byte
<1> QED
  BY <1>1, <1>2, <1>5, <1>15, <1>16 DEF UpFlow, Established

LEMMA UpAppSends == SetupInv /\ SetupInv' /\ UpFlow /\ AppSends => UpFlow'
<1> SUFFICES ASSUME SetupInv, SetupInv', UpFlow, AppSends PROVE UpFlow'
  OBVIOUS
<1>1. /\ near[A] = "open"
      /\ UNCHANGED <<front, head, near, far, client, served, taken, kept, gotUp>>
  BY DEF AppSends, engines
<1>2. /\ TypeOK /\ up \in [Conn -> Seq(Msg)] /\ A \in Conn /\ sentUp \in Nat /\ taken \in Nat
      /\ up[A] \in Seq(Msg) /\ Len(up[A]) \in Nat
  BY UpNumbers, Places DEF SetupInv, TypeOK
<1>3. PICK m \in Msg :
         /\ up' = SendUp(up, A, m)
         /\ \/ sentUp = 0 /\ client = "parse" /\ up[A] = <<>> /\ m = Request(0) /\ sentUp' = sentUp
            \/ /\ client # "parse" \/ up[A] # <<>>
               /\ m = Byte(sentUp + 1) /\ sentUp' = sentUp + 1
  BY <1>2, Messages DEF AppSends
<1>4. /\ \A c \in Conn \ {A} : up'[c] = up[c]
      /\ up'[A] = IF far[A] = "closed" THEN up[A] ELSE Append(up[A], m)
  <2>1. /\ \A c \in Conn \ {A} : SendUp(up, A, m)[c] = up[c]
        /\ SendUp(up, A, m)[A] = IF far[A] = "closed" THEN up[A] ELSE Append(up[A], m)
    BY <1>2, SendUpFacts
  <2> QED
    BY <1>3, <2>1
<1>5. sentUp' \in Nat /\ sentUp <= sentUp' /\ taken' <= sentUp'
  BY <1>1, <1>2, <1>3 DEF UpFlow
<1>6. Skipped' = Skipped /\ (Established' <=> Established)
  BY <1>1 DEF Skipped, Established
(* What is beyond the application's connection is as it was.               *)
<1>7. ASSUME NEW j \in Tries
      PROVE  /\ AtClient(j)' = AtClient(j)
             /\ UpTunnel(j) => UpTunnel(j)'
  <2>1. up'[X(j)] = up[X(j)] /\ up'[T(j)] = up[T(j)] /\ gotUp' = gotUp
    BY <1>1, <1>4, Places
  <2>2. /\ AtTarget(j)' = AtTarget(j) /\ AtServer(j)' = AtServer(j)
        /\ AtClient(j)' = AtClient(j)
    BY <1>6, <2>1 DEF AtTarget, AtServer, AtClient
  <2>3. AtServer(j) \in Nat /\ AtClient(j) \in Nat
    BY <1>2, UpNumbers
  <2>4. ASSUME UpTunnel(j)
        PROVE  UpTunnel(j)'
    <3>1. /\ Numbered(Start, gotUp[j], Skipped)'
          /\ Numbered(Start, up[X(j)], AtTarget(j))'
      BY <1>1, <1>6, <2>1, <2>2, <2>4 DEF UpTunnel, Numbered, ItemNr, Start, Request, Byte
    <3>2. AtServer(j)' <= sentUp' + 1
      BY <1>2, <1>5, <2>2, <2>3, <2>4 DEF UpTunnel
    <3>3. Intact(X(j))' => Numbered(Start, up[T(j)], AtServer(j))'
      BY <1>1, <2>1, <2>2, <2>4 DEF UpTunnel, Intact, Numbered, ItemNr, Start, Request, Byte
    <3>4. Intact(X(j))' => AtClient(j)' <= sentUp' + 1
      BY <1>1, <1>2, <1>5, <2>2, <2>3, <2>4 DEF UpTunnel, Intact
    <3> QED
      BY <3>1, <3>2, <3>3, <3>4 DEF UpTunnel
  <2> QED
    BY <2>2, <2>4
<1>8. AtFront' = AtFront /\ AtFront \in Nat
  <2>1. CASE Established
    <3>1. served \in Tries
      BY <2>1, EstablishedTry
    <3> QED
      BY <1>1, <1>2, <1>6, <1>7, <2>1, <3>1, UpNumbers DEF AtFront, Established
  <2>2. CASE ~Established
    BY <1>1, <1>2, <1>6, <2>2 DEF AtFront
  <2> QED
    BY <2>1, <2>2
<1>9. UpFront => UpFront'
  <2> SUFFICES ASSUME UpFront PROVE UpFront'
    OBVIOUS
  <2> DEFINE n == AtFront
             a == Len(up[A])
  <2>1. /\ n \in Nat /\ a \in Nat /\ Numbered(Start, up[A], n) /\ n + a <= sentUp + 1
        /\ Intact(A) => n + a = sentUp + 1 \/ (client = "parse" /\ up[A] = <<>> /\ sentUp = 0)
    BY <1>2, <1>8 DEF UpFront
  <2>2. CASE far[A] = "closed"
    <3>1. up'[A] = up[A] /\ ~Intact(A)'
      BY <1>1, <1>4, <2>2 DEF Intact
    <3>2. Numbered(Start, up[A], AtFront)'
      BY <1>1, <1>8, <2>1, <3>1 DEF Numbered, ItemNr, Start, Request, Byte
    <3>3. AtFront' + Len(up'[A]) <= sentUp' + 1
      <4>1. AtFront' + Len(up'[A]) = n + a
        BY <1>8, <3>1
      <4> HIDE DEF n, a
      <4> QED
        BY <1>2, <1>5, <2>1, <4>1
    <3> QED
      BY <3>1, <3>2, <3>3 DEF UpFront
  <2>3. CASE far[A] # "closed"
    <3>1. Intact(A)
      BY <1>1, <2>3 DEF SetupInv, ClientSide, Intact
    <3>2. m = ItemNr(Start, n + a) /\ n + (a + 1) = sentUp' + 1
      <4>1. CASE client = "parse" /\ up[A] = <<>>
        <5>1. taken = 0 /\ kept = 0 /\ n = 0 /\ a = 0 /\ m = Request(0) /\ sentUp' = sentUp
              /\ sentUp = 0
          BY <1>3, <2>1, <4>1, Emptied DEF AtFront, SetupInv, ClientSide
        <5> HIDE DEF n, a
        <5> QED
          BY <5>1 DEF ItemNr, Start
      <4>2. CASE ~(client = "parse" /\ up[A] = <<>>)
        <5>1. n + a = sentUp + 1 /\ m = Byte(sentUp + 1) /\ sentUp' = sentUp + 1
          BY <1>3, <2>1, <3>1, <4>2
        <5> HIDE DEF n, a
        <5>2. n + a # taken /\ n + (a + 1) = sentUp' + 1
          BY <1>2, <2>1, <5>1 DEF UpFlow
        <5> QED
          BY <5>1, <5>2 DEF ItemNr, Start
      <4> QED
        BY <4>1, <4>2
    <3>3. Numbered(Start, Append(up[A], m), n) /\ Len(Append(up[A], m)) = a + 1
      BY <1>2, <2>1, <3>2, NumberedAppend
    <3>4. up'[A] = Append(up[A], m)
      BY <1>4, <2>3
    <3>5. Numbered(Start, up[A], AtFront)'
      BY <1>1, <1>8, <3>3, <3>4 DEF Numbered, ItemNr, Start, Request, Byte
    <3>6. AtFront' + Len(up'[A]) = n + (a + 1)
      BY <1>8, <3>3, <3>4
    <3>7. AtFront' + Len(up'[A]) = sentUp' + 1 /\ AtFront' + Len(up'[A]) <= sentUp' + 1
      BY <1>5, <3>2, <3>6
    <3> QED
      BY <3>5, <3>7 DEF UpFront
  <2> QED
    BY <2>2, <2>3
<1> QED
  <2>1. Established => served \in Tries
    BY EstablishedTry
  <2> QED
    BY <1>1, <1>5, <1>6, <1>7, <1>9, <2>1 DEF UpFlow, Intact

(* Every other step takes from the ends, if anything.                      *)
LEMMA UpOther ==
    ASSUME SetupInv, SetupInv', UpFlow,
           UNCHANGED <<front, head, sentUp, taken, kept, served>>, Established' <=> Established,
           client' # "parse" \/ client = "parse",
           client = "parse" => client' = "parse",
           ShrinksUp(A),
           Established => /\ gotUp'[served] = gotUp[served]
                          /\ ShrinksUp(T(served)) /\ ShrinksUp(X(served))
    PROVE  UpFlow'
<1>1. CASE Established
  BY <1>1, TunnelShrinks
<1>2. CASE ~Established
  BY <1>2, FrontShrinks
<1> QED
  BY <1>1, <1>2

LEMMA UpCloses ==
    ASSUME SetupInv, SetupInv', UpFlow,
           UNCHANGED <<front, head, sentUp, taken, kept, served, client, gotUp>>,
           NEW N \in SUBSET Conn, NEW F \in SUBSET Conn, CloseEnds(N, F)
    PROVE  UpFlow'
<1>1. \A c \in Conn : ShrinksUp(c)
  BY CloseShrinks DEF SetupInv
<1>2. A \in Conn /\ (Established => T(served) \in Conn /\ X(served) \in Conn)
  BY Places, EstablishedTry
<1> QED
  BY <1>1, <1>2, UpOther DEF Established

LEMMA UpClient ==
    SetupInv /\ SetupInv' /\ UpFlow /\ (ClientNext \/ Collect) => UpFlow'
<1> SUFFICES ASSUME SetupInv, SetupInv', UpFlow, ClientNext \/ Collect PROVE UpFlow'
  OBVIOUS
<1>1. TypeOK /\ ClientSide' /\ A \in Conn /\ {} \in SUBSET Conn /\ {A} \in SUBSET Conn
  BY Places DEF SetupInv
<1>2. CASE ParseFails
  <2>1. /\ ~Established /\ client' = "failed" /\ UNCHANGED <<sentUp, taken, kept>>
        /\ CloseEnds({}, {A})
    BY <1>2 DEF ParseFails, Established, peers
  <2>2. up'[A] = <<>> /\ far'[A] = "closed"
    BY <1>1, <2>1, CloseFacts
  <2> QED
    BY <2>1, <2>2, FrontShrinks DEF Established, Intact
<1>3. CASE Dial
  <2>1. PICK j \in Tries : j = try + 1
    BY <1>1, <1>3, TunnelAssumption DEF Dial, TypeOK, Tries
  <2>2. /\ client = "select" /\ client' = "wait" /\ UNCHANGED <<sentUp, taken, kept>>
        /\ near' = [near EXCEPT ![T(j)] = "open"]
        /\ far' = [far EXCEPT ![T(j)] = "open"]
        /\ up' = [up EXCEPT ![T(j)] = <<Header>>]
    BY <1>3, <2>1 DEF Dial, peers
  <2>3. near'[A] = near[A] /\ far'[A] = far[A] /\ up'[A] = up[A]
    BY <1>1, <2>2, Places DEF TypeOK
  <2> QED
    BY <2>2, <2>3, FrontShrinks DEF Established, ShrinksUp, Intact
<1>4. CASE DialFails \/ Acked
  <2>1. /\ client \in {"select", "wait"} /\ client' \in {"select", "reply"}
        /\ UNCHANGED <<near, far, up, sentUp, taken, kept>>
    BY <1>4 DEF DialFails, Acked, wires, peers
  <2> QED
    BY <2>1, FrontShrinks DEF Established, ShrinksUp, Intact
<1>5. CASE NotAcked
  <2>1. PICK j \in Tries : j = try
    BY <1>1, <1>5, TunnelAssumption DEF NotAcked, SetupInv, ClientSide, TypeOK, Tries
  <2>2. /\ client = "wait" /\ client' = "select" /\ UNCHANGED <<sentUp, taken, kept>>
        /\ CloseEnds({T(j)}, {}) /\ {T(j)} \in SUBSET Conn
    BY <1>5, <2>1, Places DEF NotAcked, peers
  <2>3. ShrinksUp(A)
    BY <1>1, <2>2, CloseShrinks
  <2> QED
    BY <2>2, <2>3, FrontShrinks DEF Established
<1>6. CASE GiveUp
  <2>1. /\ client = "select" /\ client' = "failed" /\ UNCHANGED <<sentUp, taken, kept>>
        /\ far' = [far EXCEPT ![A] = "closed"] /\ up' = [up EXCEPT ![A] = <<>>]
    BY <1>6 DEF GiveUp, peers
  <2>2. up'[A] = <<>> /\ far'[A] = "closed"
    BY <1>1, <2>1 DEF TypeOK
  <2> QED
    BY <2>1, <2>2, FrontShrinks DEF Established, Intact
<1>7. CASE ReplyFails
  <2>1. PICK j \in Tries : j = served
    BY <1>7, ServedFacts DEF ReplyFails
  <2>2. PICK N \in SUBSET Conn : CloseEnds(N, {A})
    BY <1>7, <2>1, Places DEF ReplyFails
  <2>3. client = "reply" /\ client' = "failed" /\ UNCHANGED <<sentUp, taken, kept>>
    BY <1>7 DEF ReplyFails, peers
  <2>4. up'[A] = <<>> /\ far'[A] = "closed"
    BY <1>1, <2>2, CloseFacts
  <2> QED
    BY <2>3, <2>4, FrontShrinks DEF Established, Intact
<1>8. CASE ClientEnds
  <2>1. PICK j \in Tries : j = served
    BY <1>8, ServedFacts DEF ClientEnds
  <2>2. /\ client = "relay" /\ client' = "over" /\ UNCHANGED <<front, head, sentUp, taken, kept>>
        /\ UNCHANGED <<served, gotUp>>
        /\ CloseEnds({T(j)}, {A}) /\ {T(j)} \in SUBSET Conn
    BY <1>8, <2>1, Places DEF ClientEnds, CloseBoth, peers
  <2>3. ShrinksUp(A) /\ ShrinksUp(T(j)) /\ ShrinksUp(X(j))
    BY <1>1, <2>2, Places, CloseShrinks
  <2> QED
    BY <2>1, <2>2, <2>3, UpOther DEF Established
<1>9. CASE Collect
  <2>1. PICK j \in Tries : CloseEnds({T(j)}, {})
    BY <1>9 DEF Collect
  <2>2. UNCHANGED <<front, head, sentUp, taken, kept, served, client, gotUp>>
        /\ {T(j)} \in SUBSET Conn
    BY <1>9, Places DEF Collect, peers
  <2> QED
    BY <1>1, <2>1, <2>2, UpCloses
<1> QED
  BY <1>2, <1>3, <1>4, <1>5, <1>6, <1>7, <1>8, <1>9, UpParse, UpReply, UpClientCarry
     DEF ClientNext

LEMMA UpServer ==
    ASSUME NEW j \in Tries
    PROVE  SetupInv /\ SetupInv' /\ UpFlow /\ ServerNext(j) => UpFlow'
<1> SUFFICES ASSUME SetupInv, SetupInv', UpFlow, ServerNext(j) PROVE UpFlow'
  OBVIOUS
<1>1. /\ TypeOK /\ A \in Conn /\ {} \in SUBSET Conn
      /\ T(j) \in Conn /\ X(j) \in Conn /\ A # T(j) /\ A # X(j) /\ T(j) # X(j)
      /\ {T(j)} \in SUBSET Conn /\ {X(j)} \in SUBSET Conn
  BY Places DEF SetupInv
<1>2. UNCHANGED <<front, head, client, served, taken, kept, sentUp, gotUp>>
  BY DEF ServerNext, ReadHeader, ReadHeaderFails, DialTarget, DialTargetFails, Ack, AckFails,
         ServerCarry, ServerEnds, ServerGoes, peers
<1>3. server[j] \in {"header", "dial"} /\ Established => j # served
  <2>1. j = served /\ Established => server[j] \in {"ack", "relay", "over"}
    BY ServedEnds
  <2> QED
    BY <2>1
(* A step on another try leaves the acknowledged one alone.                *)
<1>4. ASSUME \A c \in Conn : c \notin {T(j), X(j)} => SameAt(c), Established => j # served
      PROVE  UpFlow'
  <2>1. SameAt(A) /\ (Established => SameAt(T(served)) /\ SameAt(X(served)))
    BY <1>1, <1>4, Places, EstablishedTry
  <2> QED
    BY <1>2, <2>1, SameShrinks, UpOther DEF Established
<1>5. CASE ReadHeader(j) \/ DialTarget(j) \/ DialTargetFails(j)
  <2>1. \A c \in Conn : c \notin {T(j), X(j)} =>
           near'[c] = near[c] /\ far'[c] = far[c] /\ up'[c] = up[c]
    BY <1>1, <1>5 DEF ReadHeader, DialTarget, DialTargetFails, TypeOK
  <2>2. \A c \in Conn : c \notin {T(j), X(j)} => ShrinksUp(c)
    BY <2>1 DEF ShrinksUp, Intact
  <2>3. Established => j # served
    BY <1>3, <1>5 DEF ReadHeader, DialTarget, DialTargetFails
  <2>4. ShrinksUp(A) /\ (Established => ShrinksUp(T(served)) /\ ShrinksUp(X(served)))
    BY <1>1, <2>2, <2>3, Places, EstablishedTry
  <2> QED
    BY <1>2, <2>4, UpOther DEF Established
<1>6. CASE Ack(j)
  <2>1. \A c : ShrinksUp(c)
    BY <1>6 DEF Ack, ShrinksUp, Intact
  <2> QED
    BY <1>2, <2>1, UpOther DEF Established
<1>7. CASE ReadHeaderFails(j) \/ AckFails(j) \/ ServerEnds(j)
  <2>1. PICK N \in SUBSET Conn, F \in SUBSET Conn : CloseEnds(N, F)
    BY <1>1, <1>7 DEF ReadHeaderFails, AckFails, ServerEnds, CloseBoth
  <2> QED
    BY <1>2, <2>1, UpCloses
<1>8. CASE ServerCarry(j)
  <2>1. CASE j = served /\ Established
    BY <1>8, <2>1, UpServerCarry
  <2>2. CASE ~(j = served /\ Established)
    <3>1. Carry(T(j), X(j))
      BY <1>8 DEF ServerCarry
    <3>2. \A c \in Conn \ {T(j), X(j)} : SameAt(c)
      BY <1>1, <3>1, CarryFacts
    <3> QED
      BY <1>4, <2>2, <3>2
  <2> QED
    BY <2>1, <2>2
<1> QED
  BY <1>5, <1>6, <1>7, <1>8 DEF ServerNext

LEMMA UpPeers ==
    /\ SetupInv /\ SetupInv' /\ UpFlow
    /\ \/ AppSends \/ AppReads \/ AppHalfCloses \/ AppCloses
       \/ \E i \in Tries : TargetSends(i) \/ TargetReads(i) \/ TargetCloses(i)
    => UpFlow'
<1> SUFFICES ASSUME SetupInv, SetupInv', UpFlow,
                    \/ AppSends \/ AppReads \/ AppHalfCloses \/ AppCloses
                    \/ \E i \in Tries : TargetSends(i) \/ TargetReads(i) \/ TargetCloses(i)
             PROVE  UpFlow'
  OBVIOUS
<1>1. TypeOK /\ A \in Conn /\ {} \in SUBSET Conn /\ {A} \in SUBSET Conn
  BY Places DEF SetupInv
<1>2. CASE AppReads \/ AppHalfCloses \/ \E i \in Tries : TargetSends(i)
  <2>1. /\ UNCHANGED <<front, head, client, served, taken, kept, sentUp, gotUp, far, up>>
        /\ near' = near \/ (near[A] = "open" /\ near' = [near EXCEPT ![A] = "half"])
    BY <1>2 DEF AppReads, AppHalfCloses, TargetSends, engines, peers
  <2>2. \A c \in Conn : ShrinksUp(c)
    BY <1>1, <2>1 DEF ShrinksUp, Intact, TypeOK
  <2>3. Established => T(served) \in Conn /\ X(served) \in Conn
    BY Places, EstablishedTry
  <2> QED
    BY <1>1, <2>1, <2>2, <2>3, UpOther DEF Established
<1>3. CASE AppCloses
  BY <1>1, <1>3, UpCloses DEF AppCloses, peers
<1>4. ASSUME NEW i \in Tries, TargetCloses(i)
      PROVE  UpFlow'
  <2>1. /\ CloseEnds({}, {X(i)}) /\ {X(i)} \in SUBSET Conn
        /\ UNCHANGED <<front, head, sentUp, taken, kept, served, client, gotUp>>
    BY <1>4, Places DEF TargetCloses, peers
  <2> QED
    BY <1>1, <2>1, UpCloses
<1> QED
  BY <1>2, <1>3, <1>4, UpAppSends, UpTargetReads

LEMMA UpFlowInit == Init => UpFlow
<1> SUFFICES ASSUME Init PROVE UpFlow
  OBVIOUS
<1>1. /\ up[A] = <<>> /\ sentUp = 0 /\ client = "parse" /\ served = 0 /\ taken = 0
  BY Places DEF Init
<1>2. UpFront
  BY <1>1, NumberedNone, Emptied DEF UpFront, AtFront
<1> QED
  BY <1>1, <1>2 DEF UpFlow, Established

LEMMA UpFlowNext == SetupInv /\ SetupInv' /\ UpFlow /\ [Next]_vars => UpFlow'
<1> SUFFICES ASSUME SetupInv, SetupInv', UpFlow, [Next]_vars PROVE UpFlow'
  OBVIOUS
<1>1. CASE Next
  BY <1>1, UpClient, UpServer, UpPeers DEF Next
<1>2. CASE UNCHANGED vars
  <2>1. UNCHANGED <<front, head, client, served, taken, kept, sentUp, gotUp, near, far, up>>
    BY <1>2 DEF vars, wires, engines, peers
  <2>2. \A c : ShrinksUp(c)
    BY <2>1 DEF ShrinksUp, Intact
  <2> QED
    BY <2>1, <2>2, UpOther DEF Established
<1> QED
  BY <1>1, <1>2

-----------------------------------------------------------------------------
(* The end of the stream that was read, against all of it.                 *)
LEMMA NumberedPrefix ==
    ASSUME NEW first, NEW n \in Nat, NEW s \in Seq(Msg), NEW t \in Seq(Msg),
           Numbered(first, s, n), Numbered(first, t, n), Len(s) <= Len(t)
    PROVE  /\ SubSeq(s, 1, Len(s)) = SubSeq(t, 1, Len(s))
           /\ Len(s) # Len(t) => s # t
<1>1. Len(s) \in Nat /\ Len(t) \in Nat /\ 1 \in Int /\ Len(s) \in Int
  BY LenProperties
<1>2. \A k \in 1 .. Len(s) : s[k] = t[k] /\ s[k] \in Msg /\ t[k] \in Msg
  <2>1. \A k \in 1 .. Len(s) : k \in 1 .. Len(t)
    BY <1>1
  <2> QED
    BY <2>1, ElementOfSeq DEF Numbered
<1> DEFINE p == SubSeq(s, 1, Len(s))
           q == SubSeq(t, 1, Len(s))
<1>3. /\ p \in Seq(Msg) /\ Len(p) = IF 1 <= Len(s) THEN Len(s) - 1 + 1 ELSE 0
      /\ \A k \in 1 .. Len(s) - 1 + 1 : p[k] = s[1 + k - 1]
  BY <1>1, <1>2, SubSeqProperties
<1>4. /\ q \in Seq(Msg) /\ Len(q) = IF 1 <= Len(s) THEN Len(s) - 1 + 1 ELSE 0
      /\ \A k \in 1 .. Len(s) - 1 + 1 : q[k] = t[1 + k - 1]
  BY <1>1, <1>2, SubSeqProperties
<1> HIDE DEF p, q
<1>5. /\ Len(p) = Len(s) /\ Len(q) = Len(s)
      /\ \A k \in 1 .. Len(s) : k \in 1 .. Len(s) - 1 + 1 /\ 1 + k - 1 = k
  BY <1>1, <1>3, <1>4
<1>6. \A k \in 1 .. Len(p) : p[k] = q[k]
  BY <1>2, <1>3, <1>4, <1>5
<1>7. p = q
  BY <1>3, <1>4, <1>5, <1>6, SeqEqual
<1> QED
  BY <1>7 DEF p, q

(* All the bytes of one sender, also with what precedes them.              *)
LEMMA StreamFacts ==
    ASSUME NEW first \in Msg, NEW n \in Nat
    PROVE  /\ Stream(n) \in Seq(Msg) /\ Len(Stream(n)) = n
           /\ Numbered(<<0, first>>, Stream(n), 1)
           /\ <<first>> \o Stream(n) \in Seq(Msg) /\ Len(<<first>> \o Stream(n)) = n + 1
           /\ Numbered(<<0, first>>, <<first>> \o Stream(n), 0)
<1> DEFINE s == Stream(n)
           w == <<first>> \o s
<1>1. \A k \in 1 .. n : Byte(k) \in Msg
  BY Messages
<1>2. s \in [1 .. n -> Msg] /\ \A k \in 1 .. n : s[k] = Byte(k)
  BY <1>1 DEF Stream
<1>3. s \in Seq(Msg)
  BY <1>2, SeqDef
<1>4. Len(s) = n
  BY <1>2, <1>3, LenProperties
<1> HIDE DEF s
<1>5. Numbered(<<0, first>>, s, 1)
  <2>1. ASSUME NEW k \in 1 .. Len(s)
        PROVE  s[k] = ItemNr(<<0, first>>, 1 + k - 1)
    <3>1. k \in 1 .. n /\ 1 + k - 1 = k /\ k # 0
      BY <1>4
    <3> QED
      BY <1>2, <3>1 DEF ItemNr
  <2> QED
    BY <2>1 DEF Numbered
<1>6. /\ <<first>> \in Seq(Msg) /\ Len(<<first>>) = 1 /\ <<first>>[1] = first
  OBVIOUS
<1>7. /\ w \in Seq(Msg) /\ Len(w) = Len(<<first>>) + Len(s)
      /\ \A k \in 1 .. Len(<<first>>) + Len(s) :
            w[k] = IF k <= Len(<<first>>) THEN <<first>>[k] ELSE s[k - Len(<<first>>)]
  BY <1>3, <1>6, ConcatProperties
<1> HIDE DEF w
<1>8. Len(w) = n + 1 /\ \A k \in 1 .. n + 1 : w[k] = IF k <= 1 THEN first ELSE s[k - 1]
  <2>1. Len(<<first>>) + Len(s) = n + 1
    BY <1>4, <1>6
  <2>2. Len(w) = n + 1
    BY <1>7, <2>1
  <2>3. ASSUME NEW k \in 1 .. n + 1
        PROVE  w[k] = IF k <= 1 THEN first ELSE s[k - 1]
    BY <1>6, <1>7, <2>1
  <2> QED
    BY <2>2, <2>3
<1>9. Numbered(<<0, first>>, w, 0)
  <2>1. ASSUME NEW k \in 1 .. n + 1
        PROVE  w[k] = ItemNr(<<0, first>>, 0 + k - 1)
    <3>1. 0 + k - 1 = k - 1 /\ (k <= 1 => k = 1) /\ (k > 1 => k - 1 \in 1 .. n /\ k - 1 # 0)
      OBVIOUS
    <3>2. CASE k <= 1
      BY <1>8, <3>1, <3>2 DEF ItemNr
    <3>3. CASE k > 1
      BY <1>2, <1>8, <3>1, <3>3 DEF ItemNr
    <3> QED
      BY <3>2, <3>3
  <2> QED
    BY <1>8, <2>1 DEF Numbered
<1> QED
  BY <1>3, <1>4, <1>5, <1>7, <1>8, <1>9 DEF s, w

UpStream ==
    /\ Offered \in Seq(Msg) /\ Numbered(Start, Offered, Skipped)
    /\ Skipped + Len(Offered) = sentUp + 1

LEMMA OfferedFacts == SetupInv /\ UpFlow /\ Established => UpStream
<1> SUFFICES ASSUME TypeOK, taken <= sentUp, Established PROVE UpStream
  BY DEF SetupInv, UpFlow
<1>1. sentUp \in Nat /\ taken \in Nat /\ kept \in Nat /\ taken + 1 # taken
  BY UpNumbers DEF TypeOK
<1> DEFINE s == Stream(sentUp)
           r == SubSeq(s, taken + 1, Len(s))
           w == <<Request(kept)>> \o r
<1>2. s \in Seq(Msg) /\ Len(s) = sentUp /\ Numbered(<<0, Ok>>, s, 1)
  BY <1>1, Messages, StreamFacts
<1>3. Offered = IF front = "plain" THEN w ELSE <<>> \o r
  BY <1>2 DEF Offered
<1> HIDE DEF s
<1>4. /\ Numbered(<<0, Ok>>, r, 1 + taken) /\ r \in Seq(Msg)
      /\ Len(r) = IF taken <= Len(s) THEN Len(s) - taken ELSE 0
  BY <1>1, <1>2, NumberedRest
<1> HIDE DEF r
<1>5. Len(r) = sentUp - taken /\ (1 + taken) + Len(r) = sentUp + 1
  <2>1. Len(r) = sentUp - taken
    BY <1>1, <1>2, <1>4
  <2> QED
    BY <1>1, <2>1
<1>6. \A k \in 1 .. Len(r) : r[k] = Byte(taken + k) /\ taken + k # taken
  <2>1. ASSUME NEW k \in 1 .. Len(r)
        PROVE  r[k] = Byte(taken + k) /\ taken + k # taken
    <3>1. k \in Nat /\ k # 0
      OBVIOUS
    <3>2. (1 + taken) + k - 1 = taken + k /\ taken + k # taken /\ taken + k # 0
      BY <1>1, <3>1
    <3> QED
      BY <1>4, <3>2 DEF Numbered, ItemNr
  <2> QED
    BY <2>1
<1>7. CASE front # "plain"
  <2>1. Offered = r /\ Skipped = taken + 1
    BY <1>3, <1>4, <1>7 DEF Skipped
  <2>2. ASSUME NEW k \in 1 .. Len(r)
        PROVE  r[k] = ItemNr(Start, (taken + 1) + k - 1)
    <3>1. k \in Nat /\ (taken + 1) + k - 1 = taken + k
      BY <1>1
    <3> QED
      BY <1>6, <3>1 DEF ItemNr, Start
  <2>3. (taken + 1) + Len(r) = sentUp + 1
    BY <1>1, <1>5
  <2> QED
    BY <1>4, <2>1, <2>2, <2>3 DEF UpStream, Numbered
<1>8. CASE front = "plain"
  <2>1. Offered = w /\ Skipped = taken
    BY <1>3, <1>8 DEF Skipped
  <2>2. <<Request(kept)>> \in Seq(Msg) /\ Len(<<Request(kept)>>) = 1 /\ <<Request(kept)>>[1] = Request(kept)
    BY <1>1, Messages
  <2>3. /\ w \in Seq(Msg) /\ Len(w) = Len(<<Request(kept)>>) + Len(r)
        /\ \A k \in 1 .. Len(<<Request(kept)>>) + Len(r) :
              w[k] = IF k <= Len(<<Request(kept)>>) THEN <<Request(kept)>>[k]
                     ELSE r[k - Len(<<Request(kept)>>)]
    BY <1>4, <2>2, ConcatProperties
  <2> HIDE DEF w
  <2>4. Len(r) \in Nat /\ Len(w) = 1 + Len(r)
    BY <1>4, <2>2, <2>3, LenProperties
  <2>5. ASSUME NEW k \in 1 .. Len(w)
        PROVE  w[k] = ItemNr(Start, taken + k - 1)
    <3>1. k \in Nat /\ k \in 1 .. 1 + Len(r)
      BY <2>4
    <3>2. CASE k = 1
      <4>1. taken + k - 1 = taken
        BY <1>1, <3>2
      <4> QED
        BY <2>2, <2>3, <2>4, <3>2, <4>1 DEF ItemNr, Start
    <3>3. CASE k # 1
      <4>1. ~(k <= 1) /\ k - 1 \in 1 .. Len(r) /\ taken + (k - 1) = taken + k - 1
        BY <1>1, <2>4, <3>1, <3>3
      <4>2. w[k] = r[k - 1]
        BY <2>2, <2>3, <3>1, <4>1
      <4> QED
        BY <1>6, <4>1, <4>2 DEF ItemNr, Start
    <3> QED
      BY <3>2, <3>3
  <2>6. taken + Len(w) = sentUp + 1
    BY <1>1, <1>5, <2>4
  <2> QED
    BY <2>1, <2>3, <2>5, <2>6 DEF UpStream, Numbered
<1> QED
  BY <1>7, <1>8

LEMMA Grows ==
    ASSUME NEW first, NEW n \in Nat, NEW s \in Seq(Msg), NEW t \in Seq(Msg),
           Numbered(first, s, n), Numbered(first, t, n)
    PROVE  /\ Len(s) <= Len(t) => UpPipe!IsPrefix(s, t) /\ DownPipe!IsPrefix(s, t)
           /\ Len(s) <= Len(t) /\ Len(s) # Len(t) =>
                 UpPipe!IsStrictPrefix(s, t) /\ DownPipe!IsStrictPrefix(s, t)
<1>1. Len(s) <= Len(t) => UpPipe!IsPrefix(s, t) /\ DownPipe!IsPrefix(s, t)
  BY NumberedPrefix DEF UpPipe!IsPrefix, DownPipe!IsPrefix
<1> QED
  BY <1>1 DEF UpPipe!IsStrictPrefix, DownPipe!IsStrictPrefix

(* What a step does once the tunnel is there.                              *)
LEMMA UpSteps ==
    ASSUME SetupInv, [Next]_vars, Established
    PROVE  /\ Established' /\ UNCHANGED <<front, head, taken, kept, served>>
           /\ \/ sentUp' = sentUp /\ gotUp'[served] = gotUp[served]
              \/ sentUp' = sentUp + 1 /\ gotUp' = gotUp
              \/ sentUp' = sentUp /\ up[X(served)] # <<>>
                 /\ gotUp'[served] = Append(gotUp[served], Head(up[X(served)]))
<1>1. /\ served \in Tries /\ client \in {"relay", "over"}
      /\ gotUp \in [Tries -> Seq(Msg)]
  BY EstablishedTry DEF SetupInv, TypeOK
<1>2. CASE ClientNext \/ Collect
  BY <1>1, <1>2
     DEF ClientNext, Parse, ParseSocks, ParseHttp, TakeRequest, ParseFails, Dial, DialFails,
         Acked, NotAcked, GiveUp, Reply, ReplyFails, ClientCarry, ClientEnds, Collect,
         Established, peers
<1>3. ASSUME NEW i \in Tries, ServerNext(i)
      PROVE  Established' /\ UNCHANGED <<front, head, taken, kept, served, sentUp, gotUp>>
  BY <1>3 DEF ServerNext, ReadHeader, ReadHeaderFails, DialTarget, DialTargetFails, Ack,
              AckFails, ServerCarry, ServerEnds, ServerGoes, peers, Established
<1>4. CASE AppSends
  BY <1>4 DEF AppSends, engines, Established
<1>5. CASE AppReads \/ AppHalfCloses \/ AppCloses
  BY <1>5 DEF AppReads, AppHalfCloses, AppCloses, engines, peers, Established
<1>6. ASSUME NEW i \in Tries, TargetSends(i) \/ TargetCloses(i)
      PROVE  Established' /\ UNCHANGED <<front, head, taken, kept, served, sentUp, gotUp>>
  BY <1>6 DEF TargetSends, TargetCloses, engines, peers, Established
<1>7. ASSUME NEW i \in Tries, TargetReads(i)
      PROVE  /\ Established' /\ UNCHANGED <<front, head, taken, kept, served, sentUp>>
             /\ \/ gotUp'[served] = gotUp[served]
                \/ /\ up[X(served)] # <<>>
                   /\ gotUp'[served] = Append(gotUp[served], Head(up[X(served)]))
  <2>1. /\ UNCHANGED <<front, head, taken, kept, served, sentUp, client>> /\ up[X(i)] # <<>>
        /\ gotUp' = [gotUp EXCEPT ![i] = Append(@, Head(up[X(i)]))]
    BY <1>7 DEF TargetReads, engines
  <2>2. CASE i = served
    BY <1>1, <2>1, <2>2 DEF Established
  <2>3. CASE i # served
    BY <1>1, <2>1, <2>3 DEF Established
  <2> QED
    BY <2>2, <2>3
<1>8. CASE UNCHANGED vars
  BY <1>8 DEF vars, engines, peers, Established
<1> QED
  BY <1>2, <1>3, <1>4, <1>5, <1>6, <1>7, <1>8 DEF Next

(* The step that says so.                                                  *)
LEMMA Establishes ==
    ASSUME [Next]_vars, ~Established, Established'
    PROVE  Reply
BY DEF Next, ClientNext, Parse, ParseSocks, ParseHttp, TakeRequest, ParseFails, Dial, DialFails,
       Acked, NotAcked, GiveUp, ReplyFails, ClientCarry, ClientEnds, Collect,
       ServerNext, ReadHeader, ReadHeaderFails, DialTarget, DialTargetFails, Ack, AckFails,
       ServerCarry, ServerEnds, ServerGoes, AppSends, AppReads, AppHalfCloses, AppCloses,
       TargetSends, TargetReads, TargetCloses, vars, engines, peers, Established

(* Every step puts something in, takes something out, or does neither.     *)
LEMMA UpPipeNext ==
    ASSUME SetupInv, SetupInv', UpFlow, UpFlow', [Next]_vars
    PROVE  [UpPipe!Next]_<<Offered, IF Established THEN gotUp[served] ELSE <<>>>>
<1>1. /\ Established => UpStream
      /\ Established' => UpStream'
  <2>1. (SetupInv /\ UpFlow /\ Established => UpStream)'
    BY OfferedFacts, PTL
  <2> QED
    BY <2>1, OfferedFacts
<1>2. TypeOK /\ TypeOK' /\ sentUp \in Nat /\ Skipped \in Nat
  BY UpNumbers DEF SetupInv
<1>3. CASE ~Established /\ ~Established'
  BY <1>3 DEF Offered
<1>4. CASE ~Established /\ Established'
  <2>1. Reply
    BY <1>4, Establishes
  <2>2. PICK j \in Tries : j = served
    BY <2>1, ServedFacts DEF Reply
  <2>3. gotUp[j] = <<>> /\ served' = j /\ gotUp' = gotUp
    BY <1>4, <2>1, <2>2 DEF SetupInv, Early, Reply, peers
  <2>4. Offered = <<>> /\ Offered' \in Seq(Msg)
    BY <1>1, <1>4 DEF UpStream, Offered
  <2>5. Offered' = <<>> \/ UpPipe!IsStrictPrefix(<<>>, Offered')
    <3> DEFINE t == Offered'
    <3>1. t \in Seq(Msg)
      BY <2>4
    <3> HIDE DEF t
    <3>2. /\ Len(<<>>) = 0 /\ Len(t) \in Nat /\ <<>> \in Seq(Msg)
          /\ SubSeq(<<>>, 1, 0) = <<>> /\ SubSeq(t, 1, 0) = <<>>
      BY <3>1, LenProperties, Emptied, SubSeqEmpty
    <3>3. t = <<>> \/ UpPipe!IsStrictPrefix(<<>>, t)
      BY <3>2 DEF UpPipe!IsStrictPrefix, UpPipe!IsPrefix
    <3> QED
      BY <3>3 DEF t
  <2>6. UNCHANGED (IF Established THEN gotUp[served] ELSE <<>>)
    BY <1>4, <2>3
  <2> QED
    BY <2>4, <2>5, <2>6 DEF UpPipe!Next, UpPipe!Put
<1>5. CASE Established
  <2>1. PICK j \in Tries : j = served
    BY <1>5, EstablishedTry
  <2>2. /\ Established' /\ UNCHANGED <<front, head, taken, kept, served>> /\ Skipped' = Skipped
        /\ \/ sentUp' = sentUp /\ gotUp'[j] = gotUp[j]
           \/ sentUp' = sentUp + 1 /\ gotUp' = gotUp
           \/ sentUp' = sentUp /\ up[X(j)] # <<>>
              /\ gotUp'[j] = Append(gotUp[j], Head(up[X(j)]))
    BY <1>5, <2>1, UpSteps DEF Skipped
  <2> DEFINE n == Skipped
             s == Offered
             t == Offered'
             g == gotUp[j]
             h == gotUp'[j]
  <2>3. /\ s \in Seq(Msg) /\ t \in Seq(Msg) /\ g \in Seq(Msg) /\ h \in Seq(Msg)
    BY <1>1, <1>2, <1>5, <2>2 DEF UpStream, TypeOK
  <2>4. Numbered(Start, s, n) /\ n + Len(s) = sentUp + 1
    BY <1>1, <1>5 DEF UpStream
  <2>5. Numbered(Start, t, n) /\ n + Len(t) = sentUp' + 1
    BY <1>1, <2>2 DEF UpStream, Numbered, ItemNr, Start, Request, Byte
  <2>6. Numbered(Start, g, n)
    BY <1>5, <2>1 DEF UpFlow, UpTunnel
  <2>7. Numbered(Start, h, n) /\ n + Len(h) <= sentUp' + 1
    <3>1. UpTunnel(j)'
      BY <2>1, <2>2 DEF UpFlow
    <3>2. Numbered(Start, h, n)
      BY <2>2, <3>1 DEF UpTunnel, Numbered, ItemNr, Start, Request, Byte
    <3> DEFINE u == Len(up'[X(j)])
               a == Len(gotUp'[j])
    <3>3. (n + a) + u <= sentUp' + 1
      BY <2>2, <3>1 DEF UpTunnel, AtServer, AtTarget
    <3>4. u \in Nat /\ a \in Nat /\ sentUp' \in Nat /\ n \in Nat
      BY <1>2, <2>3, Places, LenProperties, TunnelAssumption DEF TypeOK
    <3>5. n + a <= sentUp' + 1
      <4>1. \A x, y, z, w \in Nat : (x + y) + z <= w + 1 => x + y <= w + 1
        OBVIOUS
      <4> HIDE DEF n, a, u
      <4> QED
        BY <3>3, <3>4, <4>1
    <3> QED
      BY <3>2, <3>5
  <2>8. /\ n \in Nat /\ Len(s) \in Nat /\ Len(t) \in Nat /\ Len(g) \in Nat /\ Len(h) \in Nat
    BY <1>2, <2>3, LenProperties
  <2>9. /\ (IF Established THEN gotUp[served] ELSE <<>>) = g
        /\ (IF Established THEN gotUp[served] ELSE <<>>)' = h
    BY <1>5, <2>1, <2>2
  <2>10. sentUp' = sentUp => s = t
    <3> HIDE DEF n, s, t
    <3>1. sentUp' = sentUp => Len(s) = Len(t)
      BY <1>2, <2>4, <2>5, <2>8
    <3> QED
      BY <2>3, <2>4, <2>5, <2>8, <3>1, NumberedSame
  <2>11. CASE sentUp' = sentUp /\ gotUp'[j] = gotUp[j]
    BY <2>9, <2>11, <2>10
  <2>12. CASE sentUp' = sentUp + 1 /\ gotUp' = gotUp
    <3> HIDE DEF n, s, t
    <3>1. Len(s) <= Len(t) /\ Len(s) # Len(t)
      BY <1>2, <2>4, <2>5, <2>8, <2>12
    <3>2. UpPipe!IsStrictPrefix(s, t)
      BY <2>3, <2>4, <2>5, <2>8, <3>1, Grows
    <3> QED
      BY <2>3, <2>9, <2>12, <3>2 DEF UpPipe!Next, UpPipe!Put, s, t
  <2>13. CASE /\ sentUp' = sentUp /\ up[X(j)] # <<>>
              /\ gotUp'[j] = Append(gotUp[j], Head(up[X(j)]))
    <3>1. s = t
      BY <2>13, <2>10
    <3>2. Len(h) = Len(g) + 1
      BY <1>2, <2>3, <2>13, Places, Taken, Added DEF TypeOK
    <3> HIDE DEF n, s, t, g, h
    <3>3. Len(g) <= Len(h) /\ Len(g) # Len(h) /\ Len(h) <= Len(s)
      BY <1>2, <2>4, <2>7, <2>8, <2>13, <3>2
    <3>4. UpPipe!IsStrictPrefix(g, h) /\ UpPipe!IsPrefix(h, s)
      BY <2>3, <2>4, <2>6, <2>7, <2>8, <3>3, Grows
    <3> QED
      BY <2>9, <3>1, <3>4 DEF UpPipe!Next, UpPipe!Take, s, t
  <2> QED
    BY <2>2, <2>11, <2>12, <2>13
<1> QED
  BY <1>3, <1>4, <1>5

LEMMA UpFlowAlways == Spec => []UpFlow
BY SetupAlways, UpFlowInit, UpFlowNext, PTL DEF Spec

(* What the target reads is what the application offered to the engines    *)
(* once the tunnel was there: in order, nothing twice, nothing left out,   *)
(* over however many tries it was set up.                                  *)
THEOREM TunnelUpIsPipe == Spec => UpPipe!Spec
<1>1. Init => UpPipe!Init
  BY DEF Init, UpPipe!Init, Offered, Established
<1>2. SetupInv /\ SetupInv' /\ UpFlow /\ UpFlow' /\ [Next]_vars
         => [UpPipe!Next]_<<Offered, IF Established THEN gotUp[served] ELSE <<>>>>
  BY UpPipeNext
<1> QED
  BY <1>1, <1>2, SetupAlways, UpFlowAlways, PTL DEF Spec, UpPipe!Spec

-----------------------------------------------------------------------------
(***************************************************************************)
(* Downwards.  Every try that reached its target has a stream of its own;  *)
(* item 0 is the acknowledgement, which the client engine takes out before *)
(* it puts its own answer to the application in its place.                 *)
(***************************************************************************)
Answer  == <<0, Ok>>
First   == IF front = "plain" THEN 1 ELSE 0
AtApp   == First + Len(gotDown)
AtRelay == AtApp + Len(down[A])

Base(i) ==
    IF i # served THEN (IF server[i] \in {"relay", "over"} THEN 0 ELSE 1)
    ELSE IF Established THEN AtRelay ELSE 1
Behind(i) == Base(i) + Len(down[T(i)])

DownTunnel(i) ==
    /\ Numbered(Answer, down[T(i)], Base(i))
    /\ Behind(i) <= sentDown[i] + 1
    /\ Intact(T(i)) =>
          /\ Numbered(Answer, down[X(i)], Behind(i))
          /\ Behind(i) + Len(down[X(i)]) <= sentDown[i] + 1
          /\ Intact(X(i)) => Behind(i) + Len(down[X(i)]) = sentDown[i] + 1

DownTry(i) ==
    IF far[X(i)] = "none" THEN sentDown[i] = 0 /\ down[X(i)] = <<>>
    ELSE (i = served /\ Established => Intact(A)) => DownTunnel(i)

DownFront ==
    /\ near[A] # "none"
    /\ client = "failed" => \/ gotDown = <<>> /\ down[A] \in {<<>>, <<Refused>>}
                            \/ gotDown = <<Refused>> /\ down[A] = <<>>
    /\ client # "failed" /\ ~Established => gotDown = <<>> /\ down[A] = <<>>
    /\ Established => /\ Numbered(Answer, gotDown, First)
                      /\ Numbered(Answer, down[A], AtApp)
                      /\ AtRelay <= sentDown[served] + 1

DownFlow == DownFront /\ \A i \in Tries : DownTry(i)

LEMMA DownNumbers ==
    ASSUME TypeOK
    PROVE  /\ First \in Nat /\ gotDown \in Seq(Msg) /\ Len(gotDown) \in Nat
           /\ AtApp \in Nat /\ AtRelay \in Nat
           /\ \A c \in Conn : down[c] \in Seq(Msg) /\ Len(down[c]) \in Nat
           /\ \A i \in Tries : sentDown[i] \in Nat /\ Base(i) \in Nat /\ Behind(i) \in Nat
<1>1. First \in Nat /\ gotDown \in Seq(Msg) /\ Len(gotDown) \in Nat
  BY LenProperties DEF First, TypeOK
<1>2. \A c \in Conn : down[c] \in Seq(Msg) /\ Len(down[c]) \in Nat
  BY LenProperties DEF TypeOK
<1>3. AtApp \in Nat
  BY <1>1 DEF AtApp
<1>4. AtRelay \in Nat
  BY <1>2, <1>3, Places DEF AtRelay
<1>5. ASSUME NEW i \in Tries
      PROVE  sentDown[i] \in Nat /\ Base(i) \in Nat /\ Behind(i) \in Nat
  <2>1. Base(i) \in Nat
    BY <1>4 DEF Base
  <2>2. Behind(i) \in Nat
    BY <1>2, <2>1, Places DEF Behind
  <2> QED
    BY <2>1, <2>2, TunnelAssumption DEF TypeOK
<1> QED
  BY <1>1, <1>2, <1>3, <1>4, <1>5

(* A try whose connections lose what is under way at most.                 *)
LEMMA DownTryShrinks ==
    ASSUME SetupInv, NEW i \in Tries, DownTry(i),
           sentDown'[i] = sentDown[i], ShrinksDown(X(i)),
           far'[X(i)] = "none" <=> far[X(i)] = "none",
           far[X(i)] # "none" =>
              \/ i = served' /\ Established' /\ ~Intact(A)'
              \/ /\ Base(i)' = Base(i) /\ ShrinksDown(T(i))
                 /\ i = served /\ Established => Intact(A)
    PROVE  DownTry(i)'
<1>1. CASE far[X(i)] = "none"
  BY <1>1 DEF DownTry, ShrinksDown
<1>2. CASE far[X(i)] # "none" /\ i = served' /\ Established' /\ ~Intact(A)'
  BY <1>2 DEF DownTry
<1>3. CASE /\ far[X(i)] # "none" /\ Base(i)' = Base(i) /\ ShrinksDown(T(i))
           /\ i = served /\ Established => Intact(A)
  <2>1. /\ Numbered(Answer, down[T(i)], Base(i)) /\ Behind(i) <= sentDown[i] + 1
        /\ Intact(T(i)) =>
              /\ Numbered(Answer, down[X(i)], Behind(i))
              /\ Behind(i) + Len(down[X(i)]) <= sentDown[i] + 1
              /\ Intact(X(i)) => Behind(i) + Len(down[X(i)]) = sentDown[i] + 1
    BY <1>3 DEF DownTry, DownTunnel
  <2>2. /\ sentDown[i] \in Nat /\ Base(i) \in Nat
        /\ Len(down[T(i)]) \in Nat /\ Len(down[X(i)]) \in Nat
    BY DownNumbers, Places DEF SetupInv
  <2>3. Numbered(Answer, down[T(i)], Base(i))'
    <3>1. CASE down'[T(i)] = down[T(i)]
      BY <1>3, <2>1, <3>1 DEF Numbered, ItemNr, Answer, Ok, Byte
    <3>2. CASE down'[T(i)] = <<>>
      BY <3>2, NumberedNone
    <3> QED
      BY <1>3, <3>1, <3>2 DEF ShrinksDown
  <2>4. Behind(i)' = Behind(i) \/ (Behind(i)' = Base(i) /\ ~Intact(T(i))')
    <3>1. down'[T(i)] = <<>> => Behind(i)' = Base(i)
      BY <1>3, <2>2, Emptied DEF Behind
    <3> QED
      BY <1>3, <3>1 DEF Behind, ShrinksDown
  <2>5. Behind(i)' <= sentDown'[i] + 1
    <3> DEFINE b == Base(i)
               l == Len(down[T(i)])
    <3>1. b \in Nat /\ l \in Nat /\ b + l <= sentDown[i] + 1
      BY <2>1, <2>2 DEF Behind
    <3>2. Behind(i)' = b + l \/ Behind(i)' = b
      BY <2>4 DEF Behind
    <3> HIDE DEF b, l
    <3> QED
      BY <2>2, <3>1, <3>2
  <2>6. ASSUME Intact(T(i))'
        PROVE  /\ Numbered(Answer, down[X(i)], Behind(i))'
               /\ Behind(i)' + Len(down'[X(i)]) <= sentDown'[i] + 1
               /\ Intact(X(i))' => Behind(i)' + Len(down'[X(i)]) = sentDown'[i] + 1
    <3>1. Intact(T(i)) /\ Behind(i)' = Behind(i)
      BY <1>3, <2>4, <2>6 DEF ShrinksDown
    <3>2. CASE down'[X(i)] = down[X(i)]
      <4>1. Numbered(Answer, down[X(i)], Behind(i))'
        BY <2>1, <3>1, <3>2 DEF Numbered, ItemNr, Answer, Ok, Byte
      <4> QED
        BY <2>1, <3>1, <3>2, <4>1 DEF ShrinksDown
    <3>3. CASE down'[X(i)] = <<>> /\ ~Intact(X(i))'
      <4>1. Behind(i) \in Nat
        BY DownNumbers DEF SetupInv
      <4> QED
        BY <2>5, <3>1, <3>3, <4>1, NumberedNone, Emptied
    <3> QED
      BY <3>2, <3>3 DEF ShrinksDown
  <2> QED
    BY <1>3, <2>3, <2>5, <2>6 DEF DownTry, DownTunnel
<1> QED
  BY <1>1, <1>2, <1>3

LEMMA DownFrontShrinks ==
    ASSUME SetupInv, DownFront, UNCHANGED <<front, head, gotDown>>, Established' <=> Established,
           client = "failed" => client' = "failed",
           down'[A] = down[A] \/ down'[A] = <<>>, near'[A] \in {near[A], "half", "closed"},
           Established => /\ served' = served
                          /\ sentDown'[served] \in {sentDown[served], sentDown[served] + 1}
    PROVE  DownFront'
<1>1. CASE ~Established
  <2>1. client' = "failed" =>
           \/ gotDown' = <<>> /\ down'[A] \in {<<>>, <<Refused>>}
           \/ gotDown' = <<Refused>> /\ down'[A] = <<>>
    BY <1>1 DEF DownFront
  <2>2. client' # "failed" => gotDown' = <<>> /\ down'[A] = <<>>
    BY <1>1 DEF DownFront
  <2> QED
    BY <1>1, <2>1, <2>2 DEF DownFront
<1>2. CASE Established
  <2>1. /\ First' = First /\ AtApp' = AtApp
        /\ AtRelay = AtApp + Len(down[A]) /\ AtRelay' = AtApp + Len(down'[A])
    BY DEF First, AtApp, AtRelay
  <2>2. /\ AtApp \in Nat /\ Len(down[A]) \in Nat
        /\ (Established => sentDown[served] \in Nat)
    BY DownNumbers, Places, EstablishedTry DEF SetupInv
  <2>3. /\ Numbered(Answer, gotDown, First) /\ Numbered(Answer, down[A], AtApp)
        /\ AtRelay <= sentDown[served] + 1
    BY <1>2 DEF DownFront
  <2>4. Numbered(Answer, gotDown, First)'
    BY <2>1, <2>3 DEF Numbered, ItemNr, Answer, Ok, Byte
  <2>5. Numbered(Answer, down[A], AtApp)'
    <3>1. CASE down'[A] = down[A]
      BY <2>1, <2>3, <3>1 DEF Numbered, ItemNr, Answer, Ok, Byte
    <3>2. CASE down'[A] = <<>>
      BY <3>2, NumberedNone
    <3> QED
      BY <3>1, <3>2
  <2>6. AtRelay' <= sentDown'[served] + 1
    <3> DEFINE a == AtApp
               l == Len(down[A])
    <3>1. a \in Nat /\ l \in Nat /\ a + l <= sentDown[served] + 1
      BY <2>1, <2>2, <2>3
    <3>2. AtRelay' = a + l \/ AtRelay' = a
      BY <2>1, <2>2, Emptied
    <3> HIDE DEF a, l
    <3> QED
      BY <1>2, <2>2, <3>1, <3>2
  <2>7. client' \in {"relay", "over"}
    BY <1>2 DEF Established
  <2> QED
    BY <1>2, <2>4, <2>5, <2>6, <2>7 DEF DownFront
<1> QED
  BY <1>1, <1>2

(* Steps that at most end connections.                                     *)
LEMMA DownOther ==
    ASSUME SetupInv, SetupInv', DownFlow,
           UNCHANGED <<front, head, served, gotDown, sentDown>>,
           Established' <=> Established, client = "failed" => client' = "failed",
           \A c \in Conn : ShrinksDown(c), near'[A] \in {near[A], "half", "closed"},
           \A i \in Tries : far'[X(i)] = "none" <=> far[X(i)] = "none",
           \A i \in Tries : far[X(i)] # "none" =>
              (server'[i] \in {"relay", "over"} <=> server[i] \in {"relay", "over"})
    PROVE  DownFlow'
<1>1. ShrinksDown(A)
  BY Places
<1>2. DownFront'
  BY <1>1, DownFrontShrinks DEF DownFlow, ShrinksDown
<1>3. ASSUME NEW i \in Tries
      PROVE  DownTry(i)'
  <2>1. ShrinksDown(T(i)) /\ ShrinksDown(X(i)) /\ DownTry(i) /\ sentDown'[i] = sentDown[i]
    BY Places DEF DownFlow
  <2>2. ASSUME far[X(i)] # "none"
        PROVE  \/ i = served' /\ Established' /\ ~Intact(A)'
               \/ /\ Base(i)' = Base(i) /\ ShrinksDown(T(i))
                  /\ i = served /\ Established => Intact(A)
    <3>1. CASE i = served /\ Established
      <4>1. CASE Intact(A)'
        <5>1. down'[A] = down[A] /\ Intact(A)
          BY <1>1, <4>1 DEF ShrinksDown
        <5>2. AtRelay' = AtRelay
          BY <5>1 DEF AtRelay, AtApp, First
        <5> QED
          BY <2>1, <3>1, <5>1, <5>2 DEF Base
      <4> QED
        BY <3>1, <4>1
    <3>2. CASE ~(i = served /\ Established)
      BY <2>1, <2>2, <3>2 DEF Base
    <3> QED
      BY <3>1, <3>2
  <2> QED
    BY <2>1, <2>2, DownTryShrinks
<1> QED
  BY <1>2, <1>3 DEF DownFlow

(* Steps on the two connections of one try.                                *)
LEMMA DownOne ==
    ASSUME SetupInv, SetupInv', DownFlow, NEW j \in Tries, DownTry(j)',
           UNCHANGED <<front, head, client, served, gotDown>>,
           \A c \in Conn : c \notin {T(j), X(j)} => SameAt(c),
           \A i \in Tries : i # j => server'[i] = server[i] /\ sentDown'[i] = sentDown[i],
           sentDown'[j] \in {sentDown[j], sentDown[j] + 1}
    PROVE  DownFlow'
<1>1. SameAt(A)
  BY Places
<1>2. DownFront'
  BY <1>1, DownFrontShrinks, EstablishedTry DEF DownFlow, SameAt, Established
<1>3. ASSUME NEW i \in Tries, i # j
      PROVE  DownTry(i)'
  <2>1. SameAt(T(i)) /\ SameAt(X(i)) /\ DownTry(i)
    BY <1>3, Places DEF DownFlow
  <2>2. ShrinksDown(T(i)) /\ ShrinksDown(X(i))
    BY <2>1, SameShrinks
  <2>3. AtRelay' = AtRelay /\ Intact(A)' = Intact(A)
    BY <1>1 DEF AtRelay, AtApp, First, SameAt, Intact
  <2>4. Base(i)' = Base(i)
    BY <1>3, <2>3 DEF Base, Established
  <2> QED
    BY <1>3, <2>1, <2>2, <2>3, <2>4, DownTryShrinks DEF Established, SameAt
<1> QED
  BY <1>2, <1>3 DEF DownFlow

LEMMA DownCloses ==
    ASSUME SetupInv, SetupInv', DownFlow,
           UNCHANGED <<front, head, served, gotDown, sentDown>>,
           Established' <=> Established, client = "failed" => client' = "failed",
           NEW N \in SUBSET Conn, NEW F \in SUBSET Conn, CloseEnds(N, F),
           \A i \in Tries : X(i) \in F => far[X(i)] # "none",
           \A i \in Tries : far[X(i)] # "none" =>
              (server'[i] \in {"relay", "over"} <=> server[i] \in {"relay", "over"})
    PROVE  DownFlow'
<1>1. \A c \in Conn : ShrinksDown(c)
  BY CloseShrinks DEF SetupInv
<1>2. /\ \A c \in Conn : far'[c] = IF c \in F THEN "closed" ELSE far[c]
      /\ \A c \in Conn : near'[c] = IF c \in N THEN "closed" ELSE near[c]
  BY CloseFacts DEF SetupInv
<1>3. /\ \A i \in Tries : far'[X(i)] = "none" <=> far[X(i)] = "none"
      /\ near'[A] \in {near[A], "half", "closed"}
  BY <1>2, Places
<1> QED
  BY <1>1, <1>3, DownOther

(* The client engine's steps, but for Reply and ClientCarry.               *)
LEMMA DownClient ==
    /\ SetupInv /\ SetupInv' /\ DownFlow
    /\ \/ Parse \/ ParseFails \/ DialFails \/ NotAcked \/ ReplyFails \/ ClientEnds \/ Collect
    => DownFlow'
<1> SUFFICES ASSUME SetupInv, SetupInv', DownFlow,
                    \/ Parse \/ ParseFails \/ DialFails \/ NotAcked \/ ReplyFails
                    \/ ClientEnds \/ Collect
             PROVE  DownFlow'
  OBVIOUS
<1>1. /\ TypeOK /\ {} \in SUBSET Conn /\ {A} \in SUBSET Conn
      /\ \A i \in Tries : X(i) # A /\ T(i) \in Conn /\ {T(i)} \in SUBSET Conn
  BY Places DEF SetupInv
<1>2. CASE Parse \/ DialFails
  <2>1. /\ UNCHANGED <<front, head, served, gotDown, sentDown, near, far, down, server>>
        /\ client \in {"parse", "select"} /\ client' = "select"
    BY <1>2 DEF Parse, ParseSocks, ParseHttp, TakeRequest, DialFails, wires, peers
  <2>2. \A c \in Conn : ShrinksDown(c)
    BY <2>1 DEF ShrinksDown, Intact
  <2> QED
    BY <2>1, <2>2, DownOther DEF Established
<1>3. CASE ParseFails
  <2>1. /\ UNCHANGED <<front, head, served, gotDown, sentDown, server>>
        /\ client = "parse" /\ client' = "failed" /\ CloseEnds({}, {A})
    BY <1>3 DEF ParseFails, peers
  <2> QED
    BY <1>1, <2>1, DownCloses DEF Established
<1>4. CASE NotAcked
  <2>1. PICK j \in Tries : j = try
    BY <1>1, <1>4, TunnelAssumption DEF NotAcked, SetupInv, ClientSide, TypeOK, Tries
  <2>2. /\ UNCHANGED <<front, head, served, gotDown, sentDown, server>>
        /\ client = "wait" /\ client' = "select" /\ CloseEnds({T(j)}, {})
    BY <1>4, <2>1 DEF NotAcked, peers
  <2> QED
    BY <1>1, <2>2, DownCloses DEF Established
<1>5. CASE ReplyFails
  <2>1. PICK j \in Tries : j = served
    BY <1>5, ServedFacts DEF ReplyFails
  <2>2. PICK N \in SUBSET Conn : CloseEnds(N, {A})
    BY <1>1, <1>5, <2>1 DEF ReplyFails
  <2>3. /\ UNCHANGED <<front, head, served, gotDown, sentDown, server>>
        /\ client = "reply" /\ client' = "failed"
    BY <1>5 DEF ReplyFails, peers
  <2> QED
    BY <1>1, <2>2, <2>3, DownCloses DEF Established
<1>6. CASE ClientEnds
  <2>1. PICK j \in Tries : j = served
    BY <1>6, ServedFacts DEF ClientEnds
  <2>2. /\ UNCHANGED <<front, head, served, gotDown, sentDown, server>>
        /\ client = "relay" /\ client' = "over" /\ CloseEnds({T(j)}, {A})
    BY <1>6, <2>1 DEF ClientEnds, CloseBoth, peers
  <2> QED
    BY <1>1, <2>2, DownCloses DEF Established
<1>7. CASE Collect
  <2>1. PICK j \in Tries : CloseEnds({T(j)}, {})
    BY <1>7 DEF Collect
  <2>2. UNCHANGED <<front, head, served, gotDown, sentDown, server, client>>
    BY <1>7 DEF Collect, peers
  <2> QED
    BY <1>1, <2>1, <2>2, DownCloses DEF Established
<1> QED
  BY <1>2, <1>3, <1>4, <1>5, <1>6, <1>7

LEMMA DownDial == SetupInv /\ SetupInv' /\ DownFlow /\ Dial => DownFlow'
<1> SUFFICES ASSUME SetupInv, SetupInv', DownFlow, Dial PROVE DownFlow'
  OBVIOUS
<1>1. TypeOK
  BY DEF SetupInv
<1>2. PICK j \in Tries : j = try + 1
  BY <1>1, TunnelAssumption DEF Dial, TypeOK, Tries
<1>3. /\ client = "select" /\ client' = "wait"
      /\ near' = [near EXCEPT ![T(j)] = "open"]
      /\ far' = [far EXCEPT ![T(j)] = "open"]
      /\ server' = [server EXCEPT ![j] = "header"]
      /\ UNCHANGED <<front, head, down, served, gotDown, sentDown>>
  BY <1>2 DEF Dial, peers
<1>4. far[X(j)] = "none"
  <2>1. server[j] = "none"
    BY <1>1, <1>2, TunnelAssumption DEF SetupInv, ServerSide, TypeOK
  <2> QED
    BY <2>1 DEF SetupInv, ServerSide
<1>5. DownFront'
  <2>1. near'[A] = near[A]
    BY <1>1, <1>3, Places DEF TypeOK
  <2> QED
    BY <1>3, <2>1, DownFrontShrinks DEF DownFlow, Established
<1>6. ASSUME NEW i \in Tries
      PROVE  DownTry(i)'
  <2>1. /\ far'[X(i)] = far[X(i)] /\ near'[X(i)] = near[X(i)]
        /\ i # j => /\ far'[T(i)] = far[T(i)] /\ near'[T(i)] = near[T(i)]
                    /\ server'[i] = server[i]
    BY <1>1, <1>3, Places DEF TypeOK
  <2>2. /\ ShrinksDown(X(i)) /\ (i # j => ShrinksDown(T(i)))
        /\ sentDown'[i] = sentDown[i] /\ DownTry(i)
    BY <1>3, <2>1 DEF ShrinksDown, Intact, DownFlow
  <2>3. i # j => Base(i)' = Base(i)
    BY <1>3, <2>1 DEF Base, Established
  <2> QED
    BY <1>3, <1>4, <2>1, <2>2, <2>3, DownTryShrinks DEF Established
<1> QED
  BY <1>5, <1>6 DEF DownFlow

LEMMA DownGiveUp == SetupInv /\ SetupInv' /\ DownFlow /\ GiveUp => DownFlow'
<1> SUFFICES ASSUME SetupInv, SetupInv', DownFlow, GiveUp PROVE DownFlow'
  OBVIOUS
<1>1. TypeOK /\ A \in Conn
  BY Places DEF SetupInv
<1>2. /\ client = "select" /\ client' = "failed"
      /\ far' = [far EXCEPT ![A] = "closed"]
      /\ down' \in {SendDown(down, A, Refused), down}
      /\ UNCHANGED <<front, head, near, served, server, gotDown, sentDown>>
  BY DEF GiveUp, peers
<1>3. /\ \A c \in Conn \ {A} : down'[c] = down[c] /\ far'[c] = far[c]
      /\ down'[A] \in {<<>>, <<Refused>>} /\ gotDown = <<>>
  <2>1. down \in [Conn -> Seq(Msg)] /\ Refused \in Msg
    BY <1>1, Messages DEF TypeOK
  <2>2. /\ \A d \in Conn \ {A} : SendDown(down, A, Refused)[d] = down[d]
        /\ SendDown(down, A, Refused)[A] = IF near[A] = "closed" THEN down[A]
                                           ELSE Append(down[A], Refused)
    BY <1>1, <2>1, SendDownFacts
  <2>3. down[A] = <<>> /\ gotDown = <<>>
    BY <1>2 DEF DownFlow, DownFront, Established
  <2>4. Append(down[A], Refused) = <<Refused>>
    BY <2>1, <2>3, OneMessage
  <2>5. \A c \in Conn \ {A} : far'[c] = far[c]
    BY <1>1, <1>2 DEF TypeOK
  <2> QED
    BY <1>2, <2>2, <2>3, <2>4, <2>5
<1>4. DownFront'
  BY <1>2, <1>3 DEF DownFlow, DownFront, Established
<1>5. ASSUME NEW i \in Tries
      PROVE  DownTry(i)'
  <2>1. ShrinksDown(T(i)) /\ ShrinksDown(X(i)) /\ far'[X(i)] = far[X(i)] /\ DownTry(i)
    BY <1>2, <1>3, Places DEF ShrinksDown, Intact, DownFlow
  <2>2. Base(i)' = Base(i)
    BY <1>2 DEF Base, Established
  <2> QED
    BY <1>2, <2>1, <2>2, DownTryShrinks DEF Established
<1> QED
  BY <1>4, <1>5 DEF DownFlow

(* The first item behind a tunnel moved, and nothing else.                 *)
LEMMA DownMoved ==
    ASSUME NEW j \in Tries, DownTunnel(j), Numbered(Answer, down[T(j)], Base(j))',
           Behind(j)' = Behind(j), UNCHANGED <<near, far>>, down'[X(j)] = down[X(j)],
           sentDown'[j] = sentDown[j]
    PROVE  DownTunnel(j)'
<1>1. /\ Intact(T(j))' = Intact(T(j)) /\ Intact(X(j))' = Intact(X(j))
  BY DEF Intact
<1>2. Behind(j)' <= sentDown'[j] + 1
  BY DEF DownTunnel
<1>3. Intact(T(j)) => Numbered(Answer, down[X(j)], Behind(j))'
  BY DEF DownTunnel, Numbered, ItemNr, Answer, Ok, Byte
<1>4. Intact(T(j)) => /\ Behind(j)' + Len(down'[X(j)]) <= sentDown'[j] + 1
                      /\ Intact(X(j)) => Behind(j)' + Len(down'[X(j)]) = sentDown'[j] + 1
  BY DEF DownTunnel
<1> QED
  BY <1>1, <1>2, <1>3, <1>4 DEF DownTunnel

LEMMA DownAcked == SetupInv /\ SetupInv' /\ DownFlow /\ Acked => DownFlow'
<1> SUFFICES ASSUME SetupInv, SetupInv', DownFlow, Acked PROVE DownFlow'
  OBVIOUS
<1>1. TypeOK /\ client = "wait" /\ served = 0 /\ A \in Conn
  BY Places DEF SetupInv, ClientSide, Acked
<1>2. PICK j \in Tries : j = try
  BY <1>1, TunnelAssumption DEF SetupInv, ClientSide, TypeOK, Tries
<1>3. /\ down[T(j)] # <<>> /\ Head(down[T(j)]) = Ok
      /\ down' = [down EXCEPT ![T(j)] = Tail(@)]
      /\ served' = j /\ client' = "reply" /\ j # 0
      /\ UNCHANGED <<front, head, near, far, server, gotDown, sentDown>>
  BY <1>2, TriesAreNat DEF Acked, peers
<1>4. /\ \A c \in Conn \ {T(j)} : down'[c] = down[c]
      /\ down'[T(j)] = Tail(down[T(j)]) /\ down[T(j)] \in Seq(Msg)
  BY <1>1, <1>3, Places DEF TypeOK
<1>5. DownFront'
  BY <1>1, <1>3, <1>4, Places, DownFrontShrinks DEF DownFlow, Established
<1>6. ASSUME NEW i \in Tries, i # j
      PROVE  DownTry(i)'
  <2>1. ShrinksDown(T(i)) /\ ShrinksDown(X(i)) /\ DownTry(i)
    BY <1>3, <1>4, <1>6, Places DEF ShrinksDown, Intact, DownFlow
  <2>2. Base(i)' = Base(i)
    BY <1>1, <1>3, <1>6, TriesAreNat DEF Base
  <2> QED
    BY <1>1, <1>3, <1>6, <2>1, <2>2, DownTryShrinks DEF Established
<1>7. DownTry(j)'
  <2>1. far[X(j)] # "none" /\ server[j] \in {"relay", "over"}
    <3>1. ServerSide(j) /\ down[T(j)] # <<Refused>>
      BY <1>3, Messages DEF SetupInv
    <3>2. server[j] \in {"none", "header", "dial", "ack", "relay", "over"}
      BY <1>1 DEF TypeOK
    <3> QED
      BY <1>3, <3>1, <3>2 DEF ServerSide
  <2>2. DownTunnel(j)
    BY <1>1, <1>3, <2>1 DEF DownFlow, DownTry
  <2>3. Base(j) = 0 /\ Base(j)' = 1
    BY <1>1, <1>3, <2>1 DEF Base, Established
  <2>4. /\ Numbered(Answer, Tail(down[T(j)]), 0 + 1) /\ Len(down[T(j)]) \in Nat \ {0}
        /\ Len(Tail(down[T(j)])) = Len(down[T(j)]) - 1
    <3>1. Numbered(Answer, down[T(j)], 0) /\ down[T(j)] \in Seq(Msg) /\ down[T(j)] # <<>>
      BY <1>1, <1>3, <2>2, <2>3, Places DEF DownTunnel, TypeOK
    <3> QED
      BY <3>1, NumberedTail
  <2>5. Behind(j)' = Behind(j)
    BY <1>4, <2>3, <2>4 DEF Behind
  <2>6. Numbered(Answer, down[T(j)], Base(j))'
    <3>1. 0 + 1 = 1
      OBVIOUS
    <3>2. Numbered(Answer, down'[T(j)], Base(j)')
      BY <1>4, <2>3, <2>4, <3>1
    <3> QED
      BY <3>2 DEF Numbered, ItemNr, Answer, Ok, Byte
  <2>7. DownTunnel(j)'
    BY <1>3, <1>4, <2>2, <2>5, <2>6, Places, DownMoved
  <2> QED
    BY <1>3, <2>1, <2>7 DEF DownTry
<1> QED
  BY <1>5, <1>6, <1>7 DEF DownFlow

LEMMA DownReply == SetupInv /\ SetupInv' /\ DownFlow /\ Reply => DownFlow'
<1> SUFFICES ASSUME SetupInv, SetupInv', DownFlow, Reply PROVE DownFlow'
  OBVIOUS
<1>1. PICK j \in Tries : j = served
  BY ServedFacts DEF Reply
<1>2. /\ client = "reply" /\ client' = "relay" /\ TypeOK /\ A \in Conn
      /\ UNCHANGED <<front, head, near, far, served, server, gotDown, sentDown>>
      /\ IF front = "plain" THEN down' = down ELSE down' = SendDown(down, A, Ok)
  BY Places DEF Reply, peers, SetupInv
<1>3. gotDown = <<>> /\ down[A] = <<>> /\ near[A] # "none" /\ far[X(j)] # "none"
  BY <1>1, <1>2, ServedFacts DEF DownFlow, DownFront, Established
<1>4. /\ \A c \in Conn \ {A} : down'[c] = down[c]
      /\ down'[A] = IF front = "plain" \/ near[A] = "closed" THEN <<>> ELSE <<Ok>>
  <2>1. down \in [Conn -> Seq(Msg)] /\ Ok \in Msg
    BY <1>2, Messages DEF TypeOK
  <2>2. /\ \A d \in Conn \ {A} : SendDown(down, A, Ok)[d] = down[d]
        /\ SendDown(down, A, Ok)[A] = IF near[A] = "closed" THEN down[A] ELSE Append(down[A], Ok)
    BY <1>2, <2>1, SendDownFacts
  <2>3. Append(down[A], Ok) = <<Ok>>
    BY <1>3, <2>1, OneMessage
  <2> QED
    BY <1>2, <1>3, <2>2, <2>3
<1>5. /\ Len(<<>>) = 0 /\ Len(<<Ok>>) = 1 /\ sentDown[j] \in Nat
  BY <1>2, DownNumbers, Emptied
<1>6. /\ AtApp' = IF front = "plain" THEN 1 ELSE 0
      /\ AtRelay' = IF front = "plain" \/ near[A] # "closed" THEN 1 ELSE 0
  BY <1>2, <1>3, <1>4, <1>5 DEF AtRelay, AtApp, First
<1>7. DownFront'
  <2>1. Numbered(Answer, gotDown, First)'
    BY <1>2, <1>3, NumberedNone
  <2>2. Numbered(Answer, down[A], AtApp)'
    <3>1. CASE down'[A] = <<>>
      BY <3>1, NumberedNone
    <3>2. CASE down'[A] = <<Ok>> /\ AtApp' = 0
      <4>1. \A k \in 1 .. 1 : <<Ok>>[k] = Ok /\ 0 + k - 1 = 0
        OBVIOUS
      <4>2. \A k \in 1 .. Len(down'[A]) : down'[A][k] = ItemNr(Answer, AtApp' + k - 1)
        BY <1>5, <3>2, <4>1 DEF ItemNr, Answer
      <4> QED
        BY <4>2 DEF Numbered, ItemNr, Answer, Ok, Byte
    <3> QED
      BY <1>4, <1>6, <3>1, <3>2
  <2>3. AtRelay' <= sentDown'[served'] + 1
    BY <1>1, <1>2, <1>5, <1>6
  <2> QED
    BY <1>2, <1>3, <2>1, <2>2, <2>3 DEF DownFront, Established
<1>8. ASSUME NEW i \in Tries, i # j
      PROVE  DownTry(i)'
  <2>1. ShrinksDown(T(i)) /\ ShrinksDown(X(i)) /\ DownTry(i)
    BY <1>2, <1>4, Places DEF ShrinksDown, Intact, DownFlow
  <2>2. Base(i)' = Base(i)
    BY <1>1, <1>2, <1>8 DEF Base
  <2> QED
    BY <1>1, <1>2, <1>8, <2>1, <2>2, DownTryShrinks
<1>9. DownTry(j)'
  <2>1. CASE ~Intact(A)'
    BY <1>1, <1>2, <1>3, <2>1 DEF DownTry, Established
  <2>2. CASE Intact(A)'
    <3>1. Base(j) = 1 /\ Base(j)' = 1
      BY <1>1, <1>2, <1>6, <2>2 DEF Base, Established, Intact
    <3>2. ShrinksDown(T(j)) /\ ShrinksDown(X(j)) /\ DownTry(j)
      BY <1>2, <1>4, Places DEF ShrinksDown, Intact, DownFlow
    <3> QED
      BY <1>2, <3>1, <3>2, DownTryShrinks DEF Established
  <2> QED
    BY <2>1, <2>2
<1> QED
  BY <1>7, <1>8, <1>9 DEF DownFlow

LEMMA DownClientCarry == SetupInv /\ SetupInv' /\ DownFlow /\ ClientCarry => DownFlow'
<1> SUFFICES ASSUME SetupInv, SetupInv', DownFlow, ClientCarry PROVE DownFlow'
  OBVIOUS
<1>1. PICK j \in Tries : j = served
  BY ServedFacts DEF ClientCarry
<1>2. /\ client = "relay" /\ client' = "relay" /\ Carry(A, T(j))
      /\ UNCHANGED <<front, head, served, server, gotDown, sentDown>>
      /\ TypeOK /\ A \in Conn /\ T(j) \in Conn /\ A # T(j)
  BY <1>1, Places DEF ClientCarry, peers, SetupInv
<1>3. /\ UNCHANGED <<near, far>>
      /\ \A c \in Conn \ {A, T(j)} : SameAt(c)
      /\ \/ down' = down
         \/ /\ down[T(j)] # <<>> /\ down'[T(j)] = Tail(down[T(j)])
            /\ down'[A] = IF near[A] = "closed" THEN down[A]
                          ELSE Append(down[A], Head(down[T(j)]))
  BY <1>2, CarryFacts
<1>4. far[A] = "open" /\ far[X(j)] # "none" /\ near[A] \in {"open", "half", "closed"}
  BY <1>1, <1>2, ServedFacts DEF TypeOK, EndState, DownFlow, DownFront
<1>5. CASE down' = down
  <2>1. \A c \in Conn : ShrinksDown(c)
    BY <1>3, <1>5 DEF ShrinksDown, Intact
  <2> QED
    BY <1>2, <1>3, <2>1, DownOther DEF Established
<1>6. CASE /\ down[T(j)] # <<>> /\ down'[T(j)] = Tail(down[T(j)])
           /\ down'[A] = IF near[A] = "closed" THEN down[A]
                         ELSE Append(down[A], Head(down[T(j)]))
  <2>1. ASSUME NEW i \in Tries, i # j
        PROVE  DownTry(i)'
    <3>1. ShrinksDown(T(i)) /\ ShrinksDown(X(i)) /\ DownTry(i)
      BY <1>3, <2>1, Places, SameShrinks DEF DownFlow
    <3>2. Base(i)' = Base(i)
      BY <1>1, <1>2, <2>1 DEF Base
    <3> QED
      BY <1>1, <1>2, <1>3, <2>1, <3>1, <3>2, DownTryShrinks
  <2>2. CASE near[A] = "closed"
    <3>1. DownFront'
      BY <1>1, <1>2, <1>3, <1>6, <2>2, DownFrontShrinks DEF DownFlow, Established
    <3>2. DownTry(j)'
      BY <1>1, <1>2, <1>3, <1>4, <2>2 DEF DownTry, Intact, Established
    <3> QED
      BY <2>1, <3>1, <3>2 DEF DownFlow
  <2>3. CASE near[A] # "closed"
    <3>1. DownTunnel(j) /\ Base(j) = AtRelay /\ Base(j)' = AtRelay'
      BY <1>1, <1>2, <1>4, <2>3 DEF DownFlow, DownTry, Intact, Base, Established
    <3>2. /\ Numbered(Answer, gotDown, First) /\ Numbered(Answer, down[A], AtApp)
          /\ First' = First /\ AtApp' = AtApp
      BY <1>2 DEF DownFlow, DownFront, Established, First, AtApp
    <3> DEFINE n == AtApp
               a == Len(down[A])
               b == Len(down[T(j)])
    <3>3. /\ n \in Nat /\ a \in Nat /\ b \in Nat /\ sentDown[j] \in Nat /\ n + a \in Nat
          /\ down[A] \in Seq(Msg) /\ down[T(j)] \in Seq(Msg) /\ AtRelay = n + a
      BY <1>2, DownNumbers DEF AtRelay
    <3>4. Numbered(Answer, down[T(j)], n + a) /\ (n + a) + b <= sentDown[j] + 1
      BY <3>1, <3>3 DEF DownTunnel, Behind
    <3>5. /\ Head(down[T(j)]) = ItemNr(Answer, n + a) /\ Head(down[T(j)]) \in Msg
          /\ Numbered(Answer, Tail(down[T(j)]), (n + a) + 1)
          /\ Len(Tail(down[T(j)])) = b - 1 /\ b # 0
      BY <1>6, <3>3, <3>4, NumberedTail
    <3>6. /\ Numbered(Answer, Append(down[A], Head(down[T(j)])), AtApp)
          /\ Len(Append(down[A], Head(down[T(j)]))) = Len(down[A]) + 1
      <4>1. /\ Numbered(Answer, down[A], AtApp) /\ AtApp \in Nat /\ down[A] \in Seq(Msg)
            /\ Head(down[T(j)]) = ItemNr(Answer, AtApp + Len(down[A])) /\ Head(down[T(j)]) \in Msg
        BY <3>2, <3>3, <3>5
      <4> QED
        BY <4>1, NumberedAppend
    <3>7. /\ down'[A] = Append(down[A], Head(down[T(j)])) /\ down'[T(j)] = Tail(down[T(j)])
          /\ AtRelay' = n + (a + 1) /\ Len(down'[T(j)]) = b - 1
      BY <1>6, <2>3, <3>2, <3>5, <3>6 DEF AtRelay
    <3>8. Behind(j)' = (n + (a + 1)) + (b - 1) /\ Behind(j) = (n + a) + b
      BY <3>1, <3>3, <3>7 DEF Behind
    <3>9. Numbered(Answer, down[A], AtApp)'
      BY <3>2, <3>6, <3>7 DEF Numbered, ItemNr, Answer, Ok, Byte
    <3> HIDE DEF n, a, b
    <3>10. /\ n + (a + 1) = (n + a) + 1 /\ n + (a + 1) <= sentDown[j] + 1
           /\ (n + (a + 1)) + (b - 1) = (n + a) + b
      BY <3>3, <3>4, <3>5
    <3>11. Numbered(Answer, down[T(j)], Base(j))'
      <4>1. Numbered(Answer, down'[T(j)], Base(j)')
        BY <3>1, <3>5, <3>7, <3>10
      <4> QED
        BY <4>1 DEF Numbered, ItemNr, Answer, Ok, Byte
    <3>12. DownTunnel(j)'
      <4>1. down'[X(j)] = down[X(j)]
        BY <1>3, Places DEF SameAt
      <4> QED
        BY <1>2, <1>3, <3>1, <3>8, <3>10, <3>11, <4>1, DownMoved
    <3>13. DownFront'
      <4>1. Numbered(Answer, gotDown, First)'
        BY <1>2, <3>2 DEF Numbered, ItemNr, Answer, Ok, Byte
      <4>2. AtRelay' <= sentDown'[served'] + 1
        BY <1>1, <1>2, <3>7, <3>10
      <4> QED
        BY <1>2, <1>3, <1>4, <3>9, <4>1, <4>2 DEF DownFront, Established
    <3>14. DownTry(j)'
      BY <1>2, <1>3, <1>4, <3>12 DEF DownTry
    <3> QED
      BY <2>1, <3>13, <3>14 DEF DownFlow
  <2> QED
    BY <2>2, <2>3
<1> QED
  BY <1>3, <1>5, <1>6

LEMMA DownAppReads == SetupInv /\ SetupInv' /\ DownFlow /\ AppReads => DownFlow'
<1> SUFFICES ASSUME SetupInv, SetupInv', DownFlow, AppReads PROVE DownFlow'
  OBVIOUS
<1>1. /\ near[A] # "closed" /\ down[A] # <<>>
      /\ gotDown' = Append(gotDown, Head(down[A]))
      /\ down' = [down EXCEPT ![A] = Tail(@)]
      /\ UNCHANGED <<front, head, near, far, client, served, server, sentDown>>
  BY DEF AppReads, engines
<1>2. TypeOK /\ A \in Conn /\ down[A] \in Seq(Msg)
  BY Places DEF SetupInv, TypeOK
<1>3. down'[A] = Tail(down[A]) /\ \A c \in Conn \ {A} : down'[c] = down[c]
  BY <1>1, <1>2 DEF TypeOK
<1>4. near[A] # "none" /\ (Established' <=> Established)
  BY <1>1 DEF DownFlow, DownFront, Established
<1> DEFINE n == First
           g == Len(gotDown)
           a == Len(down[A])
<1>5. /\ n \in Nat /\ g \in Nat /\ a \in Nat /\ gotDown \in Seq(Msg)
      /\ AtApp = n + g /\ n + g \in Nat /\ AtRelay = (n + g) + a /\ First' = n
  BY <1>1, <1>2, DownNumbers DEF AtApp, AtRelay, First
<1>6. /\ Head(down[A]) \in Msg /\ Len(Tail(down[A])) = a - 1 /\ a # 0
      /\ Len(Append(gotDown, Head(down[A]))) = g + 1
  BY <1>1, <1>2, <1>5, Taken, Added
<1>7. AtApp' = n + (g + 1) /\ AtRelay' = (n + (g + 1)) + (a - 1)
  BY <1>1, <1>3, <1>5, <1>6 DEF AtApp, AtRelay
<1>8. AtRelay' = AtRelay
  <2> HIDE DEF n, g, a
  <2>1. (n + (g + 1)) + (a - 1) = (n + g) + a
    BY <1>5, <1>6
  <2> QED
    BY <1>5, <1>7, <2>1
<1>9. DownFront'
  <2>1. CASE client = "failed"
    <3>1. gotDown = <<>> /\ down[A] = <<Refused>>
      BY <1>1, <2>1 DEF DownFlow, DownFront
    <3>2. Head(down[A]) = Refused /\ Tail(down[A]) = <<>>
      BY <3>1, OneMessage, Messages
    <3>3. gotDown' = <<Refused>> /\ down'[A] = <<>>
      BY <1>1, <1>3, <3>1, <3>2, OneMessage, Messages
    <3> QED
      BY <1>1, <1>4, <2>1, <3>3 DEF DownFront, Established
  <2>2. CASE client # "failed" /\ ~Established
    BY <1>1, <2>2 DEF DownFlow, DownFront
  <2>3. CASE Established
    <3>1. /\ Numbered(Answer, gotDown, First) /\ Numbered(Answer, down[A], n + g)
          /\ AtRelay <= sentDown[served] + 1
      BY <1>5, <2>3 DEF DownFlow, DownFront
    <3>2. /\ Head(down[A]) = ItemNr(Answer, n + g)
          /\ Numbered(Answer, Tail(down[A]), (n + g) + 1)
      BY <1>1, <1>2, <1>5, <3>1, NumberedTail
    <3>3. Numbered(Answer, Append(gotDown, Head(down[A])), First)
      <4>1. /\ Head(down[A]) = ItemNr(Answer, First + Len(gotDown)) /\ First \in Nat
            /\ gotDown \in Seq(Msg) /\ Head(down[A]) \in Msg
        BY <1>5, <1>6, <3>2
      <4> QED
        BY <3>1, <4>1, NumberedAppend
    <3>4. Numbered(Answer, gotDown, First)'
      BY <1>1, <1>5, <3>3 DEF Numbered, ItemNr, Answer, Ok, Byte
    <3>5. Numbered(Answer, down[A], AtApp)'
      <4>1. n + (g + 1) = (n + g) + 1
        <5> HIDE DEF n, g
        <5> QED
          BY <1>5
      <4>2. Numbered(Answer, down'[A], AtApp')
        BY <1>3, <1>7, <3>2, <4>1
      <4> QED
        BY <4>2 DEF Numbered, ItemNr, Answer, Ok, Byte
    <3>6. client' # "failed"
      BY <1>1, <2>3 DEF Established
    <3> QED
      BY <1>1, <1>4, <1>8, <2>3, <3>1, <3>4, <3>5, <3>6 DEF DownFront
  <2> QED
    BY <2>1, <2>2, <2>3
<1>10. ASSUME NEW i \in Tries
       PROVE  DownTry(i)'
  <2>1. /\ ShrinksDown(T(i)) /\ ShrinksDown(X(i)) /\ DownTry(i)
        /\ Intact(A)' = Intact(A)
    BY <1>1, <1>3, Places DEF ShrinksDown, Intact, DownFlow
  <2>2. Base(i)' = Base(i)
    BY <1>1, <1>4, <1>8 DEF Base
  <2> QED
    BY <1>1, <1>4, <2>1, <2>2, DownTryShrinks
<1> QED
  BY <1>9, <1>10 DEF DownFlow

(* What was opened stays opened, until it is closed; and an acknowledgement *)
(* was sent before it is taken.                                            *)
Opened(i) ==
    /\ server[i] # "none" => near[T(i)] # "none"
    /\ far[X(i)] # "none" => near[X(i)] # "none"
    /\ i = served => server[i] \in {"relay", "over"}

OpenInv == \A i \in Tries : Opened(i)

LEMMA OpenKeeps ==
    ASSUME NEW i \in Tries, Opened(i), near'[T(i)] \in {near[T(i)], "open", "closed"},
           near'[X(i)] \in {near[X(i)], "open", "closed"},
           server'[i] # "none" => server[i] # "none",
           far'[X(i)] # "none" => far[X(i)] # "none",
           i = served' => server'[i] \in {"relay", "over"}
    PROVE  Opened(i)'
BY DEF Opened

LEMMA OpenCloses ==
    ASSUME SetupInv, OpenInv, NEW N \in SUBSET Conn, NEW F \in SUBSET Conn, CloseEnds(N, F),
           served' = served, \A i \in Tries : X(i) \in F => far[X(i)] # "none",
           \A i \in Tries : /\ server'[i] # "none" => server[i] # "none"
                            /\ i = served => server'[i] \in {"relay", "over"}
    PROVE  OpenInv'
<1>1. /\ \A c \in Conn : far'[c] = IF c \in F THEN "closed" ELSE far[c]
      /\ \A c \in Conn : near'[c] = IF c \in N THEN "closed" ELSE near[c]
  BY CloseFacts DEF SetupInv
<1>2. ASSUME NEW i \in Tries
      PROVE  Opened(i)'
  BY <1>1, Places, OpenKeeps DEF OpenInv
<1> QED
  BY <1>2 DEF OpenInv

LEMMA OpenClient == SetupInv /\ OpenInv /\ (ClientNext \/ Collect) => OpenInv'
<1> SUFFICES ASSUME SetupInv, OpenInv, ClientNext \/ Collect PROVE OpenInv'
  OBVIOUS
<1>1. /\ TypeOK /\ {} \in SUBSET Conn /\ {A} \in SUBSET Conn
      /\ \A i \in Tries : X(i) # A /\ T(i) \in Conn /\ {T(i)} \in SUBSET Conn
  BY Places DEF SetupInv
<1>2. CASE Parse \/ DialFails \/ Reply \/ ClientCarry
  <2>1. UNCHANGED <<near, far, served, server>>
    BY <1>2 DEF Parse, ParseSocks, ParseHttp, TakeRequest, DialFails, Reply, ClientCarry,
                Carry, wires
  <2> QED
    BY <2>1 DEF OpenInv, Opened
<1>3. CASE ParseFails
  BY <1>1, <1>3, OpenCloses DEF ParseFails, OpenInv, Opened
<1>4. CASE NotAcked
  <2>1. PICK j \in Tries : j = try
    BY <1>1, <1>4, TunnelAssumption DEF NotAcked, SetupInv, ClientSide, TypeOK, Tries
  <2>2. UNCHANGED <<served, server>> /\ CloseEnds({T(j)}, {})
    BY <1>4, <2>1 DEF NotAcked
  <2> QED
    BY <1>1, <2>2, OpenCloses DEF OpenInv, Opened
<1>5. CASE ReplyFails
  <2>1. PICK j \in Tries : j = served
    BY <1>5, ServedFacts DEF ReplyFails
  <2>2. PICK N \in SUBSET Conn : CloseEnds(N, {A})
    BY <1>1, <1>5, <2>1 DEF ReplyFails
  <2>3. UNCHANGED <<served, server>>
    BY <1>5 DEF ReplyFails
  <2> QED
    BY <1>1, <2>2, <2>3, OpenCloses DEF OpenInv, Opened
<1>6. CASE ClientEnds
  <2>1. PICK j \in Tries : j = served
    BY <1>6, ServedFacts DEF ClientEnds
  <2>2. UNCHANGED <<served, server>> /\ CloseEnds({T(j)}, {A})
    BY <1>6, <2>1 DEF ClientEnds, CloseBoth
  <2> QED
    BY <1>1, <2>2, OpenCloses DEF OpenInv, Opened
<1>7. CASE Collect
  <2>1. PICK j \in Tries : CloseEnds({T(j)}, {})
    BY <1>7 DEF Collect
  <2>2. UNCHANGED <<served, server>>
    BY <1>7 DEF Collect
  <2> QED
    BY <1>1, <2>1, <2>2, OpenCloses DEF OpenInv, Opened
<1>8. CASE GiveUp
  <2>1. UNCHANGED <<near, served, server>> /\ far' = [far EXCEPT ![A] = "closed"]
    BY <1>8 DEF GiveUp
  <2>2. \A i \in Tries : far'[X(i)] = far[X(i)]
    BY <1>1, <2>1 DEF TypeOK
  <2> QED
    BY <2>1, <2>2 DEF OpenInv, Opened
<1>9. CASE Acked
  <2>1. PICK j \in Tries : j = try
    BY <1>1, <1>9, TunnelAssumption DEF Acked, SetupInv, ClientSide, TypeOK, Tries
  <2>2. /\ UNCHANGED <<near, far, server>> /\ served' = j
        /\ down[T(j)] # <<>>
    BY <1>9, <2>1 DEF Acked
  <2>3. server[j] \in {"relay", "over"}
    <3>1. server[j] \in {"none", "header", "dial", "ack", "relay", "over"}
      BY <1>1 DEF TypeOK
    <3> QED
      BY <2>2, <3>1 DEF SetupInv, ServerSide
  <2> QED
    BY <2>2, <2>3 DEF OpenInv, Opened
<1>10. CASE Dial
  <2>1. PICK j \in Tries : j = try + 1
    BY <1>1, <1>10, TunnelAssumption DEF Dial, TypeOK, Tries
  <2>2. /\ near' = [near EXCEPT ![T(j)] = "open"]
        /\ far' = [far EXCEPT ![T(j)] = "open"]
        /\ server' = [server EXCEPT ![j] = "header"]
        /\ served' = 0
    BY <1>10, <2>1 DEF Dial, SetupInv, ClientSide
  <2>3. ASSUME NEW i \in Tries
        PROVE  Opened(i)'
    <3>1. /\ far'[X(i)] = far[X(i)] /\ near'[X(i)] = near[X(i)] /\ i # served'
          /\ IF i = j THEN near'[T(i)] = "open"
                      ELSE near'[T(i)] = near[T(i)] /\ server'[i] = server[i]
      BY <1>1, <2>2, Places, TriesAreNat DEF TypeOK
    <3> QED
      BY <3>1 DEF Opened, OpenInv
  <2> QED
    BY <2>3 DEF OpenInv
<1> QED
  BY <1>2, <1>3, <1>4, <1>5, <1>6, <1>7, <1>8, <1>9, <1>10 DEF ClientNext

LEMMA OpenServer == ASSUME NEW j \in Tries PROVE SetupInv /\ OpenInv /\ ServerNext(j) => OpenInv'
<1> SUFFICES ASSUME SetupInv, OpenInv, ServerNext(j) PROVE OpenInv'
  OBVIOUS
<1>1. /\ TypeOK /\ {} \in SUBSET Conn /\ T(j) \in Conn /\ X(j) \in Conn
      /\ {T(j)} \in SUBSET Conn /\ {X(j)} \in SUBSET Conn
      /\ \A i \in Tries : X(i) # T(j)
  BY Places DEF SetupInv
<1>2. PICK to \in {"dial", "ack", "relay", "over"} : ServerGoes(j, to)
  BY DEF ServerNext, ReadHeader, ReadHeaderFails, DialTarget, DialTargetFails, Ack, AckFails,
         ServerCarry, ServerEnds
<1>3. served' = served /\ server'[j] = to /\ \A i \in Tries \ {j} : server'[i] = server[i]
  BY <1>1, <1>2 DEF ServerGoes, TypeOK
<1>4. server[j] # "none"
  BY DEF ServerNext, ReadHeader, ReadHeaderFails, DialTarget, DialTargetFails, Ack, AckFails,
         ServerCarry, ServerEnds
<1>5. j = served => to \in {"relay", "over"}
  <2> SUFFICES ASSUME j = served PROVE to \in {"relay", "over"}
    OBVIOUS
  <2>1. server[j] = "relay"
    BY DEF OpenInv, Opened, ServerNext, ReadHeader, ReadHeaderFails, DialTarget,
           DialTargetFails, Ack, AckFails, ServerCarry, ServerEnds
  <2>2. server'[j] \in {"relay", "over"}
    BY <1>1, <2>1 DEF ServerNext, ReadHeader, ReadHeaderFails, DialTarget,
           DialTargetFails, Ack, AckFails, ServerCarry, ServerEnds, ServerGoes, TypeOK
  <2> QED
    BY <1>3, <2>2
<1>6. \A i \in Tries : /\ server'[i] # "none" => server[i] # "none"
                       /\ i = served => server'[i] \in {"relay", "over"}
  BY <1>3, <1>4, <1>5 DEF OpenInv, Opened
<1>7. CASE ReadHeader(j) \/ Ack(j) \/ ServerCarry(j)
  <2>1. UNCHANGED <<near, far>>
    BY <1>7 DEF ReadHeader, Ack, ServerCarry, Carry
  <2> QED
    BY <1>3, <1>6, <2>1 DEF OpenInv, Opened
<1>8. CASE ReadHeaderFails(j)
  BY <1>1, <1>3, <1>6, <1>8, OpenCloses DEF ReadHeaderFails
<1>9. CASE AckFails(j) \/ ServerEnds(j)
  <2>1. CloseEnds({X(j)}, {T(j)})
    BY <1>9 DEF AckFails, ServerEnds, CloseBoth
  <2> QED
    BY <1>1, <1>3, <1>6, <2>1, OpenCloses
<1>10. CASE DialTargetFails(j)
  <2>1. near' = near /\ far' = [far EXCEPT ![T(j)] = "closed"]
    BY <1>10 DEF DialTargetFails
  <2>2. \A i \in Tries : far'[X(i)] = far[X(i)]
    BY <1>1, <2>1 DEF TypeOK
  <2> QED
    BY <1>3, <1>6, <2>1, <2>2 DEF OpenInv, Opened
<1>11. CASE DialTarget(j)
  <2>1. near' = [near EXCEPT ![X(j)] = "open"] /\ far' = [far EXCEPT ![X(j)] = "open"]
    BY <1>11 DEF DialTarget
  <2>2. ASSUME NEW i \in Tries
        PROVE  Opened(i)'
    <3>1. /\ near'[T(i)] = near[T(i)]
          /\ IF i = j THEN near'[X(i)] = "open"
                      ELSE near'[X(i)] = near[X(i)] /\ far'[X(i)] = far[X(i)]
      BY <1>1, <2>1, Places DEF TypeOK
    <3> QED
      BY <1>3, <1>6, <3>1 DEF OpenInv, Opened
  <2> QED
    BY <2>2 DEF OpenInv
<1> QED
  BY <1>7, <1>8, <1>9, <1>10, <1>11 DEF ServerNext

LEMMA OpenNext == SetupInv /\ OpenInv /\ [Next]_vars => OpenInv'
<1> SUFFICES ASSUME SetupInv, OpenInv, [Next]_vars PROVE OpenInv'
  OBVIOUS
<1>1. /\ TypeOK /\ {} \in SUBSET Conn /\ {A} \in SUBSET Conn
      /\ \A i \in Tries : X(i) # A /\ T(i) # A /\ {X(i)} \in SUBSET Conn
  BY Places DEF SetupInv
<1>2. CASE AppSends \/ AppReads \/ \E i \in Tries : TargetSends(i) \/ TargetReads(i)
  <2>1. UNCHANGED <<near, far, served, server>>
    BY <1>2 DEF AppSends, AppReads, TargetSends, TargetReads, engines
  <2> QED
    BY <2>1 DEF OpenInv, Opened
<1>3. CASE AppHalfCloses
  <2>1. UNCHANGED <<far, served, server>> /\ near' = [near EXCEPT ![A] = "half"]
    BY <1>3 DEF AppHalfCloses, engines
  <2>2. \A i \in Tries : near'[T(i)] = near[T(i)] /\ near'[X(i)] = near[X(i)]
    BY <1>1, <2>1 DEF TypeOK
  <2> QED
    BY <2>1, <2>2 DEF OpenInv, Opened
<1>4. CASE AppCloses
  BY <1>1, <1>4, OpenCloses DEF AppCloses, OpenInv, Opened
<1>5. ASSUME NEW i \in Tries, TargetCloses(i) PROVE OpenInv'
  <2>1. \A j \in Tries : X(j) \in {X(i)} => far[X(j)] # "none"
    BY <1>5, Places DEF TargetCloses
  <2> QED
    BY <1>1, <1>5, <2>1, OpenCloses DEF TargetCloses, OpenInv, Opened
<1>6. CASE UNCHANGED vars
  BY <1>6 DEF vars, wires, engines, OpenInv, Opened
<1> QED
  BY <1>2, <1>3, <1>4, <1>5, <1>6, OpenClient, OpenServer DEF Next

LEMMA OpenAlways == Spec => []OpenInv
<1>1. Init => OpenInv
  BY Places, TriesAreNat DEF Init, OpenInv, Opened
<1> QED
  BY <1>1, OpenNext, SetupAlways, PTL DEF Spec

(* The server engines' steps, and the targets'.                            *)
LEMMA DownDialTarget ==
    ASSUME NEW j \in Tries
    PROVE  SetupInv /\ SetupInv' /\ DownFlow /\ (DialTarget(j) \/ DialTargetFails(j)) => DownFlow'
<1> SUFFICES ASSUME SetupInv, SetupInv', DownFlow, DialTarget(j) \/ DialTargetFails(j)
             PROVE  DownFlow'
  OBVIOUS
<1>1. /\ TypeOK /\ T(j) \in Conn /\ X(j) \in Conn /\ T(j) # X(j) /\ ServerSide(j)
      /\ server[j] = "dial"
      /\ UNCHANGED <<front, head, client, served, gotDown, sentDown>>
  BY Places DEF SetupInv, DialTarget, DialTargetFails, ServerGoes, peers
<1>2. /\ far[X(j)] = "none" /\ down[T(j)] = <<>> /\ sentDown[j] = 0 /\ down[X(j)] = <<>>
      /\ j # served
  <2>1. far[X(j)] = "none" /\ down[T(j)] = <<>>
    BY <1>1 DEF ServerSide
  <2> QED
    BY <2>1, TriesAreNat DEF DownFlow, DownTry, SetupInv, ServedIsConnected
<1>3. \A i \in Tries : i # j => server'[i] = server[i]
  BY <1>1 DEF DialTarget, DialTargetFails, ServerGoes, TypeOK
<1>4. CASE DialTarget(j)
  <2>1. /\ near' = [near EXCEPT ![X(j)] = "open"] /\ far' = [far EXCEPT ![X(j)] = "open"]
        /\ server' = [server EXCEPT ![j] = "ack"] /\ UNCHANGED <<up, down, armed>>
    BY <1>4 DEF DialTarget, ServerGoes
  <2>2. \A c \in Conn : c \notin {T(j), X(j)} => SameAt(c)
    BY <1>1, <2>1 DEF SameAt, TypeOK
  <2>3. far'[X(j)] = "open" /\ Base(j)' = 1
    BY <1>1, <1>2, <2>1 DEF Base, TypeOK
  <2>4. Behind(j)' = 1
    BY <1>2, <2>1, <2>3, Emptied DEF Behind
  <2>5. DownTry(j)'
    BY <1>1, <1>2, <2>1, <2>3, <2>4, NumberedNone, Emptied DEF DownTry, DownTunnel
  <2> QED
    BY <1>1, <1>3, <2>2, <2>5, DownOne
<1>5. CASE DialTargetFails(j)
  <2>1. /\ near' = near /\ far' = [far EXCEPT ![T(j)] = "closed"]
        /\ up' = [up EXCEPT ![T(j)] = <<>>] /\ down' = SendDown(down, T(j), Refused)
        /\ armed' = armed \ {FarEnd(T(j))}
    BY <1>5 DEF DialTargetFails
  <2>2. \A c \in Conn \ {T(j)} : down'[c] = down[c]
    <3>1. down \in [Conn -> Seq(Msg)] /\ Refused \in Msg
      BY <1>1, Messages DEF TypeOK
    <3>2. \A c \in Conn \ {T(j)} : SendDown(down, T(j), Refused)[c] = down[c]
      BY <1>1, <3>1, SendDownFacts
    <3> QED
      BY <2>1, <3>2
  <2>3. \A c \in Conn : c \notin {T(j), X(j)} => SameAt(c)
    BY <1>1, <2>1, <2>2, Ends DEF SameAt, TypeOK
  <2>4. far'[X(j)] = "none" /\ down'[X(j)] = <<>>
    BY <1>1, <1>2, <2>1, <2>2 DEF TypeOK
  <2>5. DownTry(j)'
    BY <1>1, <1>2, <2>4 DEF DownTry
  <2> QED
    BY <1>1, <1>3, <2>3, <2>5, DownOne
<1> QED
  BY <1>4, <1>5

LEMMA DownAck ==
    ASSUME NEW j \in Tries
    PROVE  SetupInv /\ SetupInv' /\ OpenInv /\ DownFlow /\ (Ack(j) \/ AckFails(j)) => DownFlow'
<1> SUFFICES ASSUME SetupInv, SetupInv', OpenInv, DownFlow, Ack(j) \/ AckFails(j)
             PROVE  DownFlow'
  OBVIOUS
<1>1. /\ TypeOK /\ T(j) \in Conn /\ X(j) \in Conn /\ T(j) # X(j) /\ ServerSide(j)
      /\ {T(j)} \in SUBSET Conn /\ {X(j)} \in SUBSET Conn
      /\ server[j] = "ack" /\ j # served
      /\ UNCHANGED <<front, head, client, served, gotDown, sentDown>>
  BY Places DEF SetupInv, Ack, AckFails, ServerGoes, peers, OpenInv, Opened
<1>2. far[X(j)] # "none" /\ down[T(j)] = <<>> /\ DownTunnel(j) /\ Base(j) = 1 /\ Base(j)' = 0
  <2>1. far[X(j)] # "none" /\ down[T(j)] = <<>>
    BY <1>1 DEF ServerSide
  <2>2. server'[j] \in {"relay", "over"}
    BY <1>1 DEF Ack, AckFails, ServerGoes, TypeOK
  <2> QED
    BY <1>1, <2>1, <2>2 DEF DownFlow, DownTry, Base
<1>3. \A i \in Tries : i # j => server'[i] = server[i]
  BY <1>1 DEF Ack, AckFails, ServerGoes, TypeOK
<1>4. sentDown[j] \in Nat /\ Len(<<>>) = 0 /\ Len(<<Ok>>) = 1
  BY <1>1, DownNumbers, Emptied
<1>5. ASSUME down'[T(j)] = <<>>, ~Intact(T(j))', far'[X(j)] # "none" PROVE DownTry(j)'
  <2>1. Behind(j)' = 0
    BY <1>2, <1>4, <1>5 DEF Behind
  <2> QED
    BY <1>1, <1>4, <1>5, <2>1, NumberedNone DEF DownTry, DownTunnel
<1>6. CASE AckFails(j)
  <2>1. CloseEnds({X(j)}, {T(j)})
    BY <1>6 DEF AckFails
  <2>2. /\ \A c \in Conn : c \notin {T(j), X(j)} => SameAt(c)
        /\ far'[T(j)] = "closed" /\ far'[X(j)] = far[X(j)]
        /\ down'[T(j)] = <<>>
    <3>1. /\ \A c \in Conn : far'[c] = IF c \in {T(j)} THEN "closed" ELSE far[c]
          /\ \A c \in Conn : down'[c] = down[c] \/ down'[c] = <<>>
          /\ \A c \in Conn : c \notin {X(j)} /\ c \notin {T(j)} => SameAt(c)
      BY <1>1, <2>1, CloseFacts
    <3> QED
      BY <1>1, <1>2, <3>1
  <2>3. DownTry(j)'
    BY <1>2, <1>5, <2>2 DEF Intact
  <2> QED
    BY <1>1, <1>3, <2>2, <2>3, DownOne
<1>7. CASE Ack(j)
  <2>1. /\ UNCHANGED <<near, far, up>> /\ down' = SendDown(down, T(j), Ok)
        /\ armed' = armed \ {FarEnd(T(j))}
    BY <1>7 DEF Ack
  <2>2. /\ \A c \in Conn \ {T(j)} : down'[c] = down[c]
        /\ down'[T(j)] = IF near[T(j)] = "closed" THEN <<>> ELSE <<Ok>>
    <3>1. down \in [Conn -> Seq(Msg)] /\ Ok \in Msg
      BY <1>1, Messages DEF TypeOK
    <3>2. /\ \A c \in Conn \ {T(j)} : SendDown(down, T(j), Ok)[c] = down[c]
          /\ SendDown(down, T(j), Ok)[T(j)] = IF near[T(j)] = "closed" THEN down[T(j)]
                                              ELSE Append(down[T(j)], Ok)
      BY <1>1, <3>1, SendDownFacts
    <3>3. Append(down[T(j)], Ok) = <<Ok>>
      BY <1>2, <3>1, OneMessage
    <3> QED
      BY <1>2, <2>1, <3>2, <3>3
  <2>3. \A c \in Conn : c \notin {T(j), X(j)} => SameAt(c)
    BY <1>1, <2>1, <2>2, Ends DEF SameAt, TypeOK
  <2>4. DownTry(j)'
    <3>1. CASE near[T(j)] = "closed"
      BY <1>2, <1>5, <2>1, <2>2, <3>1 DEF Intact
    <3>2. CASE near[T(j)] # "closed"
      <4>1. Behind(j)' = Behind(j)
        BY <1>2, <1>4, <2>2, <3>2 DEF Behind
      <4>2. Numbered(Answer, down[T(j)], Base(j))'
        <5>1. \A k \in 1 .. 1 : <<Ok>>[k] = Ok /\ 0 + k - 1 = 0
          OBVIOUS
        <5>2. \A k \in 1 .. Len(down'[T(j)]) : down'[T(j)][k] = ItemNr(Answer, Base(j)' + k - 1)
          BY <1>2, <1>4, <2>2, <3>2, <5>1 DEF ItemNr, Answer
        <5> QED
          BY <5>2 DEF Numbered, ItemNr, Answer, Ok, Byte
      <4>3. DownTunnel(j)'
        BY <1>1, <1>2, <2>1, <2>2, <4>1, <4>2, DownMoved
      <4> QED
        BY <1>2, <2>1, <4>3 DEF DownTry
    <3> QED
      BY <3>1, <3>2
  <2> QED
    BY <1>1, <1>3, <2>3, <2>4, DownOne
<1> QED
  BY <1>6, <1>7

LEMMA DownServerCarry ==
    ASSUME NEW j \in Tries
    PROVE  SetupInv /\ SetupInv' /\ OpenInv /\ DownFlow /\ ServerCarry(j) => DownFlow'
<1> SUFFICES ASSUME SetupInv, SetupInv', OpenInv, DownFlow, ServerCarry(j) PROVE DownFlow'
  OBVIOUS
<1>1. /\ TypeOK /\ T(j) \in Conn /\ X(j) \in Conn /\ T(j) # X(j) /\ ServerSide(j)
      /\ server[j] = "relay" /\ Carry(T(j), X(j))
      /\ UNCHANGED <<front, head, client, served, server, gotDown, sentDown>>
  BY Places DEF SetupInv, ServerCarry, ServerGoes, peers, TypeOK
<1>2. /\ UNCHANGED <<near, far>>
      /\ \A c \in Conn : c \notin {T(j), X(j)} => SameAt(c)
      /\ \/ down' = down
         \/ /\ down[X(j)] # <<>> /\ down'[X(j)] = Tail(down[X(j)])
            /\ down'[T(j)] = IF near[T(j)] = "closed" THEN down[T(j)]
                             ELSE Append(down[T(j)], Head(down[X(j)]))
  BY <1>1, CarryFacts
<1>3. /\ far[X(j)] # "none" /\ far[T(j)] = "open" /\ near[T(j)] \in {"open", "closed"}
  BY <1>1 DEF ServerSide, OpenInv, Opened, TypeOK, EndState
<1>4. /\ Base(j)' = Base(j) /\ Intact(A)' = Intact(A)
      /\ Intact(T(j))' = Intact(T(j)) /\ Intact(X(j))' = Intact(X(j))
      /\ (Established' <=> Established) /\ served' = served
  <2>1. SameAt(A)
    BY <1>2, Places
  <2> QED
    BY <1>1, <1>2, <2>1 DEF Base, AtRelay, AtApp, First, SameAt, Established, Intact
<1>5. DownTunnel(j) => DownTunnel(j)'
  <2> SUFFICES ASSUME DownTunnel(j) PROVE DownTunnel(j)'
    OBVIOUS
  <2>1. CASE down' = down
    <3>1. Behind(j)' = Behind(j)
      BY <1>4, <2>1 DEF Behind
    <3>2. Numbered(Answer, down[T(j)], Base(j))'
      BY <1>4, <2>1 DEF DownTunnel, Numbered, ItemNr, Answer, Ok, Byte
    <3> QED
      BY <1>1, <1>2, <2>1, <3>1, <3>2, DownMoved
  <2>2. CASE /\ down[X(j)] # <<>> /\ down'[X(j)] = Tail(down[X(j)])
             /\ down'[T(j)] = IF near[T(j)] = "closed" THEN down[T(j)]
                              ELSE Append(down[T(j)], Head(down[X(j)]))
    <3>1. CASE near[T(j)] = "closed"
      <4>1. Behind(j)' = Behind(j)
        BY <1>4, <2>2, <3>1 DEF Behind
      <4>2. Numbered(Answer, down[T(j)], Base(j))'
        BY <1>4, <2>2, <3>1 DEF DownTunnel, Numbered, ItemNr, Answer, Ok, Byte
      <4>3. Behind(j)' <= sentDown'[j] + 1
        BY <1>1, <4>1 DEF DownTunnel
      <4> QED
        BY <1>4, <3>1, <4>2, <4>3 DEF DownTunnel, Intact
    <3>2. CASE near[T(j)] # "closed"
      <4> DEFINE n == Base(j)
                 b == Len(down[T(j)])
                 c == Len(down[X(j)])
                 d == sentDown[j]
      <4>1. /\ n \in Nat /\ b \in Nat /\ c \in Nat /\ d \in Nat /\ n + b \in Nat
            /\ down[T(j)] \in Seq(Msg) /\ down[X(j)] \in Seq(Msg)
        BY <1>1, DownNumbers
      <4>2. /\ Numbered(Answer, down[T(j)], n) /\ Numbered(Answer, down[X(j)], n + b)
            /\ n + b <= d + 1 /\ (n + b) + c <= d + 1
            /\ Intact(X(j)) => (n + b) + c = d + 1
        BY <1>3, <3>2 DEF DownTunnel, Behind, Intact
      <4>3. /\ Head(down[X(j)]) = ItemNr(Answer, n + b) /\ Head(down[X(j)]) \in Msg
            /\ Numbered(Answer, Tail(down[X(j)]), (n + b) + 1)
            /\ Len(Tail(down[X(j)])) = c - 1 /\ c # 0
        BY <2>2, <4>1, <4>2, NumberedTail
      <4>4. /\ Numbered(Answer, Append(down[T(j)], Head(down[X(j)])), Base(j))
            /\ Len(Append(down[T(j)], Head(down[X(j)]))) = Len(down[T(j)]) + 1
        <5>1. /\ Numbered(Answer, down[T(j)], Base(j)) /\ Base(j) \in Nat
              /\ Head(down[X(j)]) = ItemNr(Answer, Base(j) + Len(down[T(j)]))
              /\ Head(down[X(j)]) \in Msg /\ down[T(j)] \in Seq(Msg)
          BY <4>1, <4>2, <4>3
        <5> QED
          BY <5>1, NumberedAppend
      <4>5. /\ down'[T(j)] = Append(down[T(j)], Head(down[X(j)]))
            /\ down'[X(j)] = Tail(down[X(j)])
            /\ Len(down'[T(j)]) = b + 1 /\ Len(down'[X(j)]) = c - 1
        BY <2>2, <3>2, <4>3, <4>4
      <4>6. Behind(j)' = n + (b + 1)
        BY <1>4, <4>5 DEF Behind
      <4>7. Numbered(Answer, down[T(j)], Base(j))'
        BY <1>4, <4>4, <4>5 DEF Numbered, ItemNr, Answer, Ok, Byte
      <4>8. sentDown'[j] = d
        BY <1>1
      <4> HIDE DEF n, b, c, d
      <4>9. /\ n + (b + 1) = (n + b) + 1 /\ n + (b + 1) <= d + 1
            /\ (n + (b + 1)) + (c - 1) = (n + b) + c
        BY <4>1, <4>2, <4>3
      <4>10. Numbered(Answer, down[X(j)], Behind(j))'
        <5>1. Numbered(Answer, down'[X(j)], Behind(j)')
          BY <4>3, <4>5, <4>6, <4>9
        <5> QED
          BY <5>1 DEF Numbered, ItemNr, Answer, Ok, Byte
      <4>11. /\ Behind(j)' <= sentDown'[j] + 1
             /\ Behind(j)' + Len(down'[X(j)]) <= sentDown'[j] + 1
             /\ Intact(X(j)) => Behind(j)' + Len(down'[X(j)]) = sentDown'[j] + 1
        BY <4>2, <4>5, <4>6, <4>8, <4>9
      <4> QED
        BY <1>4, <4>7, <4>10, <4>11 DEF DownTunnel
    <3> QED
      BY <3>1, <3>2
  <2> QED
    BY <1>2, <2>1, <2>2
<1>6. DownTry(j)'
  BY <1>2, <1>3, <1>4, <1>5 DEF DownFlow, DownTry
<1> QED
  BY <1>1, <1>2, <1>6, DownOne

LEMMA DownTargetSends ==
    ASSUME NEW j \in Tries
    PROVE  SetupInv /\ SetupInv' /\ OpenInv /\ DownFlow /\ TargetSends(j) => DownFlow'
<1> SUFFICES ASSUME SetupInv, SetupInv', OpenInv, DownFlow, TargetSends(j) PROVE DownFlow'
  OBVIOUS
<1>1. /\ TypeOK /\ T(j) \in Conn /\ X(j) \in Conn /\ T(j) # X(j) /\ ServerSide(j)
      /\ far[X(j)] = "open" /\ sentDown' = [sentDown EXCEPT ![j] = @ + 1]
      /\ down' = SendDown(down, X(j), Byte(sentDown[j] + 1))
      /\ UNCHANGED <<front, head, near, far, up, armed, client, served, server, gotDown>>
  BY Places DEF SetupInv, TargetSends, engines
<1>2. /\ sentDown[j] \in Nat /\ sentDown'[j] = sentDown[j] + 1
      /\ \A i \in Tries : i # j => sentDown'[i] = sentDown[i]
      /\ Byte(sentDown[j] + 1) \in Msg
  <2>1. sentDown[j] \in Nat
    BY <1>1, DownNumbers
  <2>2. sentDown[j] + 1 \in Nat
    BY <2>1
  <2> QED
    BY <1>1, <2>1, <2>2, Messages DEF TypeOK
<1>3. /\ \A c \in Conn \ {X(j)} : down'[c] = down[c]
      /\ down'[X(j)] = IF near[X(j)] = "closed" THEN down[X(j)]
                       ELSE Append(down[X(j)], Byte(sentDown[j] + 1))
  <2>1. down \in [Conn -> Seq(Msg)]
    BY <1>1 DEF TypeOK
  <2> DEFINE w == SendDown(down, X(j), Byte(sentDown[j] + 1))
  <2>2. /\ \A c \in Conn \ {X(j)} : w[c] = down[c]
        /\ w[X(j)] = IF near[X(j)] = "closed" THEN down[X(j)]
                     ELSE Append(down[X(j)], Byte(sentDown[j] + 1))
    BY <1>1, <1>2, <2>1, SendDownFacts
  <2> QED
    BY <1>1, <2>2
<1>4. \A c \in Conn : c \notin {T(j), X(j)} => SameAt(c)
  BY <1>1, <1>3 DEF SameAt
<1>5. /\ Base(j)' = Base(j) /\ Behind(j)' = Behind(j) /\ Intact(A)' = Intact(A)
      /\ Intact(T(j))' = Intact(T(j)) /\ Intact(X(j))' = Intact(X(j))
      /\ down'[T(j)] = down[T(j)] /\ (Established' <=> Established)
  <2>1. down'[A] = down[A] /\ down'[T(j)] = down[T(j)]
    BY <1>1, <1>3, Places
  <2>2. Base(j)' = Base(j)
    BY <1>1, <2>1 DEF Base, AtRelay, AtApp, First, Established
  <2> QED
    BY <1>1, <2>1, <2>2 DEF Behind, Intact, Established
<1>6. DownTunnel(j) => DownTunnel(j)'
  <2> SUFFICES ASSUME DownTunnel(j) PROVE DownTunnel(j)'
    OBVIOUS
  <2> DEFINE n == Behind(j)
             c == Len(down[X(j)])
             d == sentDown[j]
  <2>1. n \in Nat /\ c \in Nat /\ d \in Nat /\ down[X(j)] \in Seq(Msg)
    BY <1>1, DownNumbers
  <2>2. /\ n <= d + 1
        /\ Intact(T(j)) => /\ Numbered(Answer, down[X(j)], n) /\ n + c <= d + 1
                           /\ Intact(X(j)) => n + c = d + 1
    BY DEF DownTunnel
  <2>3. Numbered(Answer, down[T(j)], Base(j))'
    BY <1>5 DEF DownTunnel, Numbered, ItemNr, Answer, Ok, Byte
  <2>4. Behind(j)' <= sentDown'[j] + 1
    <3>1. Behind(j)' = n /\ sentDown'[j] = d + 1
      BY <1>2, <1>5
    <3> HIDE DEF n, d
    <3> QED
      BY <2>1, <2>2, <3>1
  <2>5. ASSUME Intact(T(j))
        PROVE  /\ Numbered(Answer, down[X(j)], Behind(j))'
               /\ Behind(j)' + Len(down'[X(j)]) <= sentDown'[j] + 1
               /\ Intact(X(j)) => Behind(j)' + Len(down'[X(j)]) = sentDown'[j] + 1
    <3>1. CASE near[X(j)] = "closed"
      <4>1. Numbered(Answer, down[X(j)], Behind(j))'
        BY <1>3, <1>5, <2>2, <2>5, <3>1 DEF Numbered, ItemNr, Answer, Ok, Byte
      <4>2. Behind(j)' + Len(down'[X(j)]) = n + c /\ sentDown'[j] = d + 1
        BY <1>2, <1>3, <1>5, <3>1
      <4>3. n + c <= d + 1 /\ ~Intact(X(j))
        BY <2>2, <2>5, <3>1 DEF Intact
      <4> HIDE DEF n, c, d
      <4>4. n + c <= (d + 1) + 1
        BY <2>1, <4>3
      <4> QED
        BY <4>1, <4>2, <4>3, <4>4
    <3>2. CASE near[X(j)] # "closed"
      <4>1. Intact(X(j))
        BY <1>1, <3>2 DEF OpenInv, Opened, Intact, TypeOK, EndState
      <4>2. n + c = d + 1 /\ Numbered(Answer, down[X(j)], n) /\ sentDown'[j] = d + 1
        BY <1>2, <2>2, <2>5, <4>1
      <4>3. Byte(d + 1) = ItemNr(Answer, n + c)
        <5>1. n + c # 0
          <6> HIDE DEF n, c, d
          <6> QED
            BY <2>1, <4>2
        <5> QED
          BY <4>2, <5>1 DEF ItemNr, Answer
      <4>4. /\ Numbered(Answer, Append(down[X(j)], Byte(sentDown[j] + 1)), Behind(j))
            /\ Len(Append(down[X(j)], Byte(sentDown[j] + 1))) = c + 1
        <5>1. /\ Numbered(Answer, down[X(j)], Behind(j)) /\ Behind(j) \in Nat
              /\ Byte(sentDown[j] + 1) = ItemNr(Answer, Behind(j) + Len(down[X(j)]))
          BY <2>1, <4>2, <4>3
        <5> QED
          BY <1>2, <2>1, <5>1, NumberedAppend
      <4>5. down'[X(j)] = Append(down[X(j)], Byte(sentDown[j] + 1))
        BY <1>3, <3>2
      <4>6. Numbered(Answer, down[X(j)], Behind(j))'
        BY <1>5, <4>4, <4>5 DEF Numbered, ItemNr, Answer, Ok, Byte
      <4>7. Behind(j)' + Len(down'[X(j)]) = n + (c + 1)
        BY <1>5, <4>4, <4>5
      <4> HIDE DEF n, c, d
      <4>8. n + (c + 1) = (d + 1) + 1
        BY <2>1, <4>2
      <4>9. n + (c + 1) <= (d + 1) + 1
        BY <2>1, <4>8
      <4> QED
        BY <4>2, <4>6, <4>7, <4>8, <4>9
    <3> QED
      BY <3>1, <3>2
  <2> QED
    BY <1>5, <2>3, <2>4, <2>5 DEF DownTunnel
<1>7. DownTry(j)'
  BY <1>1, <1>5, <1>6 DEF DownFlow, DownTry
<1> QED
  BY <1>1, <1>2, <1>4, <1>7, DownOne

LEMMA DownServerEnds ==
    ASSUME NEW j \in Tries
    PROVE  /\ SetupInv /\ SetupInv' /\ DownFlow
           /\ ReadHeader(j) \/ ReadHeaderFails(j) \/ ServerEnds(j)
           => DownFlow'
<1> SUFFICES ASSUME SetupInv, SetupInv', DownFlow,
                    ReadHeader(j) \/ ReadHeaderFails(j) \/ ServerEnds(j)
             PROVE  DownFlow'
  OBVIOUS
<1>1. /\ TypeOK /\ ServerSide(j) /\ {} \in SUBSET Conn /\ A \in Conn
      /\ {T(j)} \in SUBSET Conn /\ {X(j)} \in SUBSET Conn
      /\ \A i \in Tries : X(i) # T(j)
      /\ UNCHANGED <<front, head, client, served, gotDown, sentDown>>
  BY Places DEF SetupInv, ReadHeader, ReadHeaderFails, ServerEnds, ServerGoes, peers
<1>2. \A i \in Tries : far[X(i)] # "none" =>
         (server'[i] \in {"relay", "over"} <=> server[i] \in {"relay", "over"})
  <2>1. \A i \in Tries \ {j} : server'[i] = server[i]
    BY <1>1 DEF ReadHeader, ReadHeaderFails, ServerEnds, ServerGoes, TypeOK
  <2>2. \/ far[X(j)] = "none"
        \/ server[j] = "relay" /\ server'[j] = "over"
    BY <1>1 DEF ReadHeader, ReadHeaderFails, ServerEnds, ServerGoes, TypeOK, ServerSide
  <2> QED
    BY <2>1, <2>2
<1>3. CASE ReadHeader(j)
  <2>1. UNCHANGED <<near, far, down>>
    BY <1>3 DEF ReadHeader
  <2>2. \A c \in Conn : ShrinksDown(c)
    BY <2>1 DEF ShrinksDown, Intact
  <2> QED
    BY <1>1, <1>2, <2>1, <2>2, DownOther DEF Established
<1>4. CASE ReadHeaderFails(j) \/ ServerEnds(j)
  <2>1. PICK N \in SUBSET Conn : CloseEnds(N, {T(j)})
    BY <1>1, <1>4 DEF ReadHeaderFails, ServerEnds, CloseBoth
  <2> QED
    BY <1>1, <1>2, <2>1, DownCloses DEF Established
<1> QED
  BY <1>3, <1>4

LEMMA DownPeers ==
    /\ SetupInv /\ SetupInv' /\ DownFlow
    /\ \/ AppSends \/ AppHalfCloses \/ AppCloses \/ UNCHANGED vars
       \/ \E i \in Tries : TargetReads(i) \/ TargetCloses(i)
    => DownFlow'
<1> SUFFICES ASSUME SetupInv, SetupInv', DownFlow,
                    \/ AppSends \/ AppHalfCloses \/ AppCloses \/ UNCHANGED vars
                    \/ \E i \in Tries : TargetReads(i) \/ TargetCloses(i)
             PROVE  DownFlow'
  OBVIOUS
<1>1. /\ TypeOK /\ A \in Conn /\ {} \in SUBSET Conn /\ {A} \in SUBSET Conn
      /\ \A i \in Tries : X(i) # A /\ {X(i)} \in SUBSET Conn
      /\ UNCHANGED <<front, head, client, served, server, gotDown, sentDown>>
  BY Places DEF SetupInv, AppSends, AppHalfCloses, AppCloses, TargetReads, TargetCloses,
                engines, peers, vars
<1>2. CASE AppSends \/ AppHalfCloses \/ UNCHANGED vars \/ \E i \in Tries : TargetReads(i)
  <2>1. /\ UNCHANGED <<far, down>>
        /\ near' = near \/ (near[A] = "open" /\ near' = [near EXCEPT ![A] = "half"])
    BY <1>2 DEF AppSends, AppHalfCloses, TargetReads, engines, peers, vars, wires
  <2>2. near'[A] \in {near[A], "half", "closed"} /\ \A c \in Conn : ShrinksDown(c)
    BY <1>1, <2>1 DEF ShrinksDown, Intact, TypeOK
  <2> QED
    BY <1>1, <2>1, <2>2, DownOther DEF Established
<1>3. CASE AppCloses
  BY <1>1, <1>3, DownCloses DEF AppCloses, Established
<1>4. ASSUME NEW i \in Tries, TargetCloses(i)
      PROVE  DownFlow'
  <2>1. /\ CloseEnds({}, {X(i)})
        /\ \A k \in Tries : X(k) \in {X(i)} => far[X(k)] # "none"
    BY <1>4, Places DEF TargetCloses
  <2> QED
    BY <1>1, <2>1, DownCloses DEF Established
<1> QED
  BY <1>2, <1>3, <1>4

LEMMA DownFlowInit == Init => DownFlow
<1> SUFFICES ASSUME Init PROVE DownFlow
  OBVIOUS
<1>1. /\ near[A] = "open" /\ client = "parse" /\ gotDown = <<>> /\ down[A] = <<>>
      /\ \A i \in Tries : far[X(i)] = "none" /\ sentDown[i] = 0 /\ down[X(i)] = <<>>
  BY Places DEF Init
<1> QED
  BY <1>1 DEF DownFlow, DownFront, DownTry, Established

LEMMA DownFlowNext == SetupInv /\ SetupInv' /\ OpenInv /\ DownFlow /\ [Next]_vars => DownFlow'
<1> SUFFICES ASSUME SetupInv, SetupInv', OpenInv, DownFlow, [Next]_vars PROVE DownFlow'
  OBVIOUS
<1>1. CASE ClientNext \/ Collect
  BY <1>1, DownClient, DownDial, DownGiveUp, DownAcked, DownReply, DownClientCarry
     DEF ClientNext
<1>2. ASSUME NEW i \in Tries, ServerNext(i) PROVE DownFlow'
  BY <1>2, DownDialTarget, DownAck, DownServerCarry, DownServerEnds DEF ServerNext
<1>3. ASSUME NEW i \in Tries, TargetSends(i) PROVE DownFlow'
  BY <1>3, DownTargetSends
<1> QED
  BY <1>1, <1>2, <1>3, DownAppReads, DownPeers DEF Next

LEMMA DownFlowAlways == Spec => []DownFlow
BY SetupAlways, OpenAlways, DownFlowInit, DownFlowNext, PTL DEF Spec

-----------------------------------------------------------------------------
(* The application's end.                                                  *)
DownStream ==
    /\ Answered \in Seq(Msg) /\ Numbered(Answer, Answered, First)
    /\ First + Len(Answered) = sentDown[served] + 1

LEMMA AnsweredFacts == SetupInv /\ Established => DownStream
<1> SUFFICES ASSUME SetupInv, Established PROVE DownStream
  OBVIOUS
<1>1. PICK j \in Tries : j = served
  BY EstablishedTry
<1>2. sentDown[j] \in Nat /\ client # "failed"
  BY DownNumbers DEF SetupInv, Established
<1> DEFINE s == Stream(sentDown[j])
           w == <<Ok>> \o Stream(sentDown[j])
<1>3. /\ s \in Seq(Msg) /\ Len(s) = sentDown[j] /\ Numbered(Answer, s, 1)
      /\ w \in Seq(Msg) /\ Len(w) = sentDown[j] + 1 /\ Numbered(Answer, w, 0)
  BY <1>2, Messages, StreamFacts DEF Answer
<1>4. CASE front = "plain"
  <2>1. First = 1 /\ Answered = <<>> \o s
    BY <1>1, <1>2, <1>4 DEF First, Answered
  <2>2. <<>> \o s = s
    BY <1>3, ConcatEmptySeq
  <2> HIDE DEF s
  <2> QED
    BY <1>1, <1>2, <1>3, <2>1, <2>2 DEF DownStream
<1>5. CASE front # "plain"
  <2>1. First = 0 /\ Answered = w
    BY <1>1, <1>2, <1>5 DEF First, Answered
  <2> HIDE DEF w
  <2> QED
    BY <1>1, <1>2, <1>3, <2>1 DEF DownStream
<1> QED
  BY <1>4, <1>5

(* What a step does to it.                                                 *)
LEMMA DownSteps ==
    ASSUME SetupInv, [Next]_vars, Established
    PROVE  /\ Established' /\ UNCHANGED <<front, head, served>>
           /\ \/ sentDown'[served] = sentDown[served] /\ gotDown' = gotDown
              \/ sentDown'[served] = sentDown[served] + 1 /\ gotDown' = gotDown
              \/ AppReads
<1>1. /\ served \in Tries /\ client \in {"relay", "over"}
      /\ sentDown \in [Tries -> 0 .. MaxDown]
      /\ Established' /\ UNCHANGED <<front, head, served>>
  BY EstablishedTry, UpSteps DEF SetupInv, TypeOK
<1>2. CASE ClientNext \/ Collect
  BY <1>1, <1>2
     DEF ClientNext, Parse, ParseSocks, ParseHttp, TakeRequest, ParseFails, Dial, DialFails,
         Acked, NotAcked, GiveUp, Reply, ReplyFails, ClientCarry, ClientEnds, Collect, peers
<1>3. ASSUME NEW i \in Tries, ServerNext(i)
      PROVE  UNCHANGED <<sentDown, gotDown>>
  BY <1>3 DEF ServerNext, ReadHeader, ReadHeaderFails, DialTarget, DialTargetFails, Ack,
              AckFails, ServerCarry, ServerEnds, ServerGoes, peers
<1>4. AppSends \/ AppHalfCloses \/ AppCloses \/ UNCHANGED vars
         => UNCHANGED <<sentDown, gotDown>>
  BY DEF AppSends, AppHalfCloses, AppCloses, engines, peers, vars
<1>5. ASSUME NEW i \in Tries, TargetReads(i) \/ TargetCloses(i)
      PROVE  UNCHANGED <<sentDown, gotDown>>
  BY <1>5 DEF TargetReads, TargetCloses, engines, peers
<1>6. ASSUME NEW i \in Tries, TargetSends(i)
      PROVE  /\ gotDown' = gotDown
             /\ sentDown'[served] \in {sentDown[served], sentDown[served] + 1}
  BY <1>1, <1>6 DEF TargetSends
<1> QED
  BY <1>1, <1>2, <1>3, <1>4, <1>5, <1>6 DEF Next

LEMMA DownEarly ==
    ASSUME [Next]_vars, ~Established, ~AppReads
    PROVE  gotDown' = gotDown
BY DEF Next, ClientNext, Parse, ParseSocks, ParseHttp, TakeRequest, ParseFails, Dial, DialFails,
       Acked, NotAcked, GiveUp, Reply, ReplyFails, ClientCarry, ClientEnds, Collect,
       ServerNext, ReadHeader, ReadHeaderFails, DialTarget, DialTargetFails, Ack, AckFails,
       ServerCarry, ServerEnds, ServerGoes, AppSends, AppHalfCloses, AppCloses,
       TargetSends, TargetReads, TargetCloses, vars, engines, peers, Established

LEMMA DownFailed ==
    ASSUME [Next]_vars, client = "failed"
    PROVE  client' = "failed"
BY DEF Next, ClientNext, Parse, ParseSocks, ParseHttp, TakeRequest, ParseFails, Dial, DialFails,
       Acked, NotAcked, GiveUp, Reply, ReplyFails, ClientCarry, ClientEnds, Collect,
       ServerNext, ReadHeader, ReadHeaderFails, DialTarget, DialTargetFails, Ack, AckFails,
       ServerCarry, ServerEnds, ServerGoes, AppSends, AppReads, AppHalfCloses, AppCloses,
       TargetSends, TargetReads, TargetCloses, vars, engines, peers

(* An empty stream before any other.                                       *)
LEMMA FirstPut == \A t \in Seq(Msg) : t = <<>> \/ DownPipe!IsStrictPrefix(<<>>, t)
<1> SUFFICES ASSUME NEW t \in Seq(Msg) PROVE t = <<>> \/ DownPipe!IsStrictPrefix(<<>>, t)
  OBVIOUS
<1>1. /\ Len(<<>>) = 0 /\ Len(t) \in Nat
      /\ SubSeq(<<>>, 1, 0) = <<>> /\ SubSeq(t, 1, 0) = <<>>
  BY LenProperties, Emptied, SubSeqEmpty
<1> QED
  BY <1>1 DEF DownPipe!IsStrictPrefix, DownPipe!IsPrefix

(* The refusal is all there is.                                            *)
LEMMA RefusedOnly ==
    /\ <<Refused>> \in Seq(Msg) /\ <<Refused>> # <<>> /\ Head(<<Refused>>) = Refused
    /\ Append(<<>>, Refused) = <<Refused>>
    /\ DownPipe!IsStrictPrefix(<<>>, <<Refused>>)
    /\ DownPipe!IsPrefix(<<Refused>>, <<Refused>>)
<1>1. /\ <<Refused>> \in Seq(Msg) /\ <<Refused>> # <<>> /\ Head(<<Refused>>) = Refused
      /\ Append(<<>>, Refused) = <<Refused>>
  BY Messages
<1>2. DownPipe!IsStrictPrefix(<<>>, <<Refused>>)
  BY <1>1, FirstPut
<1>3. DownPipe!IsPrefix(<<Refused>>, <<Refused>>)
  BY DEF DownPipe!IsPrefix
<1> QED
  BY <1>1, <1>2, <1>3

(* Before the tunnel is there, and when it is refused.                     *)
LEMMA DownPipeEarly ==
    ASSUME SetupInv, SetupInv', DownFlow, [Next]_vars, ~Established
    PROVE  [DownPipe!Next]_<<Answered, gotDown>>
<1>1. CASE client = "failed"
  <2>1. client' = "failed"
    BY <1>1, DownFailed
  <2>2. Answered = <<Refused>> /\ Answered' = <<Refused>>
    BY <1>1, <2>1 DEF Answered
  <2>3. CASE AppReads
    <3>1. down[A] # <<>> /\ gotDown' = Append(gotDown, Head(down[A]))
      BY <2>3 DEF AppReads
    <3>2. gotDown = <<>> /\ gotDown' = <<Refused>>
      BY <1>1, <3>1, RefusedOnly DEF DownFlow, DownFront
    <3> QED
      BY <2>2, <3>2, RefusedOnly DEF DownPipe!Next, DownPipe!Take
  <2>4. CASE ~AppReads
    BY <2>2, <2>4, DownEarly
  <2> QED
    BY <2>3, <2>4
<1>2. CASE client # "failed"
  <2>1. ~AppReads /\ gotDown = <<>> /\ Answered = <<>>
    BY <1>2 DEF AppReads, DownFlow, DownFront, Answered
  <2>2. gotDown' = gotDown
    BY <2>1, DownEarly
  <2>3. CASE client' = "failed"
    <3>1. Answered' = <<Refused>>
      BY <2>3 DEF Answered
    <3> QED
      BY <2>1, <2>2, <3>1, RefusedOnly DEF DownPipe!Next, DownPipe!Put
  <2>4. CASE client' # "failed" /\ ~Established'
    BY <2>1, <2>2, <2>4 DEF Answered
  <2>5. CASE Established'
    <3>1. (SetupInv /\ Established => DownStream)'
      BY AnsweredFacts, PTL
    <3>2. Answered' \in Seq(Msg)
      BY <2>5, <3>1 DEF DownStream
    <3>3. Answered' = <<>> \/ DownPipe!IsStrictPrefix(<<>>, Answered')
      <4> DEFINE t == Answered'
      <4> HIDE DEF t
      <4>1. t \in Seq(Msg) => t = <<>> \/ DownPipe!IsStrictPrefix(<<>>, t)
        BY FirstPut
      <4> QED
        BY <3>2, <4>1 DEF t
    <3> QED
      BY <2>1, <2>2, <3>2, <3>3 DEF DownPipe!Next, DownPipe!Put
  <2> QED
    BY <2>3, <2>4, <2>5
<1> QED
  BY <1>1, <1>2

(* While the tunnel is there.                                              *)
LEMMA DownPipeLate ==
    ASSUME SetupInv, SetupInv', DownFlow, DownFlow', [Next]_vars, Established
    PROVE  [DownPipe!Next]_<<Answered, gotDown>>
<1>1. /\ Established' /\ UNCHANGED <<front, head, served>> /\ First' = First
      /\ \/ sentDown'[served] = sentDown[served] /\ gotDown' = gotDown
         \/ sentDown'[served] = sentDown[served] + 1 /\ gotDown' = gotDown
         \/ AppReads
  BY DownSteps DEF First
<1>2. DownStream /\ DownStream'
  <2>1. (SetupInv /\ Established => DownStream)'
    BY AnsweredFacts, PTL
  <2> QED
    BY <1>1, <2>1, AnsweredFacts
<1>3. TypeOK /\ TypeOK' /\ First \in Nat
  BY DownNumbers DEF SetupInv
<1>4. PICK j \in Tries : j = served
  BY EstablishedTry
<1> DEFINE n == First
           s == Answered
           t == Answered'
           g == gotDown
           h == gotDown'
           a == sentDown[j]
           b == sentDown'[j]
<1>5. s \in Seq(Msg) /\ t \in Seq(Msg) /\ g \in Seq(Msg) /\ h \in Seq(Msg)
  BY <1>2, <1>3 DEF DownStream, TypeOK
<1>6. Numbered(Answer, s, n) /\ n + Len(s) = a + 1
  BY <1>2, <1>4 DEF DownStream
<1>7. Numbered(Answer, t, n) /\ n + Len(t) = b + 1
  BY <1>1, <1>2, <1>4 DEF DownStream, Numbered, ItemNr, Answer, Ok, Byte
<1>8. Numbered(Answer, g, n)
  BY DEF DownFlow, DownFront
<1>9. Numbered(Answer, h, n) /\ (n + Len(h)) + Len(down'[A]) <= b + 1
  <2>1. (Established /\ DownFlow => Numbered(Answer, gotDown, First) /\ AtRelay <= sentDown[served] + 1)'
    BY DEF DownFlow, DownFront
  <2> QED
    BY <1>1, <1>4, <2>1 DEF Numbered, ItemNr, Answer, Ok, Byte, AtRelay, AtApp
<1>10. /\ n \in Nat /\ a \in Nat /\ b \in Nat /\ Len(down'[A]) \in Nat
       /\ Len(s) \in Nat /\ Len(t) \in Nat /\ Len(g) \in Nat /\ Len(h) \in Nat
  BY <1>3, <1>5, LenProperties, Places, TunnelAssumption DEF TypeOK
<1>11. a = b => s = t
  <2> HIDE DEF n, s, t, a, b
  <2>1. a = b => Len(s) = Len(t)
    BY <1>6, <1>7, <1>10
  <2> QED
    BY <1>5, <1>6, <1>7, <1>10, <2>1, NumberedSame
<1>12. CASE a = b /\ gotDown' = gotDown
  BY <1>11, <1>12
<1>13. CASE b = a + 1 /\ gotDown' = gotDown
  <2> HIDE DEF n, s, t, a, b
  <2>1. Len(s) <= Len(t) /\ Len(s) # Len(t)
    BY <1>6, <1>7, <1>10, <1>13
  <2>2. DownPipe!IsStrictPrefix(s, t)
    BY <1>5, <1>6, <1>7, <1>10, <2>1, Grows
  <2> QED
    BY <1>5, <1>13, <2>2 DEF DownPipe!Next, DownPipe!Put, s, t
<1>14. CASE AppReads
  <2>1. down[A] # <<>> /\ gotDown' = Append(gotDown, Head(down[A])) /\ a = b
    BY <1>14 DEF AppReads
  <2>2. s = t
    BY <2>1, <1>11
  <2>3. Len(h) = Len(g) + 1
    BY <1>3, <1>5, <2>1, Places, Taken, Added DEF TypeOK
  <2> DEFINE u == Len(down'[A])
  <2> HIDE DEF n, s, t, g, h, a, b, u
  <2>4. Len(g) <= Len(h) /\ Len(g) # Len(h) /\ Len(h) <= Len(s)
    <3> DEFINE x == Len(g)
               y == Len(h)
               z == Len(s)
    <3>1. (n + y) + u <= b + 1 /\ n + z = a + 1 /\ y = x + 1 /\ a = b
      BY <1>6, <1>9, <2>1, <2>3 DEF u
    <3>2. n \in Nat /\ x \in Nat /\ y \in Nat /\ z \in Nat /\ u \in Nat /\ a \in Nat
      BY <1>10 DEF u
    <3> HIDE DEF x, y, z
    <3>3. x <= y /\ x # y /\ y <= z
      BY <3>1, <3>2
    <3> QED
      BY <3>3 DEF x, y, z
  <2>5. DownPipe!IsStrictPrefix(g, h) /\ DownPipe!IsPrefix(h, s)
    BY <1>5, <1>6, <1>8, <1>9, <1>10, <2>4, Grows
  <2> QED
    BY <2>2, <2>5 DEF DownPipe!Next, DownPipe!Take, s, t, g, h
<1> QED
  BY <1>1, <1>4, <1>12, <1>13, <1>14

(* What the application reads is the answer to its request - the refusal   *)
(* when the client engine gives up - and then what the target of the       *)
(* acknowledged try sent: in order, nothing twice, nothing left out.       *)
THEOREM TunnelDownIsPipe == Spec => DownPipe!Spec
<1>1. Init => DownPipe!Init
  BY DEF Init, DownPipe!Init, Answered, Established
<1>2. SetupInv /\ SetupInv' /\ DownFlow /\ DownFlow' /\ [Next]_vars
         => [DownPipe!Next]_<<Answered, gotDown>>
  BY DownPipeEarly, DownPipeLate
<1> QED
  BY <1>1, <1>2, SetupAlways, DownFlowAlways, PTL DEF Spec, DownPipe!Spec

(* Relays, retries, deadlines and closings together make two pipes.        *)
THEOREM TunnelIsTwoPipes == Spec => IsTwoPipes
BY TunnelUpIsPipe, TunnelDownIsPipe DEF IsTwoPipes
=============================================================================
