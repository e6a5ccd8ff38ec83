------------------------------- MODULE Tunnel -------------------------------
(***************************************************************************)
(* One proxied connection from the application to its target               *)
(* (src/pkg/mops/engine.go).                                               *)
(*                                                                         *)
(*    app --A-- client engine --T(i)-- server engine --X(i)-- target       *)
(*                                                                         *)
(* The client engine reads the request from A, opens the tunnel T(i) to a  *)
(* node it selects, sends a header and waits for one byte of answer; if it *)
(* gets none or a refusal it tries another node.  The server engine of try *)
(* i dials the target and then answers.  Afterwards each engine copies     *)
(* bytes between its two connections until either direction ends, and then *)
(* closes both.                                                            *)
(*                                                                         *)
(* Of a connection c, near[c] is the state of the end on the application's *)
(* side and far[c] of the other, up[c] and down[c] what is under way.      *)
(* Time is abstract: a deadline that is set may expire at any moment.      *)
(***************************************************************************)
EXTENDS Naturals, Sequences

CONSTANTS
    MaxTries,   \* nodes the client engine tries: 3 in the code
    MaxUp,      \* bytes the application sends behind its request line
    MaxHead,    \* of these, the rest of an HTTP head, if there is one
    MaxDown     \* bytes a target sends

ASSUME TunnelAssumption ==
    /\ MaxTries \in Nat \ {0}
    /\ MaxUp \in Nat /\ MaxHead \in 0 .. MaxUp
    /\ MaxDown \in Nat

VARIABLES
    front,      \* "socks", "connect" (HTTP CONNECT) or "plain" (HTTP)
    head,       \* how many of the first bytes are still the head of an HTTP
                \* request, behind its request line
    near, far,  \* the two ends of each connection
    up, down,   \* the bytes under way in each direction
    armed,      \* the ends with a deadline set
    client,     \* where the client engine is
    try,        \* its tries so far
    served,     \* the try that was acknowledged, 0 if none
    taken,      \* bytes that were taken from A together with the request:
                \* of its head, or those a SOCKS5 request was buffered with
    kept,       \* of these, what goes to the target as part of a request
    server      \* server[i]: where the server engine of try i is

(***************************************************************************)
(* What application and targets have sent and read.                        *)
(***************************************************************************)
VARIABLES sentUp, sentDown, gotUp, gotDown

wires   == <<near, far, up, down>>
engines == <<armed, client, try, served, taken, kept, server>>
peers   == <<sentUp, sentDown, gotUp, gotDown>>
vars    == <<front, head, wires, engines, peers>>

-----------------------------------------------------------------------------
Tries == 1 .. MaxTries
A     == <<"app", 0>>
T(i)  == <<"tunnel", i>>
X(i)  == <<"target", i>>
Conn  == {A} \cup {T(i) : i \in Tries} \cup {X(i) : i \in Tries}

EndState == {"none", "open", "half", "closed"}  \* half: sent its last byte
Done     == {"half", "closed"}

Msg == [kind : {"request", "header", "ok", "refused", "byte"}, n : Nat]
Request(n) == [kind |-> "request", n |-> n]  \* with n bytes of its head
Header  == [kind |-> "header", n |-> 0]
Ok      == [kind |-> "ok", n |-> 0]
Refused == [kind |-> "refused", n |-> 0]
Byte(n) == [kind |-> "byte", n |-> n]

IsByte(m) == m.kind = "byte"

NearEnd(c) == <<"near", c>>
FarEnd(c)  == <<"far", c>>

TypeOK ==
    /\ front \in {"socks", "connect", "plain"} /\ head \in 0 .. MaxHead
    /\ near \in [Conn -> EndState] /\ far \in [Conn -> EndState \ {"half"}]
    /\ up \in [Conn -> Seq(Msg)] /\ down \in [Conn -> Seq(Msg)]
    /\ armed \subseteq {"near", "far"} \X Conn
    /\ client \in {"parse", "select", "wait", "reply", "relay", "over",
                    "failed"}
    /\ try \in 0 .. MaxTries
    /\ served \in 0 .. try
    /\ taken \in 0 .. MaxUp /\ kept \in 0 .. taken
    /\ server \in [Tries -> {"none", "header", "dial", "ack", "relay", "over"}]
    /\ sentUp \in 0 .. MaxUp
    /\ sentDown \in [Tries -> 0 .. MaxDown]
    /\ gotUp \in [Tries -> Seq(Msg)]
    /\ gotDown \in Seq(Msg)

(* The application has connected; the first read has a deadline.           *)
Init ==
    /\ front \in {"socks", "connect", "plain"}
    /\ head \in IF front = "socks" THEN {0} ELSE {0, MaxHead}
    /\ near = [c \in Conn |-> IF c = A THEN "open" ELSE "none"]
    /\ far = near
    /\ up = [c \in Conn |-> <<>>] /\ down = [c \in Conn |-> <<>>]
    /\ armed = {FarEnd(A)}
    /\ client = "parse"
    /\ try = 0 /\ served = 0 /\ taken = 0 /\ kept = 0
    /\ server = [i \in Tries |-> "none"]
    /\ sentUp = 0 /\ sentDown = [i \in Tries |-> 0]
    /\ gotUp = [i \in Tries |-> <<>>] /\ gotDown = <<>>

-----------------------------------------------------------------------------
(* Connections.  A write to an end that is closed is lost, or fails: then  *)
(* the writer takes the step for the failure instead.                      *)
SendUp(w, c, m)   == IF far[c] = "closed" THEN w ELSE [w EXCEPT ![c] = Append(@, m)]
SendDown(w, c, m) == IF near[c] = "closed" THEN w ELSE [w EXCEPT ![c] = Append(@, m)]

(* Closing the ends of F (far ones) and N (near ones).  What was still to  *)
(* be read there is gone; a connection closed with unread bytes is reset,  *)
(* which may take what was sent the other way as well.                     *)
CloseEnds(N, F) ==
    /\ near' = [c \in Conn |-> IF c \in N THEN "closed" ELSE near[c]]
    /\ far' = [c \in Conn |-> IF c \in F THEN "closed" ELSE far[c]]
    /\ \E cutUp \in SUBSET {c \in N : down[c] # <<>>},
          cutDown \in SUBSET {c \in F : up[c] # <<>>} :
         /\ up' = [c \in Conn |-> IF c \in F \cup cutUp THEN <<>> ELSE up[c]]
         /\ down' = [c \in Conn |-> IF c \in N \cup cutDown THEN <<>> ELSE down[c]]
    /\ armed' = armed \ ({NearEnd(c) : c \in N} \cup {FarEnd(c) : c \in F})

(* An engine's end of c sees the end of what the application side sends.   *)
UpEnds(c)   == up[c] = <<>> /\ near[c] \in Done
DownEnds(c) == down[c] = <<>> /\ far[c] \in Done

-----------------------------------------------------------------------------
(* A relay between c and d: relayWithStats and relayHttpWithStats with     *)
(* c = A, relayServerWithStats with c = T(i).                              *)
Carry(c, d) ==
    /\ \/ /\ up[c] # <<>>
          /\ up' = SendUp([up EXCEPT ![c] = Tail(@)], d, Head(up[c]))
          /\ UNCHANGED down
       \/ /\ down[d] # <<>>
          /\ down' = SendDown([down EXCEPT ![d] = Tail(@)], c, Head(down[d]))
          /\ UNCHANGED up
    /\ UNCHANGED <<near, far, armed>>

(* Slip: a read that returns bytes together with the end of the stream     *)
(* counts as an end.                                                       *)
BugMayEnd(c, d) ==
    \/ near[c] \in Done \/ far[d] \in Done
    \/ FarEnd(c) \in armed \/ NearEnd(d) \in armed

(* A read finds the end of a stream or an expired deadline, or a write to  *)
(* a closed end fails.                                                     *)
MayEnd(c, d) ==
    \/ UpEnds(c) \/ (far[d] = "closed" /\ up[c] # <<>>)
    \/ DownEnds(d) \/ (near[c] = "closed" /\ down[d] # <<>>)
    \/ FarEnd(c) \in armed \/ NearEnd(d) \in armed

(* Slip: the direction that ends closes only the connection it reads.      *)
BugCloseBoth(c, d) == MayEnd(c, d) /\ CloseEnds({}, {c})

(* The direction that ends first closes both connections.                  *)
CloseBoth(c, d) == MayEnd(c, d) /\ CloseEnds({d}, {c})

-----------------------------------------------------------------------------
(* The client engine: handleClientConn and the two front ends.             *)

TakeRequest(n) ==
    /\ client = "parse"
    /\ n < Len(up[A])
    /\ up' = [up EXCEPT ![A] = SubSeq(@, n + 2, Len(@))]
    /\ taken' = n
    /\ client' = "select"
    /\ UNCHANGED <<front, head, near, far, armed, try, served, server, peers>>

(* The request is read through a bufio.Reader, which may take bytes behind *)
(* it from the connection.                                                 *)
ParseSocks ==
    /\ front = "socks"
    /\ \E n \in 0 .. MaxUp : TakeRequest(n)
    /\ UNCHANGED kept

(* Only the request line has to be there.  The head is read line by line   *)
(* until it is complete, or until a read fails or the deadline expires:    *)
(* the line begun then is dropped and the rest left on the connection.     *)
ParseHttp ==
    /\ front # "socks"
    /\ \E n \in 0 .. head :
         /\ TakeRequest(n)
         /\ kept' \in IF n = head THEN {n} ELSE 0 .. n

(* Slip: the success is reported before any node has been asked.           *)
BugParse ==
    /\ ParseSocks \/ ParseHttp
    /\ down' = IF front = "plain" THEN down ELSE SendDown(down, A, Ok)

Parse == (ParseSocks \/ ParseHttp) /\ UNCHANGED down

(* No request line or SOCKS5 request, none that can be read, or not in     *)
(* time.                                                                   *)
ParseFails ==
    /\ client = "parse"
    /\ CloseEnds({}, {A})
    /\ client' = "failed"
    /\ UNCHANGED <<front, head, try, served, taken, kept, server, peers>>

(* Slip: one try too many.                                                 *)
BugDialOnce ==
    /\ client = "select" /\ try <= MaxTries
    /\ try' = try + 1
    /\ client' = "wait"
    /\ UNCHANGED <<front, head, wires, armed, served, taken, kept, server, peers>>

(* Slip: a plain HTTP request is sent right behind the header.             *)
BugDialEarly ==
    LET i == try + 1 IN
    /\ client = "select" /\ try < MaxTries
    /\ try' = i
    /\ near' = [near EXCEPT ![T(i)] = "open"]
    /\ far' = [far EXCEPT ![T(i)] = "open"]
    /\ up' = [up EXCEPT ![T(i)] = <<Header, Request(kept)>>]
    /\ armed' = armed \cup {NearEnd(T(i)), FarEnd(T(i))}
    /\ client' = "wait"
    /\ server' = [server EXCEPT ![i] = "header"]
    /\ UNCHANGED <<front, head, down, served, taken, kept, peers>>

(* dialAndHandshakeNode: a connection to the next node, with the header    *)
(* written into it and a deadline on everything that follows.              *)
Dial ==
    LET i == try + 1 IN
    /\ client = "select" /\ try < MaxTries
    /\ try' = i
    /\ near' = [near EXCEPT ![T(i)] = "open"]
    /\ far' = [far EXCEPT ![T(i)] = "open"]
    /\ up' = [up EXCEPT ![T(i)] = <<Header>>]
    /\ armed' = armed \cup {NearEnd(T(i)), FarEnd(T(i))}
    /\ client' = "wait"
    /\ server' = [server EXCEPT ![i] = "header"]
    /\ UNCHANGED <<front, head, down, served, taken, kept, peers>>

(* The node cannot be reached.                                             *)
DialFails ==
    /\ client = "select" /\ try < MaxTries
    /\ try' = try + 1
    /\ UNCHANGED <<front, head, wires, armed, client, served, taken, kept, server, peers>>

Acked ==
    /\ client = "wait"
    /\ down[T(try)] # <<>> /\ Head(down[T(try)]) = Ok
    /\ down' = [down EXCEPT ![T(try)] = Tail(@)]
    /\ armed' = armed \ {NearEnd(T(try))}
    /\ served' = try
    /\ client' = "reply"
    /\ UNCHANGED <<front, head, near, far, up, try, taken, kept, server, peers>>

(* Refused by the node, closed by it, or silent for five seconds.          *)
NotAcked ==
    /\ client = "wait"
    /\ CloseEnds({T(try)}, {})
    /\ client' = "select"
    /\ UNCHANGED <<front, head, try, served, taken, kept, server, peers>>

(* No node is left, or all tries are used.  The answer may be lost when    *)
(* the application is not there any more or has sent what nobody read.     *)
GiveUp ==
    /\ client = "select"
    /\ far' = [far EXCEPT ![A] = "closed"]
    /\ down' \in {SendDown(down, A, Refused), down}
    /\ up' = [up EXCEPT ![A] = <<>>]
    /\ armed' = armed \ {FarEnd(A)}
    /\ client' = "failed"
    /\ UNCHANGED <<front, head, near, try, served, taken, kept, server, peers>>

(* Slip: the deadline of the connection is left as it was.                 *)
BugReply ==
    /\ client = "reply"
    /\ IF front = "plain"
       THEN /\ up' = SendUp(up, T(served), Request(kept))
            /\ UNCHANGED down
       ELSE /\ down' = SendDown(down, A, Ok)
            /\ UNCHANGED up
    /\ client' = "relay"
    /\ UNCHANGED <<front, head, near, far, armed, try, served, taken, kept, server, peers>>

(* Slip: the HTTP front end too relays the connection only, and not what   *)
(* is still in its buffered reader.                                        *)
BugReplyOnly ==
    /\ client = "reply"
    /\ IF front = "plain"
       THEN /\ up' = SendUp([up EXCEPT ![A] = <<>>], T(served), Request(kept))
            /\ UNCHANGED down
       ELSE /\ up' = [up EXCEPT ![A] = <<>>]
            /\ down' = SendDown(down, A, Ok)
    /\ armed' = armed \ {FarEnd(A)}
    /\ client' = "relay"
    /\ UNCHANGED <<front, head, near, far, try, served, taken, kept, server, peers>>

(* The application is told of the success; a plain HTTP request goes to    *)
(* the target instead, with the lines that were read of its head.  The     *)
(* deadline of A is cleared.                                               *)
Reply ==
    /\ client = "reply"
    /\ IF front = "plain"
       THEN /\ up' = SendUp(up, T(served), Request(kept))
            /\ UNCHANGED down
       ELSE /\ down' = SendDown(down, A, Ok)
            /\ UNCHANGED up
    /\ armed' = armed \ {FarEnd(A)}
    /\ client' = "relay"
    /\ UNCHANGED <<front, head, near, far, try, served, taken, kept, server, peers>>

(* The write fails.  Only the SOCKS5 front end closes the tunnel then.     *)
ReplyFails ==
    /\ client = "reply"
    /\ IF front = "plain" THEN far[T(served)] = "closed" ELSE near[A] = "closed"
    /\ CloseEnds(IF front = "socks" THEN {T(served)} ELSE {}, {A})
    /\ client' = "failed"
    /\ UNCHANGED <<front, head, try, served, taken, kept, server, peers>>

ClientCarry ==
    /\ client = "relay"
    /\ Carry(A, T(served))
    /\ UNCHANGED <<front, head, client, try, served, taken, kept, server, peers>>

ClientEnds ==
    /\ client = "relay"
    /\ CloseBoth(A, T(served))
    /\ client' = "over"
    /\ UNCHANGED <<front, head, try, served, taken, kept, server, peers>>

(* The Go runtime closes a connection nothing refers to any more.          *)
Collect ==
    /\ client = "failed"
    /\ \E i \in Tries :
         /\ near[T(i)] = "open"
         /\ CloseEnds({T(i)}, {})
    /\ UNCHANGED <<front, head, client, try, served, taken, kept, server, peers>>

-----------------------------------------------------------------------------
(* The server engine of try i: handleServerConn.                           *)
ServerGoes(i, to) ==
    /\ server' = [server EXCEPT ![i] = to]
    /\ UNCHANGED <<front, head, client, try, served, taken, kept, peers>>

(* Slip: the server acknowledges the header before it has dialled.         *)
BugReadHeader(i) ==
    /\ server[i] = "header"
    /\ up[T(i)] # <<>>
    /\ up' = [up EXCEPT ![T(i)] = Tail(@)]
    /\ down' = SendDown(down, T(i), Ok)
    /\ ServerGoes(i, "dial")
    /\ UNCHANGED <<near, far, armed>>

ReadHeader(i) ==
    /\ server[i] = "header"
    /\ up[T(i)] # <<>>
    /\ up' = [up EXCEPT ![T(i)] = Tail(@)]
    /\ ServerGoes(i, "dial")
    /\ UNCHANGED <<near, far, down, armed>>

(* Closed or too slow.                                                     *)
ReadHeaderFails(i) ==
    /\ server[i] = "header"
    /\ CloseEnds({}, {T(i)})
    /\ ServerGoes(i, "over")

DialTarget(i) ==
    /\ server[i] = "dial"
    /\ near' = [near EXCEPT ![X(i)] = "open"]
    /\ far' = [far EXCEPT ![X(i)] = "open"]
    /\ ServerGoes(i, "ack")
    /\ UNCHANGED <<up, down, armed>>

(* Refused, or no answer within ten seconds.                               *)
DialTargetFails(i) ==
    /\ server[i] = "dial"
    /\ far' = [far EXCEPT ![T(i)] = "closed"]
    /\ up' = [up EXCEPT ![T(i)] = <<>>]
    /\ down' = SendDown(down, T(i), Refused)
    /\ armed' = armed \ {FarEnd(T(i))}
    /\ ServerGoes(i, "over")
    /\ UNCHANGED near

Ack(i) ==
    /\ server[i] = "ack"
    /\ down' = SendDown(down, T(i), Ok)
    /\ armed' = armed \ {FarEnd(T(i))}
    /\ ServerGoes(i, "relay")
    /\ UNCHANGED <<near, far, up>>

(* The client engine has closed the tunnel meanwhile.                      *)
AckFails(i) ==
    /\ server[i] = "ack"
    /\ near[T(i)] = "closed"
    /\ CloseEnds({X(i)}, {T(i)})
    /\ ServerGoes(i, "over")

ServerCarry(i) ==
    /\ server[i] = "relay"
    /\ Carry(T(i), X(i))
    /\ ServerGoes(i, "relay")

ServerEnds(i) ==
    /\ server[i] = "relay"
    /\ CloseBoth(T(i), X(i))
    /\ ServerGoes(i, "over")

-----------------------------------------------------------------------------
(* The application.  It may send before it has been answered.              *)
AppSends ==
    /\ near[A] = "open"
    /\ \/ /\ sentUp = 0 /\ client = "parse" /\ up[A] = <<>>
          /\ up' = SendUp(up, A, Request(0))
          /\ UNCHANGED sentUp
       \/ /\ sentUp < MaxUp
          /\ client # "parse" \/ up[A] # <<>>
          /\ up' = SendUp(up, A, Byte(sentUp + 1))
          /\ sentUp' = sentUp + 1
    /\ UNCHANGED <<front, head, near, far, down, engines, sentDown, gotUp, gotDown>>

AppReads ==
    /\ near[A] # "closed"
    /\ down[A] # <<>>
    /\ gotDown' = Append(gotDown, Head(down[A]))
    /\ down' = [down EXCEPT ![A] = Tail(@)]
    /\ UNCHANGED <<front, head, near, far, up, engines, sentUp, sentDown, gotUp>>

AppHalfCloses ==
    /\ near[A] = "open"
    /\ near' = [near EXCEPT ![A] = "half"]
    /\ UNCHANGED <<front, head, far, up, down, engines, peers>>

AppCloses ==
    /\ near[A] # "closed"
    /\ CloseEnds({A}, {})
    /\ UNCHANGED <<front, head, client, try, served, taken, kept, server, peers>>

(* The target, as reached by try i.                                        *)
TargetSends(i) ==
    /\ far[X(i)] = "open"
    /\ sentDown[i] < MaxDown
    /\ sentDown' = [sentDown EXCEPT ![i] = @ + 1]
    /\ down' = SendDown(down, X(i), Byte(sentDown[i] + 1))
    /\ UNCHANGED <<front, head, near, far, up, engines, sentUp, gotUp, gotDown>>

TargetReads(i) ==
    /\ far[X(i)] = "open"
    /\ up[X(i)] # <<>>
    /\ gotUp' = [gotUp EXCEPT ![i] = Append(@, Head(up[X(i)]))]
    /\ up' = [up EXCEPT ![X(i)] = Tail(@)]
    /\ UNCHANGED <<front, head, near, far, down, engines, sentUp, sentDown, gotDown>>

TargetCloses(i) ==
    /\ far[X(i)] = "open"
    /\ CloseEnds({}, {X(i)})
    /\ UNCHANGED <<front, head, client, try, served, taken, kept, server, peers>>

-----------------------------------------------------------------------------
ClientNext ==
    \/ Parse \/ ParseFails \/ Dial \/ DialFails \/ Acked \/ NotAcked \/ GiveUp
    \/ Reply \/ ReplyFails \/ ClientCarry \/ ClientEnds

ServerNext(i) ==
    \/ ReadHeader(i) \/ ReadHeaderFails(i) \/ DialTarget(i) \/ DialTargetFails(i)
    \/ Ack(i) \/ AckFails(i) \/ ServerCarry(i) \/ ServerEnds(i)

Next ==
    \/ ClientNext
    \/ Collect
    \/ \E i \in Tries : ServerNext(i)
    \/ AppSends \/ AppReads \/ AppHalfCloses \/ AppCloses
    \/ \E i \in Tries : TargetSends(i) \/ TargetReads(i) \/ TargetCloses(i)

(* Goroutines go on, deadlines expire, application and target read what    *)
(* arrives; nobody has to send or to close.  A relay that is not at its    *)
(* end has nothing to do until something arrives.  All of it is finite, so *)
(* it suffices that one of the engines goes on as long as any can.         *)
Fairness ==
    /\ WF_vars(ClientNext \/ \E i \in Tries : ServerNext(i))
    /\ WF_vars(AppReads \/ \E i \in Tries : TargetReads(i))
    /\ WF_vars(Collect)

Spec == Init /\ [][Next]_vars
FairSpec == Spec /\ Fairness

-----------------------------------------------------------------------------
Stream(n) == [k \in 1 .. n |-> Byte(k)]
Bytes(s) == {s[k] : k \in DOMAIN s}

Established == client \in {"relay", "over"}

(* What the target is to see: a plain HTTP request as it was read, and the *)
(* bytes behind what was taken from A together with the request.  Before   *)
(* it are the head of a CONNECT request, and what came so close behind a   *)
(* SOCKS5 request that it was buffered with it, which is lost.             *)
Offered ==
    IF ~Established THEN <<>>
    ELSE (IF front = "plain" THEN <<Request(kept)>> ELSE <<>>)
         \o SubSeq(Stream(sentUp), taken + 1, sentUp)

(* What the application is to see: the answer to its request first, which  *)
(* a plain HTTP request gets from the target.                              *)
Answered ==
    IF client = "failed" THEN <<Refused>>
    ELSE IF ~Established THEN <<>>
    ELSE (IF front = "plain" THEN <<>> ELSE <<Ok>>) \o Stream(sentDown[served])

UpPipe == INSTANCE Pipe WITH
    Item <- Msg,
    sent <- Offered,
    got  <- IF Established THEN gotUp[served] ELSE <<>>

DownPipe == INSTANCE Pipe WITH
    Item <- Msg,
    sent <- Answered,
    got  <- gotDown

(* Once the tunnel is there, the target reads what the application sent    *)
(* from where the front end stopped reading, in order, nothing twice and   *)
(* nothing left out, over however many tries the tunnel was set up; the    *)
(* request of plain HTTP is the first of it.  Where the front end stops,   *)
(* the code decides: behind what it had buffered of SOCKS5, whose bytes    *)
(* there are lost, and behind the head of HTTP or, after a read that       *)
(* failed, amid it, with a line begun there lost.  The application reads   *)
(* the answer to its request and then what the target of the acknowledged  *)
(* try sent, in order.                                                     *)
IsTwoPipes == UpPipe!Spec /\ DownPipe!Spec

(* A retry repeats the dial and the header, never the application's data:  *)
(* the target of a try that was given up gets none of it, also when its    *)
(* server is late and finds out only afterwards.                           *)
OneTarget == \A i \in Tries \ {served} : gotUp[i] = <<>>

(* A tunnel counts as acknowledged only when its target was reached.       *)
ServedIsConnected == served # 0 => far[X(served)] # "none"

(* Engines close an acknowledged connection only after the application or  *)
(* the target has: no deadline of the setting up is left behind.           *)
ClosedWithReason ==
    /\ served # 0
    /\ \/ far[A] = "closed" \/ near[X(served)] = "closed"
       \/ near[T(served)] = "closed" \/ far[T(served)] = "closed"
    => near[A] \in Done \/ far[X(served)] \in Done

EnginesClosed ==
    /\ far[A] # "open"
    /\ \A i \in Tries : near[T(i)] # "open" /\ far[T(i)] # "open" /\ near[X(i)] # "open"

TargetGone == \E i \in Tries : i = served /\ far[X(i)] = "closed"

(* The end of one side spreads: once the application sends no more, or the *)
(* target has closed, every connection of every try is closed.             *)
CloseSpreads == near[A] \in Done \/ TargetGone ~> EnginesClosed

UploadSettles(n) ==
    served # 0 /\ near[A] # "closed" =>
        \/ Byte(n) \in Bytes(gotUp[served])
        \/ n \notin taken + 1 .. sentUp
        \/ far[X(served)] = "closed" \/ sentDown[served] > 0

DownloadSettles(n) ==
    served # 0 /\ near[A] = "open" =>
        \/ Byte(n) \in Bytes(gotDown)
        \/ sentDown[served] < n
        \/ gotUp[served] # Offered

(* What was sent before its sender closed arrives, although the relays     *)
(* then close both sides at once: the application's last bytes when it     *)
(* half-closes, unless the target is gone or is sending at the time; the   *)
(* target's last bytes when it closes, unless the application closes or    *)
(* sends what the target does not read.                                    *)
SentArrives ==
    Established ~> /\ \A n \in 1 .. MaxUp : UploadSettles(n)
                   /\ \A n \in 1 .. MaxDown : DownloadSettles(n)
=============================================================================
