------------------------- MODULE FileTransferProofs -------------------------
(***************************************************************************)
(* Theorems about FileTransfer, for any number of transfers, sizes and     *)
(* names: who owns the files of the directory, what they hold, and what    *)
(* the shared progress record says.                                        *)
(***************************************************************************)
EXTENDS FileTransfer, SequenceTheorems, TLAPS

-----------------------------------------------------------------------------
(* The types, in the detail the proofs need.                               *)
Item == [kind : {"block", "trailer"}, of : Transfer, nr : Int]
File == [owner : Transfer \cup {"none", "user"}, data : Seq(Item)]

Typed ==
    /\ claim \in [Transfer -> Nat]
    /\ given \in [Transfer -> BOOLEAN]
    /\ sender \in [Transfer -> {"idle"} \cup Sending \cup Finished]
    /\ sent \in [Transfer -> 0 .. Length]
    /\ link \in [Transfer -> {"none", "dialled", "open", "closed", "reset"}]
    /\ stream \in [Transfer -> Seq(Item)]
    /\ receiver \in [Transfer -> {"none", "gone"} \cup Receiving \cup Finished]
    /\ name \in [Transfer -> 0 .. MaxName]
    /\ got \in [Transfer -> Seq(Item)]
    /\ files \in [0 .. MaxName -> File]
    /\ lost \in [Transfer -> BOOLEAN]

(***************************************************************************)
(* One transfer.  What it writes to its connection is determined: blocks   *)
(* in order, then the trailer.  The receiver has read a beginning of it,   *)
(* and what is under way follows right after.                              *)
(***************************************************************************)
Wire(t, k) ==
    IF k <= Length THEN Block(t, k)
    ELSE [kind |-> "trailer", of |-> t, nr |-> IF given[t] THEN -1 ELSE Length]

Written(t) == sent[t] + (IF sender[t] = "COMPLETED" THEN 1 ELSE 0)

(* Where the sender is, the receiver can be.                               *)
Stages(t) ==
    /\ link[t] = "none" <=> receiver[t] = "none"
    /\ link[t] = "none" => sender[t] \in {"idle", "dial", "FAILED"}
    /\ link[t] = "dialled" => sender[t] = "header" /\ receiver[t] = "header"
    /\ link[t] = "open" => sender[t] = "stream"
    /\ link[t] # "none" => sender[t] \notin {"idle", "dial"}
    /\ sender[t] = "header" => link[t] \in {"dialled", "reset"}
    /\ receiver[t] \in {"gone"} \cup Finished => link[t] = "reset"
    /\ sender[t] \in {"idle", "dial", "header"} => sent[t] = 0
    /\ sender[t] = "COMPLETED" => sent[t] = Length

(* What has been read and what is still to be read.                        *)
InOrder(t) ==
    /\ \A k \in 1 .. Len(got[t]) : got[t][k] = Wire(t, k)
    /\ \A k \in 1 .. Len(stream[t]) : stream[t][k] = Wire(t, Len(got[t]) + k)
    /\ Len(got[t]) + Len(stream[t]) <= Written(t)
    /\ link[t] \in {"open", "closed"} => Len(got[t]) + Len(stream[t]) = Written(t)
    /\ link[t] \in {"none", "dialled", "reset"} => stream[t] = <<>>
    /\ receiver[t] \in {"none", "gone", "header", "create"} => got[t] = <<>>
    /\ Len(got[t]) <= claim[t]

(* Nothing of transfer t changes.                                          *)
Same(t) ==
    /\ claim'[t] = claim[t] /\ given'[t] = given[t]
    /\ sender'[t] = sender[t] /\ sent'[t] = sent[t]
    /\ link'[t] = link[t] /\ stream'[t] = stream[t]
    /\ receiver'[t] = receiver[t] /\ name'[t] = name[t] /\ got'[t] = got[t]
    /\ lost'[t] = lost[t]

(***************************************************************************)
(* The directory and the progress record, which all transfers share.       *)
(***************************************************************************)
OwnsWhatItHolds ==
    \A t \in Transfer : Holds(t) => files[name[t]].owner = t

HoldsWhatItGot ==
    \A t \in Transfer : Holds(t) /\ ~lost[t] => files[name[t]].data = got[t]

(* Whoever wrote TRANSFERRING last is still at it.                         *)
ReporterAtWork ==
    progress.status = "TRANSFERRING" =>
        \E t \in Transfer :
            /\ progress.of = t
            /\ \/ progress.direction = "SEND" /\ sender[t] \in Sending
               \/ progress.direction = "RECEIVE" /\ receiver[t] = "body"

(* The announced size is one of those a header may hold, for good.         *)
Announced == claim \in [Transfer -> Claim]

FInv ==
    /\ Typed /\ Announced
    /\ \A t \in Transfer : Stages(t) /\ InOrder(t)
    /\ OwnsWhatItHolds /\ HoldsWhatItGot
    /\ ReporterAtWork

-----------------------------------------------------------------------------
(* Sequences: what reading the first item leaves, and what adding one at   *)
(* the end gives.                                                          *)
LEMMA TakeFirst ==
    ASSUME NEW s \in Seq(Item), s # <<>>
    PROVE  /\ Head(s) \in Item /\ Head(s) = s[1]
           /\ Tail(s) \in Seq(Item)
           /\ Len(s) \in Nat \ {0}
           /\ Len(Tail(s)) = Len(s) - 1
           /\ \A k \in 1 .. Len(Tail(s)) : Tail(s)[k] = s[k + 1]
<1>1. Len(s) \in Nat \ {0}
  BY EmptySeq
<1> QED
  BY <1>1, HeadTailProperties

LEMMA AddLast ==
    ASSUME NEW s \in Seq(Item), NEW x \in Item
    PROVE  /\ Append(s, x) \in Seq(Item)
           /\ Len(Append(s, x)) = Len(s) + 1
           /\ \A k \in 1 .. Len(s) : Append(s, x)[k] = s[k]
           /\ Append(s, x)[Len(s) + 1] = x
BY AppendProperties

LEMMA NoItems == <<>> \in Seq(Item) /\ Len(<<>>) = 0
BY EmptySeq

(* Part of a sum of lengths.                                               *)
LEMMA Summand == \A a, b, c \in Nat : a + b <= c => a <= c /\ b <= c
BY SMT

LEMMA BelowBoth == \A a, b, c \in Nat : a <= b /\ b <= c => a <= c
BY SMT

(* Moving one item from one sequence to the other.                         *)
LEMMA SumStays == \A a, b \in Nat : b # 0 => (a + 1) + (b - 1) = a + b
BY SMT

LEMMA WireTyped == ASSUME NEW t \in Transfer, NEW k \in Nat PROVE Wire(t, k) \in Item
BY TransferAssumption DEF Wire, Block, Item

-----------------------------------------------------------------------------
(* A step of one transfer leaves the others alone.                         *)
Step(u) == SendNext(u) \/ Reset(u) \/ ReceiveNext(u)

LEMMA StepIsLocal ==
    ASSUME Typed, NEW u \in Transfer, Step(u), NEW t \in Transfer \ {u}
    PROVE  Same(t)
<1> USE DEF Typed, Same, senderVars, linkVars, receiverVars
<1>1. CASE Begin(u) \/ Connect(u) \/ CannotConnect(u) \/ SendHeader(u) \/ SendFails(u)
  BY <1>1 DEF Begin, Connect, CannotConnect, SendHeader, SendFails
<1>2. CASE SendBlock(u) \/ SendTrailer(u)
  BY <1>2 DEF SendBlock, SendTrailer, Write
<1>3. CASE Reset(u)
  BY <1>3 DEF Reset
<1>4. CASE ReadHeader(u) \/ NoHeader(u) \/ NameTaken(u) \/ Create(u) \/ CannotCreate(u)
  BY <1>4 DEF ReadHeader, NoHeader, NameTaken, Create, CannotCreate, Return
<1>5. CASE CopyBlock(u)
  BY <1>5 DEF CopyBlock, Store
<1>6. CASE CheckTrailer(u) \/ NoTrailer(u)
  BY <1>6 DEF CheckTrailer, NoTrailer, Return
<1> QED
  BY <1>1, <1>2, <1>3, <1>4, <1>5, <1>6 DEF Step, SendNext, ReceiveNext

LEMMA SameKeeps ==
    ASSUME NEW t \in Transfer, Same(t), Stages(t), InOrder(t)
    PROVE  Stages(t)' /\ InOrder(t)'
<1>1. Stages(t)'
  BY DEF Same, Stages
<1>2. InOrder(t)'
  <2>1. Written(t)' = Written(t) /\ \A k \in Nat : Wire(t, k)' = Wire(t, k)
    BY DEF Same, Written, Wire, Block
  <2> QED
    BY <2>1 DEF Same, InOrder, Wire, Block
<1> QED
  BY <1>1, <1>2

-----------------------------------------------------------------------------
(* The sender's steps, seen from its own transfer.                         *)

(* What a sender writes next is what comes next on the wire.               *)
LEMMA WriteInOrder ==
    ASSUME Typed, NEW u \in Transfer, Stages(u), InOrder(u),
           sender[u] = "stream", Write(u, Wire(u, sent[u] + 1)),
           UNCHANGED <<claim, given, got>>,
           Written(u)' = Written(u) + 1,
           link'[u] = link[u] \/ (link[u] = "open" /\ link'[u] = "closed"),
           receiver' = receiver
    PROVE  stream' \in [Transfer -> Seq(Item)] /\ InOrder(u)'
<1> DEFINE s == stream[u]
           g == Len(got[u])
           x == Wire(u, sent[u] + 1)
<1>0. s \in Seq(Item) /\ x \in Item
  <2>1. sent[u] + 1 \in Nat
    BY TransferAssumption DEF Typed
  <2> QED
    BY <2>1, WireTyped DEF Typed
<1>1. Len(s) \in Nat /\ g \in Nat /\ sent[u] \in Nat /\ Written(u) = sent[u]
  BY TransferAssumption, LenProperties DEF Typed, Written
<1>2. \A k \in Nat : Wire(u, k)' = Wire(u, k)
  BY DEF Wire, Block
<1>3. CASE link[u] = "open"
  <2>1. stream' = [stream EXCEPT ![u] = Append(s, x)]
    BY <1>3 DEF Write
  <2>2. /\ Append(s, x) \in Seq(Item)
        /\ Len(Append(s, x)) = Len(s) + 1
        /\ \A k \in 1 .. Len(s) : Append(s, x)[k] = s[k]
        /\ Append(s, x)[Len(s) + 1] = x
    BY <1>0, AddLast
  <2>3. stream' \in [Transfer -> Seq(Item)] /\ stream'[u] = Append(s, x)
    BY <2>1, <2>2 DEF Typed
  <2>4. /\ g + Len(s) = sent[u] /\ link'[u] \in {"open", "closed"}
        /\ \A k \in 1 .. Len(s) : s[k] = Wire(u, g + k)
        /\ \A k \in 1 .. g : got[u][k] = Wire(u, k)
        /\ g <= claim[u]
    BY <1>1, <1>3 DEF InOrder
  <2>5. receiver[u] \in {"none", "gone", "header", "create"} => got[u] = <<>>
    BY DEF InOrder
  <2> HIDE DEF s, g
  <2>6. ASSUME NEW k \in 1 .. Len(s) + 1
        PROVE  Append(s, x)[k] = Wire(u, g + k)
    <3>1. CASE k \in 1 .. Len(s)
      BY <2>2, <2>4, <3>1
    <3>2. CASE k = Len(s) + 1
      BY <1>1, <2>2, <2>4, <3>2
    <3> QED
      BY <1>1, <3>1, <3>2
  <2> HIDE DEF x
  <2>7. /\ got'[u] = got[u] /\ Len(got'[u]) = g /\ Len(stream'[u]) = Len(s) + 1
        /\ receiver'[u] = receiver[u] /\ claim'[u] = claim[u]
    BY <2>2, <2>3 DEF g
  <2>8. ASSUME NEW k \in 1 .. Len(stream'[u])
        PROVE  stream'[u][k] = Wire(u, Len(got[u]) + k)'
    <3>1. k \in 1 .. Len(s) + 1 /\ g + k \in Nat
      BY <1>1, <2>7
    <3>2. stream'[u][k] = Wire(u, g + k)
      BY <2>3, <2>6, <3>1
    <3> QED
      BY <2>7, <3>2 DEF Wire, Block
  <2>9. ASSUME NEW k \in 1 .. Len(got'[u])
        PROVE  got'[u][k] = Wire(u, k)'
    BY <2>4, <2>7 DEF Wire, Block
  <2>10. Len(got'[u]) + Len(stream'[u]) = Written(u)' /\ Written(u)' \in Nat
    <3>1. Len(got'[u]) + Len(stream'[u]) = sent[u] + 1
      BY <1>1, <2>4, <2>7
    <3>2. Written(u)' = sent[u] + 1
      BY <1>1
    <3> QED
      BY <1>1, <2>7, <3>1, <3>2
  <2> QED
    BY <2>3, <2>4, <2>5, <2>7, <2>8, <2>9, <2>10 DEF InOrder
<1>4. CASE link[u] # "open"
  <2>1. stream' = stream /\ link[u] = "reset" /\ link'[u] = "reset"
    BY <1>4 DEF Write
  <2> QED
    BY <1>1, <1>2, <2>1 DEF InOrder, Typed
<1> QED
  BY <1>3, <1>4

LEMMA SenderKeeps ==
    ASSUME Typed, NEW u \in Transfer, Stages(u), InOrder(u), SendNext(u) \/ Reset(u)
    PROVE  Typed' /\ Stages(u)' /\ InOrder(u)'
<1> USE TransferAssumption, NoItems
<1> USE DEF Sending, Receiving
<1>1. CASE Begin(u) \/ Connect(u) \/ SendHeader(u)
  <2>1. /\ UNCHANGED <<claim, given, sent, stream, name, got, files, lost>>
        /\ sender' \in [Transfer -> {"idle"} \cup Sending \cup Finished]
        /\ link' \in [Transfer -> {"none", "dialled", "open", "closed", "reset"}]
        /\ receiver' \in [Transfer -> {"none", "gone"} \cup Receiving \cup Finished]
    BY <1>1 DEF Begin, Connect, SendHeader, Typed, linkVars, receiverVars
  <2>2. Typed'
    BY <2>1 DEF Typed
  <2>3. /\ sender[u] \in {"idle", "dial", "header"} /\ sender'[u] \in {"dial", "header", "stream"}
        /\ \/ link'[u] = link[u] /\ receiver'[u] = receiver[u]
           \/ /\ link[u] \in {"none", "dialled"} /\ got[u] = <<>> /\ stream[u] = <<>>
              /\ sent[u] = 0 /\ link'[u] \in {"dialled", "open"}
              /\ receiver'[u] = "header"
    BY <1>1 DEF Begin, Connect, SendHeader, Typed, linkVars, receiverVars, InOrder, Stages
  <2>4. Stages(u)'
    BY <1>1, <2>1 DEF Begin, Connect, SendHeader, Stages, Typed, linkVars, receiverVars,
                      Finished
  <2>5. Written(u)' = Written(u) /\ Written(u) = sent[u]
    <3>1. sent[u] \in Nat
      BY DEF Typed
    <3> QED
      BY <2>1, <2>3, <3>1 DEF Written
  <2>6. InOrder(u)'
    BY <2>1, <2>3, <2>5 DEF InOrder, Typed, Wire, Block
  <2> QED
    BY <2>2, <2>4, <2>6
<1>2. CASE CannotConnect(u)
  BY <1>2 DEF CannotConnect, Typed, Stages, InOrder, Wire, Written, Finished, Block,
              linkVars, receiverVars
<1>3. CASE SendBlock(u)
  <2>1. /\ sender[u] = "stream" /\ sent[u] < Length /\ sent[u] \in Nat
        /\ sent' = [sent EXCEPT ![u] = @ + 1] /\ sender' = sender
        /\ UNCHANGED <<claim, given, link, receiver, name, got, files, lost>>
    BY <1>3 DEF SendBlock, receiverVars, Typed
  <2>2. Write(u, Wire(u, sent[u] + 1))
    <3>1. Wire(u, sent[u] + 1) = Block(u, sent[u] + 1)
      BY <2>1 DEF Wire
    <3> QED
      BY <1>3, <3>1 DEF SendBlock
  <2>3. Written(u)' = Written(u) + 1
    BY <2>1 DEF Written, Typed
  <2>4. stream' \in [Transfer -> Seq(Item)] /\ InOrder(u)'
    BY <2>1, <2>2, <2>3, WriteInOrder
  <2>5. sent[u] + 1 \in 0 .. Length /\ sent' \in [Transfer -> 0 .. Length]
    BY <2>1 DEF Typed
  <2>6. Typed'
    BY <2>1, <2>4, <2>5 DEF Typed
  <2>7. Stages(u)'
    BY <2>1 DEF Typed, Stages
  <2> QED
    BY <2>4, <2>6, <2>7
<1>4. CASE SendTrailer(u)
  <2>1. /\ sender[u] = "stream" /\ sent[u] = Length /\ sent[u] \in Nat
        /\ sender' = [sender EXCEPT ![u] = "COMPLETED"]
        /\ link' = [link EXCEPT ![u] = IF @ = "open" THEN "closed" ELSE @]
        /\ UNCHANGED <<claim, given, sent, receiver, name, got, files, lost>>
    BY <1>4 DEF SendTrailer, receiverVars, Typed
  <2>2. Write(u, Wire(u, sent[u] + 1))
    <3>1. Wire(u, sent[u] + 1) = Trailer(u)
      BY <2>1 DEF Wire, Trailer
    <3> QED
      BY <1>4, <3>1 DEF SendTrailer
  <2>3. Written(u)' = Written(u) + 1
    BY <2>1 DEF Written, Typed
  <2>4. stream' \in [Transfer -> Seq(Item)] /\ InOrder(u)'
    BY <2>1, <2>2, <2>3, WriteInOrder DEF Typed
  <2> QED
    BY <2>1, <2>4 DEF Typed, Stages, Finished
<1>5. CASE SendFails(u)
  BY <1>5 DEF SendFails, Typed, Stages, InOrder, Wire, Written, Finished, receiverVars, Block
<1>6. CASE Reset(u)
  BY <1>6 DEF Reset, Typed, Stages, InOrder, Wire, Written, Finished, senderVars,
              receiverVars, Block
<1> QED
  BY <1>1, <1>2, <1>3, <1>4, <1>5, <1>6 DEF SendNext

-----------------------------------------------------------------------------
(* The receiver's steps, seen from its own transfer.                       *)

(* Reading moves the first item under way to the end of what was read.     *)
LEMMA CopyInOrder ==
    ASSUME Typed, NEW u \in Transfer, Stages(u), InOrder(u), CopyBlock(u)
    PROVE  /\ stream' \in [Transfer -> Seq(Item)]
           /\ got' \in [Transfer -> Seq(Item)]
           /\ got'[u] = Append(got[u], Head(stream[u]))
           /\ InOrder(u)'
<1> DEFINE s == stream[u]
           r == got[u]
<1>1. /\ receiver[u] = "body" /\ Len(r) < claim[u] /\ s # <<>>
      /\ got' = [got EXCEPT ![u] = Append(r, Head(s))]
      /\ stream' = [stream EXCEPT ![u] = Tail(s)]
      /\ UNCHANGED <<claim, given, sender, sent, link, receiver>>
  BY DEF CopyBlock, WithinLimit, senderVars
<1>2. s \in Seq(Item) /\ r \in Seq(Item)
  BY DEF Typed
<1>3. /\ Head(s) \in Item /\ Head(s) = s[1]
      /\ Tail(s) \in Seq(Item)
      /\ Len(s) \in Nat \ {0}
      /\ Len(Tail(s)) = Len(s) - 1
      /\ \A k \in 1 .. Len(Tail(s)) : Tail(s)[k] = s[k + 1]
  BY <1>1, <1>2, TakeFirst
<1>4. /\ Append(r, Head(s)) \in Seq(Item)
      /\ Len(Append(r, Head(s))) = Len(r) + 1
      /\ \A k \in 1 .. Len(r) : Append(r, Head(s))[k] = r[k]
      /\ Append(r, Head(s))[Len(r) + 1] = Head(s)
  BY <1>2, <1>3, AddLast
<1>5. Len(r) \in Nat /\ Written(u) \in Nat /\ claim[u] \in Nat
  BY <1>2, LenProperties, TransferAssumption DEF Written, Typed
<1>6. /\ got'[u] = Append(r, Head(s)) /\ got' \in [Transfer -> Seq(Item)]
      /\ stream'[u] = Tail(s) /\ stream' \in [Transfer -> Seq(Item)]
  BY <1>1, <1>3, <1>4 DEF Typed
<1>7. /\ \A k \in 1 .. Len(r) : r[k] = Wire(u, k)
      /\ \A k \in 1 .. Len(s) : s[k] = Wire(u, Len(r) + k)
      /\ Len(r) + Len(s) <= Written(u)
      /\ link[u] \in {"open", "closed"} => Len(r) + Len(s) = Written(u)
      /\ link[u] \notin {"none", "dialled", "reset"}
  BY <1>1 DEF InOrder
<1>8. Written(u)' = Written(u)
  BY <1>1 DEF Written
<1> HIDE DEF s, r
<1>9. Len(got'[u]) = Len(r) + 1 /\ Len(stream'[u]) = Len(s) - 1
  BY <1>3, <1>4, <1>6
<1>10. ASSUME NEW k \in 1 .. Len(r) + 1
       PROVE  got'[u][k] = Wire(u, k)
  <2>1. CASE k \in 1 .. Len(r)
    BY <1>4, <1>6, <1>7, <2>1
  <2>2. CASE k = Len(r) + 1
    <3>1. Head(s) = Wire(u, Len(r) + 1)
      BY <1>3, <1>7
    <3> QED
      BY <1>4, <1>6, <2>2, <3>1
  <2> QED
    BY <1>5, <2>1, <2>2
<1>11. ASSUME NEW k \in 1 .. Len(s) - 1
       PROVE  stream'[u][k] = Wire(u, (Len(r) + 1) + k)
  <2>1. k + 1 \in 1 .. Len(s) /\ k \in 1 .. Len(Tail(s)) /\ Len(r) + (k + 1) = (Len(r) + 1) + k
    BY <1>3, <1>5
  <2> QED
    BY <1>3, <1>6, <1>7, <2>1
<1>12. \A k \in 1 .. Len(got'[u]) : got'[u][k] = Wire(u, k)'
  BY <1>1, <1>9, <1>10 DEF Wire, Block
<1>13. \A k \in 1 .. Len(stream'[u]) : stream'[u][k] = Wire(u, Len(got[u]) + k)'
  BY <1>1, <1>9, <1>11 DEF Wire, Block
<1>14. Len(got'[u]) + Len(stream'[u]) = Len(r) + Len(s) /\ Len(got'[u]) <= claim'[u]
  <2>1. Len(got'[u]) + Len(stream'[u]) = Len(r) + Len(s)
    BY <1>3, <1>5, <1>9, SumStays
  <2>2. Len(r) < claim[u] /\ claim' = claim
    BY <1>1
  <2>3. Len(r) + 1 <= claim[u]
    BY <1>5, <2>2
  <2> QED
    BY <1>9, <2>1, <2>2, <2>3
<1>15. /\ link'[u] \in {"open", "closed"} => Len(got'[u]) + Len(stream'[u]) = Written(u)'
       /\ Len(got'[u]) + Len(stream'[u]) <= Written(u)'
       /\ link'[u] \notin {"none", "dialled", "reset"} /\ receiver'[u] = "body"
  BY <1>1, <1>3, <1>5, <1>7, <1>8, <1>14
<1>16. InOrder(u)'
  BY <1>12, <1>13, <1>14, <1>15 DEF InOrder
<1> QED
  BY <1>6, <1>16 DEF s, r

LEMMA ReceiverKeeps ==
    ASSUME Typed, NEW u \in Transfer, Stages(u), InOrder(u), ReceiveNext(u)
    PROVE  Typed' /\ Stages(u)' /\ InOrder(u)'
<1> USE TransferAssumption, NoItems
<1> USE DEF Sending, Receiving
<1>0. CASE ReadHeader(u)
  <2>1. /\ receiver[u] = "header" /\ link[u] \in {"open", "closed"}
        /\ receiver' = [receiver EXCEPT ![u] = "create"]
        /\ UNCHANGED <<claim, given, sender, sent, link, stream, name, got, files, lost>>
    BY <1>0 DEF ReadHeader, senderVars, linkVars
  <2>2. Typed' /\ Stages(u)'
    BY <2>1 DEF Typed, Stages, Finished
  <2>3. Written(u)' = Written(u)
    BY <2>1 DEF Written
  <2>4. InOrder(u)'
    BY <2>1, <2>3 DEF InOrder, Typed, Wire, Block
  <2> QED
    BY <2>2, <2>4
<1>1. CASE NameTaken(u)
  <2>1. name' \in [Transfer -> 0 .. MaxName]
    BY <1>1 DEF NameTaken, Typed
  <2>2. UNCHANGED <<claim, given, sender, sent, link, stream, receiver, got, files, lost>>
    BY <1>1 DEF NameTaken, senderVars, linkVars
  <2>3. Typed'
    BY <2>1, <2>2 DEF Typed
  <2> QED
    BY <2>2, <2>3 DEF Stages, InOrder, Wire, Written, Block
<1>2. CASE Create(u)
  <2>1. [owner |-> u, data |-> <<>>] \in File
    BY DEF File
  <2>2. files' \in [0 .. MaxName -> File] /\ receiver' = [receiver EXCEPT ![u] = "body"]
    BY <1>2, <2>1 DEF Create, Typed
  <2> QED
    BY <1>2, <2>2 DEF Create, Typed, Stages, InOrder, Wire, Written, Block, Finished,
                      senderVars, linkVars
(* A receiver that returns has closed the connection.                      *)
<1>3. ASSUME NEW s \in {"gone"} \cup Finished, receiver[u] \in Receiving,
             receiver' = [receiver EXCEPT ![u] = s],
             link' = [link EXCEPT ![u] = "reset"],
             stream' = [stream EXCEPT ![u] = <<>>],
             s = "gone" => receiver[u] = "header",
             UNCHANGED <<senderVars, name, got, lost>>, files' \in [0 .. MaxName -> File]
      PROVE  Typed' /\ Stages(u)' /\ InOrder(u)'
  <2>1. UNCHANGED <<claim, given, sender, sent, name, got, lost>>
    BY <1>3 DEF senderVars
  <2>2. Typed'
    BY <1>3, <2>1 DEF Typed
  <2>3. Stages(u)'
    BY <1>3, <2>1 DEF Typed, Stages, Finished
  <2>4. Len(got[u]) \in Nat /\ Len(stream[u]) \in Nat /\ Written(u) \in Nat
    BY LenProperties DEF Typed, Written
  <2>5. Written(u)' = Written(u) /\ Len(got[u]) <= Written(u)
    <3>1. Len(got[u]) + Len(stream[u]) <= Written(u)
      BY DEF InOrder
    <3>2. Len(got[u]) <= Written(u)
      BY <2>4, <3>1, Summand
    <3>3. Written(u)' = Written(u)
      BY <2>1 DEF Written
    <3> QED
      BY <3>2, <3>3
  <2>6. InOrder(u)'
    BY <1>3, <2>1, <2>4, <2>5 DEF Typed, InOrder, Wire, Block, Finished
  <2> QED
    BY <2>2, <2>3, <2>6
<1>4. CASE NoHeader(u) \/ CannotCreate(u)
  <2>1. /\ receiver[u] \in Receiving /\ UNCHANGED <<senderVars, name, got, files, lost>>
        /\ link' = [link EXCEPT ![u] = "reset"]
        /\ stream' = [stream EXCEPT ![u] = <<>>]
        /\ \/ receiver[u] = "header" /\ receiver' = [receiver EXCEPT ![u] = "gone"]
           \/ receiver' = [receiver EXCEPT ![u] = "FAILED"]
    BY <1>4 DEF NoHeader, CannotCreate, Return
  <2>2. files' \in [0 .. MaxName -> File]
    BY <2>1 DEF Typed
  <2>3. CASE receiver[u] = "header" /\ receiver' = [receiver EXCEPT ![u] = "gone"]
    BY <1>3, <2>1, <2>2, <2>3
  <2>4. CASE receiver' = [receiver EXCEPT ![u] = "FAILED"]
    BY <1>3, <2>1, <2>2, <2>4 DEF Finished
  <2> QED
    BY <2>1, <2>3, <2>4
<1>5. CASE CopyBlock(u)
  <2>1. /\ stream' \in [Transfer -> Seq(Item)] /\ got' \in [Transfer -> Seq(Item)]
        /\ InOrder(u)'
    BY <1>5, CopyInOrder
  <2>2. /\ stream[u] # <<>> /\ UNCHANGED <<claim, given, sender, sent, link, receiver, name>>
        /\ \/ /\ files' = [files EXCEPT ![name[u]].data = Append(@, Head(stream[u]))]
              /\ lost' = lost
           \/ files' = files /\ lost' = [lost EXCEPT ![u] = TRUE]
    BY <1>5 DEF CopyBlock, Store, senderVars
  <2>3. Append(files[name[u]].data, Head(stream[u])) \in Seq(Item)
    BY <2>2, TakeFirst, AddLast DEF Typed, File
  <2>4. files' \in [0 .. MaxName -> File]
    <3>1. files[name[u]] \in File
      BY DEF Typed
    <3>2. [files[name[u]] EXCEPT !.data = Append(@, Head(stream[u]))] \in File
      BY <2>3, <3>1 DEF File
    <3> QED
      BY <2>2, <3>2 DEF Typed
  <2>5. lost' \in [Transfer -> BOOLEAN]
    BY <2>2 DEF Typed
  <2>6. Typed'
    BY <2>1, <2>2, <2>4, <2>5 DEF Typed
  <2> QED
    BY <2>1, <2>2, <2>6 DEF Stages
<1>6. CASE CheckTrailer(u)
  <2>1. NoFile \in File
    BY DEF NoFile, File
  <2>2. files' \in [0 .. MaxName -> File]
    BY <1>6, <2>1 DEF CheckTrailer, RemoveFile, Typed
  <2>3. PICK s \in Finished : Return(u, s)
    BY <1>6 DEF CheckTrailer, Finished
  <2> QED
    BY <1>3, <1>6, <2>2, <2>3 DEF CheckTrailer, Return, Finished
<1>7. CASE NoTrailer(u)
  BY <1>3, <1>7 DEF NoTrailer, Return, Finished, Typed
<1> QED
  BY <1>0, <1>1, <1>2, <1>4, <1>5, <1>6, <1>7 DEF ReceiveNext

-----------------------------------------------------------------------------
(* The directory.  Whoever holds a file is its owner, so that no two hold  *)
(* the same, and a name that is free is nobody's.                          *)
LEMMA HeldApart ==
    ASSUME OwnsWhatItHolds, NEW t \in Transfer, Holds(t)
    PROVE  /\ files[name[t]].owner = t /\ files[name[t]] # NoFile
           /\ \A u \in Transfer \ {t} : Holds(u) => name[u] # name[t]
<1>1. files[name[t]].owner = t /\ t # "none"
  BY TransferAssumption DEF OwnsWhatItHolds
<1> QED
  BY <1>1 DEF NoFile, OwnsWhatItHolds

LEMMA DirectoryKeeps ==
    ASSUME Typed, OwnsWhatItHolds, HoldsWhatItGot,
           NEW u \in Transfer, Step(u), Stages(u), InOrder(u)
    PROVE  OwnsWhatItHolds' /\ HoldsWhatItGot'
<1> USE DEF Typed
(* It is enough that what the others hold is not touched.                  *)
<1>0. ASSUME \A t \in Transfer \ {u} : Holds(t) => files'[name[t]] = files[name[t]],
             Holds(u)' => files'[name'[u]].owner = u,
             Holds(u)' /\ ~lost'[u] => files'[name'[u]].data = got'[u]
      PROVE  OwnsWhatItHolds' /\ HoldsWhatItGot'
  <2> SUFFICES ASSUME NEW t \in Transfer, Holds(t)'
               PROVE  /\ files'[name'[t]].owner = t
                      /\ ~lost'[t] => files'[name'[t]].data = got'[t]
    BY DEF OwnsWhatItHolds, HoldsWhatItGot
  <2>1. CASE t = u
    BY <1>0, <2>1
  <2>2. CASE t # u
    <3>1. Same(t)
      BY <2>2, StepIsLocal
    <3> QED
      BY <1>0, <2>2, <3>1 DEF Same, Holds, OwnsWhatItHolds, HoldsWhatItGot
  <2> QED
    BY <2>1, <2>2
<1>1. CASE SendNext(u) \/ Reset(u) \/ ReadHeader(u) \/ NoHeader(u)
  <2>1. /\ UNCHANGED <<name, got, files, lost>>
        /\ receiver' = receiver \/ receiver'[u] \in {"header", "create", "gone"}
    BY <1>1 DEF SendNext, Begin, Connect, CannotConnect, SendHeader, SendBlock, SendTrailer,
                SendFails, Reset, ReadHeader, NoHeader, receiverVars, linkVars
  <2> QED
    BY <1>0, <2>1 DEF Holds, OwnsWhatItHolds, HoldsWhatItGot
<1>2. CASE NameTaken(u)
  BY <1>0, <1>2 DEF NameTaken, Holds
<1>3. CASE Create(u)
  <2>1. /\ files[name[u]] = NoFile /\ name' = name /\ got' = got /\ got[u] = <<>>
        /\ files' = [files EXCEPT ![name[u]] = [owner |-> u, data |-> <<>>]]
    BY <1>3 DEF Create, Taken, InOrder
  <2>2. \A t \in Transfer \ {u} : Holds(t) => name[t] # name[u]
    BY <2>1, HeldApart
  <2> QED
    BY <1>0, <2>1, <2>2
<1>4. CASE CannotCreate(u)
  BY <1>0, <1>4 DEF CannotCreate, Return, Holds
<1>5. CASE CopyBlock(u)
  <2>1. /\ Holds(u) /\ name' = name
        /\ got'[u] = Append(got[u], Head(stream[u]))
        /\ Store(u, Head(stream[u]))
    BY <1>5 DEF CopyBlock, Holds
  <2>2. files[name[u]].owner = u /\ files[name[u]] \in File /\ name[u] \in DOMAIN files
    BY <2>1 DEF OwnsWhatItHolds
  <2>3. CASE lost' = lost /\ files' = [files EXCEPT ![name[u]].data = Append(@, Head(stream[u]))]
    <3>1. files'[name[u]] = [files[name[u]] EXCEPT !.data = Append(@, Head(stream[u]))]
      BY <2>2, <2>3
    <3>2. /\ files'[name[u]].owner = u
          /\ files'[name[u]].data = Append(files[name[u]].data, Head(stream[u]))
      BY <2>2, <3>1 DEF File
    <3>3. ~lost'[u] => files'[name'[u]].data = got'[u]
      BY <2>1, <2>3, <3>2 DEF HoldsWhatItGot
    <3>4. \A t \in Transfer \ {u} : Holds(t) => name[t] # name[u]
      BY <2>1, HeldApart
    <3> QED
      BY <1>0, <2>1, <2>3, <3>2, <3>3, <3>4
  <2>4. CASE files' = files /\ lost' = [lost EXCEPT ![u] = TRUE]
    <3>1. lost'[u] = TRUE
      BY <2>4
    <3> QED
      BY <1>0, <2>1, <2>2, <2>4, <3>1
  <2> QED
    BY <2>1, <2>3, <2>4 DEF Store
<1>6. CASE CheckTrailer(u)
  <2>1. Holds(u) /\ name' = name /\ got' = got /\ lost' = lost
    BY <1>6 DEF CheckTrailer, Holds
  <2>2. CASE Return(u, "COMPLETED") /\ UNCHANGED files
    BY <1>0, <2>1, <2>2 DEF OwnsWhatItHolds, HoldsWhatItGot
  <2>3. CASE Return(u, "FAILED") /\ RemoveFile(u)
    <3>1. \A t \in Transfer \ {u} : Holds(t) => name[t] # name[u]
      BY <2>1, HeldApart
    <3>2. ~Holds(u)'
      BY <2>3 DEF Return, Holds
    <3> QED
      BY <1>0, <2>3, <3>1, <3>2 DEF RemoveFile
  <2> QED
    BY <1>6, <2>2, <2>3 DEF CheckTrailer
<1>7. CASE NoTrailer(u)
  <2>1. Holds(u) /\ name' = name /\ got' = got /\ files' = files /\ lost' = lost
    BY <1>7 DEF NoTrailer, Holds
  <2> QED
    BY <1>0, <2>1 DEF OwnsWhatItHolds, HoldsWhatItGot
<1> QED
  BY <1>1, <1>2, <1>3, <1>4, <1>5, <1>6, <1>7 DEF Step, ReceiveNext

(* The progress record: a goroutine that stops reports last.               *)
LEMMA ReporterKeeps ==
    ASSUME Typed, ReporterAtWork, NEW u \in Transfer, Step(u), Stages(u)
    PROVE  ReporterAtWork'
<1>1. CASE \/ NameTaken(u) \/ Reset(u) \/ Connect(u) \/ SendHeader(u)
           \/ ReadHeader(u) \/ NoHeader(u)
  <2>1. /\ progress' = progress
        /\ \A t \in Transfer : sender[t] \in Sending => sender'[t] \in Sending
        /\ \A t \in Transfer : receiver[t] = "body" => receiver'[t] = "body"
    <3>1. CASE NameTaken(u) \/ Reset(u)
      BY <3>1 DEF NameTaken, Reset, senderVars, receiverVars
    <3>2. CASE Connect(u)
      <4>1. receiver[u] # "body"
        BY <3>2 DEF Connect, Stages
      <4> QED
        BY <3>2, <4>1 DEF Connect, Typed, Sending
    <3>3. CASE SendHeader(u) \/ ReadHeader(u) \/ NoHeader(u)
      BY <3>3 DEF SendHeader, ReadHeader, NoHeader, Typed, Sending, senderVars, receiverVars
    <3> QED
      BY <1>1, <3>1, <3>2, <3>3
  <2> QED
    BY <2>1 DEF ReporterAtWork
<1>2. CASE Begin(u) \/ SendBlock(u)
  <2>1. Report(u, "SEND", "TRANSFERRING") /\ sender'[u] \in Sending
    BY <1>2 DEF Begin, SendBlock, Typed, Sending
  <2> QED
    BY <2>1 DEF Report, ReporterAtWork
<1>3. CASE Create(u) \/ CopyBlock(u)
  <2>1. Report(u, "RECEIVE", "TRANSFERRING") /\ receiver'[u] = "body"
    BY <1>3 DEF Create, CopyBlock, Typed
  <2> QED
    BY <2>1 DEF Report, ReporterAtWork
<1>4. CASE \/ CannotConnect(u) \/ SendTrailer(u) \/ SendFails(u)
           \/ CannotCreate(u) \/ CheckTrailer(u) \/ NoTrailer(u)
  <2>1. progress'.status # "TRANSFERRING"
    BY <1>4 DEF CannotConnect, SendTrailer, SendFails, CannotCreate, CheckTrailer,
                NoTrailer, Return, Report
  <2> QED
    BY <2>1 DEF ReporterAtWork
<1> QED
  BY <1>1, <1>2, <1>3, <1>4 DEF Step, SendNext, ReceiveNext

-----------------------------------------------------------------------------
(* FInv is inductive.                                                      *)
LEMMA TransferInitInv == Init => FInv
<1> SUFFICES ASSUME Init PROVE FInv
  OBVIOUS
<1> USE TransferAssumption, NoItems
<1>1. Typed
  <2>1. claim \in [Transfer -> Nat] /\ given \in [Transfer -> BOOLEAN]
    BY DEF Init
  <2>2. NoFile \in File /\ [owner |-> "user", data |-> <<>>] \in File
    BY DEF NoFile, File
  <2>3. files \in [0 .. MaxName -> File]
    BY <2>2 DEF Init
  <2>4. 0 \in 0 .. Length /\ 0 \in 0 .. MaxName
    OBVIOUS
  <2>5. stream \in [Transfer -> Seq(Item)] /\ got \in [Transfer -> Seq(Item)]
    BY DEF Init
  <2> QED
    BY <2>1, <2>3, <2>4, <2>5 DEF Init, Typed, Finished, Sending, Receiving
<1>2. ASSUME NEW t \in Transfer
      PROVE  Stages(t) /\ InOrder(t)
  <2>1. /\ claim[t] \in Nat /\ sender[t] = "idle" /\ sent[t] = 0 /\ link[t] = "none"
        /\ stream[t] = <<>> /\ receiver[t] = "none" /\ got[t] = <<>>
    BY DEF Init
  <2>2. Stages(t)
    BY <2>1 DEF Stages, Finished
  <2>3. Written(t) = 0
    BY <2>1 DEF Written
  <2> QED
    BY <2>1, <2>2, <2>3 DEF InOrder
<1>3. OwnsWhatItHolds /\ HoldsWhatItGot /\ ReporterAtWork
  BY DEF Init, OwnsWhatItHolds, HoldsWhatItGot, Holds, ReporterAtWork
<1>4. Announced
  BY DEF Init, Announced
<1> QED
  BY <1>1, <1>2, <1>3, <1>4 DEF FInv

LEMMA TransferNextInv == FInv /\ [Next]_vars => FInv'
<1> SUFFICES ASSUME FInv, [Next]_vars PROVE FInv'
  OBVIOUS
<1>1. ASSUME NEW u \in Transfer, Step(u)
      PROVE  FInv'
  <2>1. /\ Typed /\ Stages(u) /\ InOrder(u)
        /\ OwnsWhatItHolds /\ HoldsWhatItGot /\ ReporterAtWork
    BY DEF FInv
  <2>2. Typed' /\ Stages(u)' /\ InOrder(u)'
    BY <1>1, <2>1, SenderKeeps, ReceiverKeeps DEF Step
  <2>3. ASSUME NEW t \in Transfer \ {u}
        PROVE  Stages(t)' /\ InOrder(t)'
    BY <1>1, <2>1, StepIsLocal, SameKeeps DEF FInv
  <2>4. OwnsWhatItHolds' /\ HoldsWhatItGot' /\ ReporterAtWork'
    BY <1>1, <2>1, DirectoryKeeps, ReporterKeeps
  <2>5. claim' = claim
    BY <1>1 DEF Step, SendNext, ReceiveNext, Begin, Connect, CannotConnect, SendHeader,
                SendBlock, SendTrailer, SendFails, Reset, ReadHeader, NoHeader, NameTaken, Create, CannotCreate, CopyBlock, CheckTrailer,
                NoTrailer, senderVars
  <2>6. Announced'
    BY <2>5 DEF FInv, Announced
  <2> QED
    BY <2>2, <2>3, <2>4, <2>6 DEF FInv
<1>2. CASE UNCHANGED vars
  BY <1>2 DEF vars, senderVars, linkVars, receiverVars, FInv, Announced, Typed, Stages, InOrder,
              Wire, Written, Block, OwnsWhatItHolds, HoldsWhatItGot, Holds, ReporterAtWork
<1> QED
  BY <1>1, <1>2 DEF Next, Step

LEMMA TransferInv == Spec => []FInv
BY TransferInitInv, TransferNextInv, PTL DEF Spec

-----------------------------------------------------------------------------
(* Everything is of its type: in particular a receiver copies no more than *)
(* the header announced and a connection never holds more than the file    *)
(* and its trailer.                                                        *)
THEOREM TransferTypes == Spec => []TypeOK
<1>1. FInv => TypeOK
  <2> SUFFICES ASSUME FInv PROVE TypeOK
    OBVIOUS
  <2>1. Typed /\ Announced
    BY DEF FInv
  <2>2. ASSUME NEW t \in Transfer
        PROVE  Len(stream[t]) <= Length + 1 /\ Len(got[t]) <= claim[t]
    <3>1. InOrder(t) /\ Stages(t)
      BY DEF FInv
    <3>2. Len(got[t]) \in Nat /\ Len(stream[t]) \in Nat
      BY <2>1, LenProperties DEF Typed
    <3>3. Written(t) \in Nat /\ Written(t) <= Length + 1
      BY <2>1, TransferAssumption DEF Typed, Written
    <3>4. Len(got[t]) + Len(stream[t]) <= Written(t) /\ Len(got[t]) <= claim[t]
      BY <3>1 DEF InOrder
    <3>5. Len(stream[t]) <= Written(t)
      BY <3>2, <3>3, <3>4, Summand
    <3> QED
      BY <3>2, <3>3, <3>4, <3>5, TransferAssumption, BelowBoth
  <2>3. DOMAIN files = 0 .. MaxName
    BY <2>1 DEF Typed
  <2> QED
    BY <2>1, <2>2, <2>3 DEF TypeOK, Typed, Announced
<1> QED
  BY <1>1, TransferInv, PTL

(* createUniqueFile never hands out a name twice: whoever receives or has  *)
(* received a file is its only owner, for any number of receivers.         *)
THEOREM TransferOneOwner == Spec => []OneOwner
<1>1. FInv => OneOwner
  <2> SUFFICES ASSUME FInv, NEW t \in Transfer, Holds(t)
               PROVE  files[name[t]].owner = t
    BY DEF OneOwner
  <2> QED
    BY DEF FInv, OwnsWhatItHolds
<1> QED
  BY <1>1, TransferInv, PTL

(* Once the goroutines are done, e.progress does not say TRANSFERRING,     *)
(* although all of them overwrite the one record.                          *)
THEOREM TransferProgressSettles == Spec => []ProgressSettles
<1>1. FInv => ProgressSettles
  BY DEF FInv, ReporterAtWork, ProgressSettles, Receiving
<1> QED
  BY <1>1, TransferInv, PTL

(* A file received up to the right size by a disk that took all of it is   *)
(* the file that was sent, block by block, whatever the other transfers    *)
(* did to the directory.                                                   *)
THEOREM TransferWhole == Spec => []WholeWhenUndisturbed
<1>1. FInv => WholeWhenUndisturbed
  <2> SUFFICES ASSUME FInv, NEW t \in Transfer,
                      receiver[t] = "COMPLETED", Len(got[t]) = Length, ~lost[t]
               PROVE  files[name[t]] = [owner |-> t, data |-> Content(t)]
    BY DEF WholeWhenUndisturbed
  <2>1. files[name[t]] = [owner |-> t, data |-> got[t]]
    <3>1. files[name[t]].owner = t /\ files[name[t]].data = got[t]
      BY DEF FInv, OwnsWhatItHolds, HoldsWhatItGot, Holds
    <3>2. files[name[t]] \in File
      BY DEF FInv, Typed
    <3> QED
      BY <3>1, <3>2 DEF File
  <2>2. got[t] \in Seq(Item)
    BY DEF FInv, Typed
  <2>3. ASSUME NEW k \in 1 .. Length
        PROVE  got[t][k] = Block(t, k)
    <3>1. got[t][k] = Wire(t, k)
      BY DEF FInv, InOrder
    <3>2. k <= Length
      BY TransferAssumption
    <3> QED
      BY <3>1, <3>2 DEF Wire
  <2>4. got[t] = [k \in 1 .. Length |-> got[t][k]]
    BY <2>2, LenProperties
  <2>5. got[t] = Content(t)
    BY <2>3, <2>4 DEF Content
  <2> QED
    BY <2>1, <2>5
<1> QED
  BY <1>1, TransferInv, PTL

(* A file that was there before the transfers, or was received completely, *)
(* is not written to, replaced or removed by any receiver.                 *)
THEOREM TransferKeepsFiles == Spec => KeptFilesStay
<1> DEFINE Kept == \A i \in 0 .. MaxName :
                      \/ files[i] = NoFile
                      \/ files[i].owner # "user" /\ receiver[files[i].owner] # "COMPLETED"
                      \/ files'[i] = files[i]
<1>1. FInv /\ [Next]_vars => Kept
  <2> SUFFICES ASSUME FInv, NEW u \in Transfer, Step(u) PROVE Kept
    BY DEF Next, Step, vars, receiverVars
  <2>1. CASE files' = files
    BY <2>1
  <2>2. CASE Create(u)
    BY <2>2 DEF Create, Taken, FInv, Typed
  <2>3. ASSUME receiver[u] = "body",
               \A i \in 0 .. MaxName \ {name[u]} : files'[i] = files[i]
        PROVE  Kept
    <3>1. OwnsWhatItHolds /\ Holds(u)
      BY <2>3 DEF FInv, Holds
    <3>2. files[name[u]].owner = u
      BY <3>1, HeldApart
    <3> QED
      BY <2>3, <3>2, TransferAssumption
  <2>4. CASE CopyBlock(u) \/ CheckTrailer(u)
    BY <2>1, <2>3, <2>4 DEF CopyBlock, Store, CheckTrailer, RemoveFile, FInv, Typed
  <2>5. CASE ~(Create(u) \/ CopyBlock(u) \/ CheckTrailer(u))
    <3>1. files' = files
      BY <2>5 DEF Step, SendNext, ReceiveNext, Begin, Connect, CannotConnect, SendHeader,
                  SendBlock, SendTrailer, SendFails, Reset, ReadHeader, NoHeader, NameTaken, CannotCreate, NoTrailer,
                  receiverVars
    <3> QED
      BY <2>1, <3>1
  <2> QED
    BY <2>2, <2>4, <2>5
<1>2. FInv /\ [Next]_vars => [Kept]_files
  BY <1>1
<1> QED
  BY <1>2, TransferInv, PTL DEF Spec, KeptFilesStay

(* A file that took every block and is kept after its trailer was read is  *)
(* what the hash in the trailer was computed from.                         *)
THEOREM TransferKeptMatchesHash == Spec => KeptMatchesHash
<1> DEFINE Matches == \A t \in Transfer :
          /\ receiver[t] = "body" /\ receiver'[t] = "COMPLETED"
          /\ Len(got[t]) = claim[t]
          /\ stream[t] # <<>> /\ Head(stream[t]).kind = "trailer"
          /\ ~lost[t]
          => files'[name[t]].data = Hashed(Head(stream[t]))
<1>1. FInv /\ [Next]_vars => Matches
  <2> SUFFICES ASSUME FInv, [Next]_vars, NEW t \in Transfer,
                      receiver[t] = "body", receiver'[t] = "COMPLETED",
                      stream[t] # <<>>, Head(stream[t]).kind = "trailer", ~lost[t]
               PROVE  files'[name[t]].data = Hashed(Head(stream[t]))
    OBVIOUS
  <2>1. PICK u \in Transfer : Step(u)
    BY DEF Next, Step, vars, receiverVars
  <2>2. u = t
    <3>1. Typed /\ receiver'[t] # receiver[t]
      BY DEF FInv
    <3> QED
      BY <2>1, <3>1, StepIsLocal DEF Same
  <2>3. CheckTrailer(t) \/ NoTrailer(t)
    BY <2>1, <2>2 DEF Step, SendNext, ReceiveNext, Begin, Connect, CannotConnect, SendHeader,
                SendBlock, SendTrailer, SendFails, Reset, ReadHeader, NoHeader, NameTaken, Create, CannotCreate, CopyBlock,
                receiverVars, Return, FInv, Typed
  <2>4. CheckTrailer(t)
    BY <2>3 DEF NoTrailer, AtEnd
  <2>5. files' = files /\ HashOK(t)
    BY <2>4 DEF CheckTrailer, Return, FInv, Typed
  <2>6. files[name[t]].data = got[t]
    BY DEF FInv, HoldsWhatItGot, Holds
  <2> QED
    BY <2>5, <2>6 DEF HashOK
<1>2. FInv /\ [Next]_vars => [Matches]_vars
  BY <1>1
<1> QED
  BY <1>2, TransferInv, PTL DEF Spec, KeptMatchesHash
=============================================================================
