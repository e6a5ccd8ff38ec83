---------------------------- MODULE FileTransfer ----------------------------
(***************************************************************************)
(* Sending a file to a node (src/pkg/mops/engine.go): SendFileToNode       *)
(* streams a header with the size of the file, its bytes and a trailer     *)
(* with their hash; handleIncomingFile creates a file under an unused      *)
(* name, copies as many bytes as the header announced, reads a trailer and *)
(* removes the file if the hash differs.                                   *)
(*                                                                         *)
(* Each transfer has a sending and a receiving goroutine and a TCP         *)
(* connection between them.  All are sent under the same name to the same  *)
(* directory of one engine, which is also the sender: the worst case for   *)
(* the names and for the one progress record they all write.               *)
(*                                                                         *)
(* Content is a sequence of blocks.  The hash is taken to be injective:    *)
(* it is the sequence hashed.  A file is the i-th candidate name: 0 is     *)
(* "name.ext", i is "name(i).ext".  What a file holds is what is read from *)
(* it afterwards: a block that write, Sync or Close failed to bring to the *)
(* disk is not in it.                                                      *)
(***************************************************************************)
EXTENDS Integers, Sequences, FiniteSets

CONSTANTS
    Transfer,   \* the transfers
    Length,     \* blocks in the file a transfer sends
    Claim,      \* sizes the header may announce: other than Length when the
                \* file changes after Stat or its length is not known
    Existing,   \* candidate names taken before any transfer
    MaxName     \* bound of the model: the last candidate name

ASSUME TransferAssumption ==
    /\ Length \in Nat
    /\ Claim \subseteq Nat
    /\ IsFiniteSet(Transfer)
    /\ {"none", "user"} \cap Transfer = {}
    /\ MaxName \in Nat
    /\ Existing \subseteq 0 .. MaxName

VARIABLES
    (* The senders. *)
    claim,      \* claim[t]: FileSize in the header
    given,      \* given[t]: the caller passed a hash of other content
    sender,     \* sender[t]: where SendFileToNode is, or its final status
    sent,       \* sent[t]: blocks read from the file so far
    (* The connections. *)
    link,       \* link[t]: "none", "dialled" (no header written), "open",
                \* "closed" by the sender, "reset"
    stream,     \* stream[t]: what is written and not yet read
    (* The receivers. *)
    receiver,   \* receiver[t]: where handleServerConn and handleIncomingFile
                \* are, or the final status; "gone" without a header
    name,       \* name[t]: candidate name being tried, then used
    got,        \* got[t]: items copied, the hasher's input
    files,      \* files[i]: the file of that name, NoFile if there is none
    lost,       \* history: lost[t], a block read did not get into the file
    (* Shared. *)
    progress    \* e.progress: transfer, direction and status, one for all

senderVars   == <<claim, given, sender, sent>>
linkVars     == <<link, stream>>
receiverVars == <<receiver, name, got, files, lost>>
vars         == <<senderVars, linkVars, receiverVars, progress>>

-----------------------------------------------------------------------------
NoFile == [owner |-> "none", data |-> <<>>]

Block(t, i) == [kind |-> "block", of |-> t, nr |-> i]
Content(t)  == [i \in 1 .. Length |-> Block(t, i)]
Prefix(t, n) == [i \in 1 .. n |-> Block(t, i)]

(* The trailer holds the hash of what was sent, or the one given.          *)
Trailer(t) == [kind |-> "trailer", of |-> t, nr |-> IF given[t] THEN -1 ELSE sent[t]]

(* What the hash in trailer tr is the hash of.                             *)
Hashed(tr) == IF tr.nr = -1 THEN <<[kind |-> "other", of |-> tr.of, nr |-> 0]>> ELSE Prefix(tr.of, tr.nr)

Finished == {"COMPLETED", "FAILED"}

(* Where a sender and a receiver can be.                                   *)
Sending   == {"dial", "header", "stream"}
Receiving == {"header", "create", "body"}

TypeOK ==
    /\ claim \in [Transfer -> Claim]
    /\ given \in [Transfer -> BOOLEAN]
    /\ sender \in [Transfer -> {"idle"} \cup Sending \cup Finished]
    /\ sent \in [Transfer -> 0 .. Length]
    /\ link \in [Transfer -> {"none", "dialled", "open", "closed", "reset"}]
    /\ \A t \in Transfer : Len(stream[t]) <= Length + 1
    /\ receiver \in [Transfer -> {"none", "gone"} \cup Receiving \cup Finished]
    /\ name \in [Transfer -> 0 .. MaxName]
    /\ \A t \in Transfer : Len(got[t]) <= claim[t]
    /\ DOMAIN files = 0 .. MaxName
    /\ lost \in [Transfer -> BOOLEAN]

Init ==
    /\ claim \in [Transfer -> Claim]
    /\ given \in [Transfer -> BOOLEAN]
    /\ sender = [t \in Transfer |-> "idle"]
    /\ sent = [t \in Transfer |-> 0]
    /\ link = [t \in Transfer |-> "none"]
    /\ stream = [t \in Transfer |-> <<>>]
    /\ receiver = [t \in Transfer |-> "none"]
    /\ name = [t \in Transfer |-> 0]
    /\ got = [t \in Transfer |-> <<>>]
    /\ files = [i \in 0 .. MaxName |->
                    IF i \in Existing THEN [owner |-> "user", data |-> <<>>] ELSE NoFile]
    /\ lost = [t \in Transfer |-> FALSE]
    /\ progress = [of |-> "none", direction |-> "", status |-> ""]

(* updateTransferProgress: the whole record, whoever wrote it before.      *)
Report(t, dir, s) == progress' = [of |-> t, direction |-> dir, status |-> s]

-----------------------------------------------------------------------------
(* SendFileToNode.                                                         *)

(* The first report comes before the dial.                                 *)
Begin(t) ==
    /\ sender[t] = "idle"
    /\ sender' = [sender EXCEPT ![t] = "dial"]
    /\ Report(t, "SEND", "TRANSFERRING")
    /\ UNCHANGED <<claim, given, sent, linkVars, receiverVars>>

(* The node accepts: its handleServerConn starts and waits for the header. *)
Connect(t) ==
    /\ sender[t] = "dial"
    /\ sender' = [sender EXCEPT ![t] = "header"]
    /\ link' = [link EXCEPT ![t] = "dialled"]
    /\ receiver' = [receiver EXCEPT ![t] = "header"]
    /\ UNCHANGED <<claim, given, sent, stream, name, got, files, lost, progress>>

CannotConnect(t) ==
    /\ sender[t] = "dial"
    /\ sender' = [sender EXCEPT ![t] = "FAILED"]
    /\ Report(t, "SEND", "FAILED")
    /\ UNCHANGED <<claim, given, sent, linkVars, receiverVars>>

SendHeader(t) ==
    /\ sender[t] = "header"
    /\ sender' = [sender EXCEPT ![t] = "stream"]
    /\ link' = [link EXCEPT ![t] = IF @ = "dialled" THEN "open" ELSE @]
    /\ UNCHANGED <<claim, given, sent, stream, receiverVars, progress>>

(* A write to a connection that is gone may still be accepted by the       *)
(* socket and lost.                                                        *)
Write(t, item) ==
    /\ link[t] \in {"open", "reset"}
    /\ stream' = IF link[t] = "open"
                 THEN [stream EXCEPT ![t] = Append(@, item)] ELSE stream

SendBlock(t) ==
    /\ sender[t] = "stream"
    /\ sent[t] < Length
    /\ Write(t, Block(t, sent[t] + 1))
    /\ sent' = [sent EXCEPT ![t] = @ + 1]
    /\ Report(t, "SEND", "TRANSFERRING")
    /\ UNCHANGED <<claim, given, sender, link, receiverVars>>

(* The trailer is the last write: nothing is read back from the receiver.  *)
SendTrailer(t) ==
    /\ sender[t] = "stream"
    /\ sent[t] = Length
    /\ Write(t, Trailer(t))
    /\ sender' = [sender EXCEPT ![t] = "COMPLETED"]
    /\ link' = [link EXCEPT ![t] = IF @ = "open" THEN "closed" ELSE @]
    /\ Report(t, "SEND", "COMPLETED")
    /\ UNCHANGED <<claim, given, sent, receiverVars>>

(* Reading the source fails, for an upload because its client is gone; or  *)
(* a write fails, that of the header included.  The deferred Close lets    *)
(* the receiver read the rest, if there is any.                            *)
SendFails(t) ==
    /\ sender[t] \in {"header", "stream"}
    /\ sender' = [sender EXCEPT ![t] = "FAILED"]
    /\ link' = [link EXCEPT ![t] = CASE @ = "open" -> "closed"
                                     [] @ = "dialled" -> "reset"
                                     [] OTHER -> @]
    /\ Report(t, "SEND", "FAILED")
    /\ UNCHANGED <<claim, given, sent, stream, receiverVars>>

(* The connection breaks: what was not read yet is lost.                   *)
Reset(t) ==
    /\ link[t] \in {"dialled", "open", "closed"}
    /\ link' = [link EXCEPT ![t] = "reset"]
    /\ stream' = [stream EXCEPT ![t] = <<>>]
    /\ UNCHANGED <<senderVars, receiverVars, progress>>

-----------------------------------------------------------------------------
(* handleServerConn, up to the header.                                     *)

ReadHeader(t) ==
    /\ receiver[t] = "header"
    /\ link[t] \in {"open", "closed"}
    /\ receiver' = [receiver EXCEPT ![t] = "create"]
    /\ UNCHANGED <<senderVars, linkVars, name, got, files, lost, progress>>

(* The connection is lost first, or ten seconds pass: nothing is reported. *)
NoHeader(t) ==
    /\ receiver[t] = "header"
    /\ receiver' = [receiver EXCEPT ![t] = "gone"]
    /\ link' = [link EXCEPT ![t] = "reset"]
    /\ stream' = [stream EXCEPT ![t] = <<>>]
    /\ UNCHANGED <<senderVars, name, got, files, lost, progress>>

-----------------------------------------------------------------------------
(* handleIncomingFile.                                                     *)

(* Slip: the receiver returns without reporting. *)
BugReturn(t, s) ==
    /\ receiver' = [receiver EXCEPT ![t] = s]
    /\ link' = [link EXCEPT ![t] = "reset"]
    /\ stream' = [stream EXCEPT ![t] = <<>>]
    /\ UNCHANGED progress

(* The receiver returns: handleServerConn closes the connection, which a   *)
(* sender still writing sees as a reset.                                   *)
Return(t, s) ==
    /\ receiver' = [receiver EXCEPT ![t] = s]
    /\ link' = [link EXCEPT ![t] = "reset"]
    /\ stream' = [stream EXCEPT ![t] = <<>>]
    /\ Report(t, "RECEIVE", s)

(* Slip: the name is looked up, then created without O_EXCL, so that a     *)
(* file still being received does not count as taken.                      *)
BugTaken(i) ==
    /\ files[i] # NoFile
    /\ \A t \in Transfer : files[i].owner = t => receiver[t] = "COMPLETED"

Taken(i) == files[i] # NoFile

(* createUniqueFile: O_CREATE|O_EXCL tests and creates in one call, one    *)
(* candidate name after the other.                                         *)
NameTaken(t) ==
    /\ receiver[t] = "create"
    /\ Taken(name[t])
    /\ name[t] < MaxName
    /\ name' = [name EXCEPT ![t] = @ + 1]
    /\ UNCHANGED <<senderVars, linkVars, receiver, got, files, lost, progress>>

Create(t) ==
    /\ receiver[t] = "create"
    /\ ~Taken(name[t])
    /\ files' = [files EXCEPT ![name[t]] = [owner |-> t, data |-> <<>>]]
    /\ receiver' = [receiver EXCEPT ![t] = "body"]
    /\ Report(t, "RECEIVE", "TRANSFERRING")
    /\ UNCHANGED <<senderVars, linkVars, name, got, lost>>

(* The directory cannot be made or written to.                             *)
CannotCreate(t) ==
    /\ receiver[t] = "create"
    /\ Return(t, "FAILED")
    /\ UNCHANGED <<senderVars, name, got, files, lost>>

(* Slip: only an orderly end is seen, a reset is waited out.               *)
BugAtEnd(t) == stream[t] = <<>> /\ link[t] = "closed"

AtEnd(t) == stream[t] = <<>> /\ link[t] \in {"closed", "reset"}

(* Slip: one block past the announced size.                                *)
BugWithinLimit(t) == Len(got[t]) <= claim[t]

WithinLimit(t) == Len(got[t]) < claim[t]

(* A block goes to the end of the file; or, the disk being full, it does   *)
(* not.  The errors of Write, and of the Sync and Close that follow the    *)
(* last block, are ignored.                                                *)
Store(t, item) ==
    \/ /\ files' = [files EXCEPT ![name[t]].data = Append(@, item)]
       /\ UNCHANGED lost
    \/ /\ lost' = [lost EXCEPT ![t] = TRUE]
       /\ UNCHANGED files

(* The loop copies up to FileSize bytes, whatever they are.  The hasher is *)
(* fed what was read, be it stored or not.                                 *)
CopyBlock(t) ==
    /\ receiver[t] = "body"
    /\ WithinLimit(t)
    /\ stream[t] # <<>>
    /\ got' = [got EXCEPT ![t] = Append(@, Head(stream[t]))]
    /\ Store(t, Head(stream[t]))
    /\ stream' = [stream EXCEPT ![t] = Tail(@)]
    /\ Report(t, "RECEIVE", "TRANSFERRING")
    /\ UNCHANGED <<senderVars, link, receiver, name>>

(* Slip: the file that is removed is the one with the name that was sent.  *)
BugRemove(t) == files' = [files EXCEPT ![0] = NoFile]

RemoveFile(t) == files' = [files EXCEPT ![name[t]] = NoFile]

(* Slip: the hash is computed, and only logged when it differs.            *)
BugHashOK(t) == TRUE

HashOK(t) == Hashed(Head(stream[t])) = got[t]

(* The limit is reached, the file closed and the next line is a trailer:   *)
(* the only case in which anything is verified.                            *)
CheckTrailer(t) ==
    /\ receiver[t] = "body"
    /\ Len(got[t]) = claim[t]
    /\ stream[t] # <<>>
    /\ Head(stream[t]).kind = "trailer"
    /\ IF HashOK(t)
       THEN Return(t, "COMPLETED") /\ UNCHANGED files
       ELSE Return(t, "FAILED") /\ RemoveFile(t)
    /\ UNCHANGED <<senderVars, name, got, lost>>

(* The line is not JSON because it still belongs to the content, or the    *)
(* connection ended, be it before the limit: an error of the read and the  *)
(* end of the file are not told apart.  The file is kept as it is.         *)
NoTrailer(t) ==
    /\ receiver[t] = "body"
    /\ \/ AtEnd(t)
       \/ Len(got[t]) = claim[t] /\ stream[t] # <<>> /\ Head(stream[t]).kind = "block"
    /\ Return(t, "COMPLETED")
    /\ UNCHANGED <<senderVars, name, got, files, lost>>

SendNext(t) ==
    \/ Begin(t) \/ Connect(t) \/ CannotConnect(t) \/ SendHeader(t)
    \/ SendBlock(t) \/ SendTrailer(t) \/ SendFails(t)

ReceiveNext(t) ==
    \/ ReadHeader(t) \/ NoHeader(t)
    \/ NameTaken(t) \/ Create(t) \/ CannotCreate(t)
    \/ CopyBlock(t) \/ CheckTrailer(t) \/ NoTrailer(t)

Next == \E t \in Transfer : SendNext(t) \/ Reset(t) \/ ReceiveNext(t)

(* Goroutines run.  A sender may stay idle; once it has begun, the dial    *)
(* ends in ten seconds and its source delivers or fails.  Nothing obliges  *)
(* a stalled peer to go on: there is no read deadline on a file            *)
(* connection, which is why the sender's progress is assumed.              *)
Fairness == \A t \in Transfer : /\ WF_vars(SendNext(t) /\ sender[t] # "idle")
                                /\ WF_vars(ReceiveNext(t))

Spec == Init /\ [][Next]_vars
FairSpec == Spec /\ Fairness

-----------------------------------------------------------------------------
(* The transfer holds a file: created and not removed by its own receiver. *)
Holds(t) == receiver[t] \in {"body", "COMPLETED"}

(* Renaming prevents overwriting: whoever holds a file holds it alone,     *)
(* however many receivers look for a name at the same time.                *)
OneOwner ==
    \A t \in Transfer : Holds(t) => files[name[t]].owner = t

(* A file that was there before, or that was received completely, is never *)
(* written to, replaced or removed by another transfer.                    *)
KeptFilesStay ==
    [][\A i \in 0 .. MaxName :
          \/ files[i] = NoFile
          \/ files[i].owner # "user" /\ receiver[files[i].owner] # "COMPLETED"
          \/ files'[i] = files[i]]_files

(* A file kept after its trailer was read where it is expected is, block   *)
(* by block, what the hash in it was computed from: as far as the disk     *)
(* took what was written, which the hash says nothing about.               *)
KeptMatchesHash ==
    [][\A t \in Transfer :
          /\ receiver[t] = "body" /\ receiver'[t] = "COMPLETED"
          /\ Len(got[t]) = claim[t]
          /\ stream[t] # <<>> /\ Head(stream[t]).kind = "trailer"
          /\ ~lost[t]
          => files'[name[t]].data = Hashed(Head(stream[t]))]_vars

(* An announced size that is right, an uninterrupted connection, a name    *)
(* that can be created and a disk that takes every block give a complete   *)
(* file: nothing the other transfers do to the directory or to the shared  *)
(* state spoils it.                                                        *)
WholeWhenUndisturbed ==
    \A t \in Transfer :
        /\ receiver[t] = "COMPLETED"
        /\ claim[t] = Length /\ ~given[t]
        /\ Len(got[t]) = Length
        /\ ~lost[t]
        => files[name[t]] = [owner |-> t, data |-> Content(t)]

(* The progress record settles: once no goroutine is at work it does not   *)
(* say TRANSFERRING, whoever wrote it last.                                *)
ProgressSettles ==
    (\A t \in Transfer : sender[t] \notin Sending /\ receiver[t] \notin Receiving)
        => progress.status # "TRANSFERRING"

(* Every transfer that begins comes to an end at both ends: the receiver   *)
(* is done, or gone without a header, or there never was one.              *)
TransfersEnd ==
    \A t \in Transfer :
        sender[t] = "dial" ~> /\ sender[t] \in Finished
                              /\ \/ receiver[t] \in Finished \cup {"gone"}
                                 \/ link[t] = "none"

(* README: "Trailer SHA256 integrity check"; API.md: "SHA256 integrity is  *)
(* verified automatically".  What is reported COMPLETED is what was sent.  *)
CompletedIsWhole ==
    \A t \in Transfer :
        receiver[t] = "COMPLETED" => files[name[t]].data = Content(t)
=============================================================================
