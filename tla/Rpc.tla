--------------------------------- MODULE Rpc ---------------------------------
(***************************************************************************)
(* One RPC connection: an RPCFlow of the client, the TCP stream in both    *)
(* directions and the RPCServer at the other end.                          *)
(*                                                                         *)
(* A caller queues its request and parks.  The flow's sender takes queued  *)
(* requests while there are credits and writes them to the stream; the     *)
(* server runs a handler thread per request and sends the results back in  *)
(* the order they finish; the flow's receiver returns the credit and wakes *)
(* the caller the reply names.                                             *)
(*                                                                         *)
(* A message is <<c, n>>: the n-th call of caller c.  On the wire it is    *)
(* the header's completion_data (the address of c's RPCCompletion) and the *)
(* payload.  The critical sections under the spin locks are single steps;  *)
(* a ThreadWaker holds its thread exactly while that is parked.            *)
(***************************************************************************)
EXTENDS Naturals, Sequences, FiniteSets

CONSTANTS
    Callers,        \* threads that call RPCClient::Call on this flow
    EmptyReply,     \* callers whose requests get a reply without data
    kNumCredits,    \* requests a flow may have in flight
    CounterRange,   \* 2^32: sent_count_ and recv_count_ are unsigned int
    MaxCalls,       \* bound: calls of one caller
    MayBreak        \* the connection may be reset

ASSUME RpcAssumption ==
    /\ EmptyReply \subseteq Callers
    /\ kNumCredits \in Nat \ {0}
    /\ CounterRange \in Nat /\ CounterRange > kNumCredits
    /\ MaxCalls \in Nat
    /\ MayBreak \in BOOLEAN

Messages == Callers \X (1..MaxCalls)

VARIABLES
    calls, pc, got,         \* callers: calls made, state, last reply
    reqs, batch, sender,    \* flow: queue, requests being sent, SendWorker
    sent_count, recv_count, close,
    cur, receiver,          \* flow: header just read, ReceiveWorker
    up, upFin,              \* the stream to the server, and its FIN
    sreceiver, handling,    \* server: ReceiveWorker, handlers running
    completions, sbatch, ssender, sclose,   \* server: SendWorker
    down, downFin,          \* the stream to the client
    broken                  \* the connection was reset

callerVars == <<calls, pc, got>>
flowVars == <<reqs, batch, sender, sent_count, recv_count, close>>
recvVars == <<cur, receiver>>
serverVars == <<sreceiver, handling, completions, sbatch, ssender, sclose>>
vars == <<callerVars, flowVars, recvVars, up, upFin, serverVars, down, downFin,
          broken>>

SenderStates == {"runnable", "parked", "writing", "ended"}
ReceiverStates == {"header", "payload", "ended"}

(* Types of the flow's, the server's and the streams' state (rpc.h). *)
TypeOK ==
    /\ calls \in [Callers -> 0..MaxCalls]
    /\ pc \in [Callers -> {"idle", "parked"}]
    /\ got \in [Callers -> 0..MaxCalls]
    /\ reqs \in Seq(Messages) /\ batch \in Seq(Messages)
    /\ up \in Seq(Messages) /\ down \in Seq(Messages)
    /\ completions \in Seq(Messages) /\ sbatch \in Seq(Messages)
    /\ handling \subseteq Messages
    /\ cur \in Seq(Messages) /\ Len(cur) <= 1
    /\ sender \in SenderStates /\ ssender \in SenderStates
    /\ receiver \in ReceiverStates /\ sreceiver \in ReceiverStates
    /\ sent_count \in 0..(CounterRange - 1)
    /\ recv_count \in 0..(CounterRange - 1)
    /\ {close, sclose, upFin, downFin, broken} \subseteq BOOLEAN

Init ==
    /\ calls = [c \in Callers |-> 0]
    /\ pc = [c \in Callers |-> "idle"]
    /\ got = [c \in Callers |-> 0]
    /\ reqs = <<>> /\ batch = <<>> /\ sender = "runnable"
    /\ sent_count = 0 /\ recv_count = 0 /\ close = FALSE
    /\ cur = <<>> /\ receiver = "header"
    /\ up = <<>> /\ upFin = FALSE
    /\ sreceiver = "header" /\ handling = {}
    /\ completions = <<>> /\ sbatch = <<>> /\ ssender = "runnable"
    /\ sclose = FALSE
    /\ down = <<>> /\ downFin = FALSE
    /\ broken = FALSE

-----------------------------------------------------------------------------
(* The client's flow *)

(* sent_count_ - recv_count_ in unsigned arithmetic. *)
Difference(sent, received) == (sent + CounterRange - received) % CounterRange
Inflight == Difference(sent_count, recv_count)

(* count += n on an unsigned int. *)
Advance(count, n) == (count + n) % CounterRange

(* ThreadWaker::Wake on a thread in the given state. *)
Woken(state) == IF state = "parked" THEN "runnable" ELSE state

(* Mutant of Call: does not wake the sender for the last credit. *)
CallWakesOnce(c) ==
    /\ pc[c] = "idle" /\ calls[c] < MaxCalls /\ ~close
    /\ calls' = [calls EXCEPT ![c] = @ + 1]
    /\ pc' = [pc EXCEPT ![c] = "parked"]
    /\ reqs' = Append(reqs, <<c, calls[c] + 1>>)
    /\ sender' = IF Inflight < kNumCredits - 1 THEN Woken(sender) ELSE sender
    /\ UNCHANGED <<got, batch, sent_count, recv_count, close, recvVars, up,
                   upFin, serverVars, down, downFin, broken>>

(* RPCClient::Call: RPCFlow::Call on the caller's flow, then park. *)
Call(c) ==
    /\ pc[c] = "idle" /\ calls[c] < MaxCalls /\ ~close
    /\ calls' = [calls EXCEPT ![c] = @ + 1]
    /\ pc' = [pc EXCEPT ![c] = "parked"]
    /\ reqs' = Append(reqs, <<c, calls[c] + 1>>)
    /\ sender' = IF Inflight < kNumCredits THEN Woken(sender) ELSE sender
    /\ UNCHANGED <<got, batch, sent_count, recv_count, close, recvVars, up,
                   upFin, serverVars, down, downFin, broken>>

(* Mutant of Gather: takes whatever is queued. *)
GatherAll == Len(reqs)

(* How many queued requests the credits allow to be sent. *)
Gather ==
    IF Inflight >= kNumCredits THEN 0
    ELSE IF Len(reqs) <= kNumCredits - Inflight THEN Len(reqs)
    ELSE kNumCredits - Inflight

(***************************************************************************)
(* RPCFlow::SendWorker with the lock: park, or gather requests; the flow   *)
(* is closed when it has to be and the queue is empty.                     *)
(***************************************************************************)
SendWorker ==
    /\ sender = "runnable"
    /\ \/ /\ (reqs = <<>> \/ Inflight >= kNumCredits) /\ ~(close /\ reqs = <<>>)
          /\ sender' = "parked"
          /\ UNCHANGED <<reqs, batch, sent_count, upFin>>
       \/ /\ \/ reqs # <<>> /\ Inflight < kNumCredits
             \/ close /\ reqs = <<>>
          /\ batch' = SubSeq(reqs, 1, Gather)
          /\ reqs' = SubSeq(reqs, Gather + 1, Len(reqs))
          /\ sent_count' = Advance(sent_count, Gather)
          /\ IF close /\ reqs' = <<>>
             THEN sender' = "ended" /\ upFin' = TRUE
             ELSE sender' = "writing" /\ UNCHANGED upFin
    /\ UNCHANGED <<callerVars, recv_count, close, recvVars, up, serverVars,
                   down, downFin, broken>>

(* WritevFull of the gathered requests. *)
SendWrite ==
    /\ sender = "writing"
    /\ \/ /\ ~broken
          /\ up' = up \o batch
          /\ batch' = <<>>
          /\ sender' = "runnable"
       \/ /\ broken
          /\ sender' = "ended"
          /\ UNCHANGED <<up, batch>>
    /\ UNCHANGED <<callerVars, reqs, sent_count, recv_count, close, recvVars,
                   upFin, serverVars, down, downFin, broken>>

(* RPCCompletion::Done: the reply m wakes the caller it names. *)
Done(m) ==
    /\ pc' = [pc EXCEPT ![m[1]] = "idle"]
    /\ got' = [got EXCEPT ![m[1]] = m[2]]

(***************************************************************************)
(* RPCFlow::ReceiveWorker reads a header, returns the credit and wakes the *)
(* sender if that can use it; a reply without data is complete.            *)
(***************************************************************************)
ReceiveHeader ==
    /\ receiver = "header" /\ down # <<>>
    /\ down' = Tail(down)
    /\ recv_count' = Advance(recv_count, 1)
    /\ sender' = IF kNumCredits > Difference(sent_count, recv_count') /\ reqs # <<>>
                 THEN Woken(sender) ELSE sender
    /\ IF Head(down)[1] \in EmptyReply
       THEN Done(Head(down)) /\ UNCHANGED recvVars
       ELSE cur' = <<Head(down)>> /\ receiver' = "payload" /\ UNCHANGED <<pc, got>>
    /\ UNCHANGED <<calls, reqs, batch, sent_count, close, up, upFin,
                   serverVars, downFin, broken>>

(* It reads the reply's data and completes the call. *)
ReceivePayload ==
    /\ receiver = "payload"
    /\ Done(Head(cur))
    /\ cur' = <<>> /\ receiver' = "header"
    /\ UNCHANGED <<calls, flowVars, up, upFin, serverVars, down, downFin, broken>>

(* It finds the stream closed or broken, and returns. *)
ReceiveEnd ==
    /\ receiver # "ended"
    /\ broken \/ (receiver = "header" /\ down = <<>> /\ downFin)
    /\ receiver' = "ended"
    /\ UNCHANGED <<callerVars, flowVars, cur, up, upFin, serverVars, down,
                   downFin, broken>>

(* Mutant of Close: does not wake the sender. *)
CloseQuietly ==
    /\ ~close /\ \A c \in Callers : pc[c] = "idle"
    /\ close' = TRUE
    /\ UNCHANGED <<callerVars, reqs, batch, sender, sent_count, recv_count,
                   recvVars, up, upFin, serverVars, down, downFin, broken>>

(***************************************************************************)
(* ~RPCFlow up to the joins.  The flow is destroyed when no thread is in a *)
(* call any more.                                                          *)
(***************************************************************************)
Close ==
    /\ ~close /\ \A c \in Callers : pc[c] = "idle"
    /\ close' = TRUE
    /\ sender' = Woken(sender)
    /\ UNCHANGED <<callerVars, reqs, batch, sent_count, recv_count, recvVars,
                   up, upFin, serverVars, down, downFin, broken>>

-----------------------------------------------------------------------------
(* The server *)

(* RPCServer::ReceiveWorker reads a request and spawns its handler. *)
ServerReceive ==
    /\ sreceiver = "header" /\ up # <<>>
    /\ up' = Tail(up)
    /\ handling' = handling \cup {Head(up)}
    /\ UNCHANGED <<callerVars, flowVars, recvVars, upFin, sreceiver,
                   completions, sbatch, ssender, sclose, down, downFin, broken>>

(* Mutant of ServerReceiveEnd: does not wake the sender. *)
ServerReceiveEndQuietly ==
    /\ sreceiver # "ended"
    /\ broken \/ (up = <<>> /\ upFin)
    /\ sreceiver' = "ended"
    /\ sclose' = TRUE
    /\ UNCHANGED <<callerVars, flowVars, recvVars, up, upFin, handling,
                   completions, sbatch, ssender, down, downFin, broken>>

(* It finds the stream closed or broken, tells the sender and returns. *)
ServerReceiveEnd ==
    /\ sreceiver # "ended"
    /\ broken \/ (up = <<>> /\ upFin)
    /\ sreceiver' = "ended"
    /\ sclose' = TRUE
    /\ ssender' = Woken(ssender)
    /\ UNCHANGED <<callerVars, flowVars, recvVars, up, upFin, handling,
                   completions, sbatch, down, downFin, broken>>

(* Mutant of Return: the finished request is never queued for sending. *)
ReturnDrops(m) ==
    /\ m \in handling
    /\ handling' = handling \ {m}
    /\ ssender' = Woken(ssender)
    /\ UNCHANGED <<callerVars, flowVars, recvVars, up, upFin, sreceiver,
                   completions, sbatch, sclose, down, downFin, broken>>

(* Mutant of Return: the result is queued under another call's token. *)
ReturnMixesUp(m) ==
    /\ m \in handling
    /\ handling' = handling \ {m}
    /\ \E x \in handling : completions' = Append(completions, x)
    /\ ssender' = Woken(ssender)
    /\ UNCHANGED <<callerVars, flowVars, recvVars, up, upFin, sreceiver, sbatch,
                   sclose, down, downFin, broken>>

(* A handler finishes: RPCServer::Return. *)
Return(m) ==
    /\ m \in handling
    /\ handling' = handling \ {m}
    /\ completions' = Append(completions, m)
    /\ ssender' = Woken(ssender)
    /\ UNCHANGED <<callerVars, flowVars, recvVars, up, upFin, sreceiver, sbatch,
                   sclose, down, downFin, broken>>

(* RPCServer::SendWorker with the lock: park, or gather what is completed. *)
ServerSend ==
    /\ ssender = "runnable"
    /\ \/ /\ completions = <<>> /\ ~sclose
          /\ ssender' = "parked"
          /\ UNCHANGED <<completions, sbatch>>
       \/ /\ completions # <<>> \/ sclose
          /\ sbatch' = sbatch \o completions
          /\ completions' = <<>>
          /\ ssender' = "writing"
    /\ UNCHANGED <<callerVars, flowVars, recvVars, up, upFin, sreceiver,
                   handling, sclose, down, downFin, broken>>

(* It ends if the connection is closed and nothing is left, or writes. *)
ServerWrite ==
    /\ ssender = "writing"
    /\ \/ /\ sclose /\ sbatch = <<>>
          /\ ssender' = "ended"
          /\ downFin' = TRUE
          /\ UNCHANGED <<sbatch, down>>
       \/ /\ ~(sclose /\ sbatch = <<>>) /\ ~broken
          /\ down' = down \o sbatch
          /\ sbatch' = <<>>
          /\ ssender' = "runnable"
          /\ UNCHANGED downFin
       \/ /\ ~(sclose /\ sbatch = <<>>) /\ broken
          /\ ssender' = "ended"
          /\ UNCHANGED <<sbatch, down, downFin>>
    /\ UNCHANGED <<callerVars, flowVars, recvVars, up, upFin, sreceiver,
                   handling, completions, sclose, broken>>

-----------------------------------------------------------------------------

(* The connection is reset. *)
Break ==
    /\ MayBreak /\ ~broken
    /\ broken' = TRUE
    /\ UNCHANGED <<callerVars, flowVars, recvVars, up, upFin, serverVars, down,
                   downFin>>

Next ==
    \/ \E c \in Callers : Call(c)
    \/ SendWorker \/ SendWrite
    \/ ReceiveHeader \/ ReceivePayload \/ ReceiveEnd
    \/ Close
    \/ ServerReceive \/ ServerReceiveEnd
    \/ \E m \in Messages : Return(m)
    \/ ServerSend \/ ServerWrite
    \/ Break

Spec == Init /\ [][Next]_vars

(* Runnable threads run, the stream delivers and handlers finish. *)
Fairness ==
    /\ WF_vars(SendWorker) /\ WF_vars(SendWrite)
    /\ WF_vars(ReceiveHeader) /\ WF_vars(ReceivePayload) /\ WF_vars(ReceiveEnd)
    /\ WF_vars(ServerReceive) /\ WF_vars(ServerReceiveEnd)
    /\ \A m \in Messages : WF_vars(Return(m))
    /\ WF_vars(ServerSend) /\ WF_vars(ServerWrite)

FairSpec == Spec /\ Fairness

-----------------------------------------------------------------------------

(***************************************************************************)
(* The credits are exact: what the two wrapping counters say is in flight  *)
(* is what has been gathered and not answered yet, never more than         *)
(* kNumCredits (SendWorker and ReceiveWorker of RPCFlow).                  *)
(***************************************************************************)
CreditsExact ==
    /\ TypeOK
    /\ Inflight = Len(batch) + Len(up) + Cardinality(handling)
                    + Len(completions) + Len(sbatch) + Len(down)
    /\ Inflight <= kNumCredits

(***************************************************************************)
(* No wakeup of a sender is lost: a parked sender of the flow has nothing  *)
(* to send or no credit, and is not to close; a parked sender of the       *)
(* server has nothing to send and is not to close (Call, ReceiveWorker,    *)
(* ~RPCFlow; Return, RPCServer::ReceiveWorker).                            *)
(***************************************************************************)
NoLostWakeup ==
    /\ sender = "parked" =>
           /\ reqs = <<>> \/ Inflight >= kNumCredits
           /\ ~(close /\ reqs = <<>>)
    /\ ssender = "parked" => completions = <<>> /\ ~sclose

(***************************************************************************)
(* A call returns the reply to itself, although replies come back in any   *)
(* order and the completion's address is the same for all calls of a       *)
(* caller (completion_data of the header).                                 *)
(***************************************************************************)
OwnReply ==
    \A c \in Callers : got[c] = IF pc[c] = "idle" THEN calls[c] ELSE calls[c] - 1

(* Every call returns unless the connection is reset (RPCClient::Call). *)
CallsReturn == \A c \in Callers : pc[c] = "parked" ~> pc[c] = "idle" \/ broken

(* The destructor's joins return: both workers of a closed flow end. *)
CloseReturns == close ~> sender = "ended" /\ receiver = "ended"

(* A reset connection is given up by the server: Run returns. *)
ServerReaped == broken ~> sreceiver = "ended" /\ ssender = "ended"

=============================================================================
