-------------------------- MODULE TemplateService ---------------------------
(***************************************************************************)
(* What getblocktemplate of src/rpc/mining.cpp promises a client, without  *)
(* the cache, the lock or the condition variable that deliver it.          *)
(*                                                                         *)
(* A request is answered at once, or it becomes a long poll that watches   *)
(* a longpollid (a tip and a mempool revision).  A long poll is answered   *)
(* only once the chain or the mempool has moved past what it watches, or   *)
(* after RPC shutdown, which it answers with RPC_CLIENT_NOT_CONNECTED.  A  *)
(* template always builds on the tip current when it is handed out, from  *)
(* a mempool revision no newer than the current one.                       *)
(***************************************************************************)
EXTENDS Naturals

CONSTANTS Clients, MaxTip, MaxTxUpdated, ErrorCodes, NULL

VARIABLES
    tip,        \* the active chain's tip
    txUpdated,  \* the mempool revision
    rpcRunning, \* IsRPCRunning()
    phase,      \* per client: "idle", "waiting" in a long poll, or "replied"
    watched,    \* per client: the longpollid a waiting client watches
    reply       \* per client: the last answer

vars == <<tip, txUpdated, rpcRunning, phase, watched, reply>>

LongPollId == [hash : 0..MaxTip, rev : 0..MaxTxUpdated]

(* A template handed out now: the current tip and a revision not newer    *)
(* than the mempool's.                                                     *)
Fresh == [hash : {tip}, rev : 0..txUpdated]

(* What the client watches: an id no newer than the current state.        *)
Watchable == [hash : 0..tip, rev : 0..txUpdated]

(* An answer other than not-connected, which only a long poll gives.      *)
Answers == Fresh \cup [error : ErrorCodes \ {"not-connected"}]

(* The long poll has something to report.                                 *)
Moved(c) == watched[c].hash # tip \/ watched[c].rev # txUpdated

Init ==
    /\ tip = 0 /\ txUpdated = 0 /\ rpcRunning = TRUE
    /\ phase = [c \in Clients |-> "idle"]
    /\ watched = [c \in Clients |-> NULL]
    /\ reply = [c \in Clients |-> NULL]

(* A request is answered at once.                                          *)
AnswerNow(c) ==
    /\ phase[c] \in {"idle", "replied"} /\ rpcRunning
    /\ \E r \in Answers : reply' = [reply EXCEPT ![c] = r]
    /\ phase' = [phase EXCEPT ![c] = "replied"]
    /\ UNCHANGED <<tip, txUpdated, rpcRunning, watched>>

(* A request with a longpollid starts to wait.                             *)
StartLongPoll(c) ==
    /\ phase[c] \in {"idle", "replied"} /\ rpcRunning
    /\ \E w \in Watchable : watched' = [watched EXCEPT ![c] = w]
    /\ phase' = [phase EXCEPT ![c] = "waiting"]
    /\ reply' = [reply EXCEPT ![c] = NULL]
    /\ UNCHANGED <<tip, txUpdated, rpcRunning>>

(* A long poll is answered: after shutdown with not-connected, otherwise  *)
(* only once what it watched has moved on.                                 *)
EndLongPoll(c) ==
    /\ phase[c] = "waiting"
    /\ \/ ~rpcRunning /\ reply' = [reply EXCEPT ![c] = [error |-> "not-connected"]]
       \/ rpcRunning /\ Moved(c) /\ \E r \in Answers : reply' = [reply EXCEPT ![c] = r]
    /\ phase' = [phase EXCEPT ![c] = "replied"]
    /\ watched' = [watched EXCEPT ![c] = NULL]
    /\ UNCHANGED <<tip, txUpdated, rpcRunning>>

NewTip ==
    /\ tip < MaxTip /\ tip' = tip + 1
    /\ UNCHANGED <<txUpdated, rpcRunning, phase, watched, reply>>

MempoolUpdate ==
    /\ txUpdated < MaxTxUpdated /\ txUpdated' = txUpdated + 1
    /\ UNCHANGED <<tip, rpcRunning, phase, watched, reply>>

StopRPC ==
    /\ rpcRunning /\ rpcRunning' = FALSE
    /\ UNCHANGED <<tip, txUpdated, phase, watched, reply>>

Next ==
    \/ \E c \in Clients : AnswerNow(c) \/ StartLongPoll(c) \/ EndLongPoll(c)
    \/ NewTip \/ MempoolUpdate \/ StopRPC

Spec == Init /\ [][Next]_vars
====
