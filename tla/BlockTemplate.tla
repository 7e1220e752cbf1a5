--------------------------- MODULE BlockTemplate ---------------------------
(***************************************************************************)
(* The getblocktemplate RPC of src/rpc/mining.cpp: the single-slot         *)
(* template cache kept in function-static variables (pindexPrev, nStart,   *)
(* pblocktemplate, nTemplatePowAlgo, nTransactionsUpdatedLast) and the     *)
(* long-poll wait that releases cs_main and sleeps on g_best_block_cv.     *)
(*                                                                         *)
(* Every step of a client thread that runs while it holds cs_main is one   *)
(* atomic action; the thread releases cs_main only for the long poll, so   *)
(* the long poll is the only place where the environment (a new tip, a     *)
(* mempool update, time passing, RPC shutdown) interleaves with a request. *)
(***************************************************************************)
EXTENDS Naturals, FiniteSets

CONSTANTS
    Clients,          \* RPC worker threads serving getblocktemplate
    Algos,            \* PoW algorithm ids a client may name
    AlgoNull,         \* GetAlgoId's result for an unknown name (ALGO_NULL)
    InitialAlgo,      \* value of the zero-initialised static nTemplatePowAlgo
    MaxTip,           \* bound on the number of tip changes
    MaxTxUpdated,     \* bound on mempool.GetTransactionsUpdated()
    TemplateMaxAge,   \* the 5 of "GetTime() - nStart > 5"
    BackCompatible,   \* -rpcbackcompatible
    NoLP,             \* a request without longpollid
    NonStringLP,      \* a longpollid that is not a string
    NULL

ASSUME /\ AlgoNull \notin Algos /\ InitialAlgo \in Algos
       /\ {MaxTip, MaxTxUpdated, TemplateMaxAge} \subseteq Nat
       /\ BackCompatible \in BOOLEAN

VARIABLES
    tip,          \* chainActive.Tip(), which UpdateTip also stores in g_best_block
    txUpdated,    \* mempool.GetTransactionsUpdated()
    rpcRunning,   \* IsRPCRunning()
    stopNotified, \* OnRPCStopped has notified g_best_block_cv
    cache,        \* the statics pindexPrev, nTemplatePowAlgo, nTransactionsUpdatedLast, pblocktemplate
    age,          \* GetTime() - nStart, saturating at TemplateMaxAge + 1
    pc,           \* where each client thread is in getblocktemplate
    req,          \* the request a long-polling thread serves: algorithm, segwit rule
    watch,        \* hashWatchedChain and nTransactionsUpdatedLastLP of a long poll
    reply         \* the last answer: the longpollid of the template, or an error

vars == <<tip, txUpdated, rpcRunning, stopNotified, cache, age, pc, req, watch, reply>>

Tips == 0..MaxTip
Revs == 0..MaxTxUpdated
Ages == 0..TemplateMaxAge + 1

(* A template is the block CreateNewBlock assembled: the tip it builds on, *)
(* the algorithm in its version, and the mempool revision of its txs.      *)
Template == [prev : Tips, algo : Algos, rev : Revs]

LongPollId == [hash : Tips, rev : Revs]

ErrorCodes == {"invalid-parameter", "client-state", "not-connected", "out-of-memory",
               "proposal"}

(* Answers given before the cache and the long poll are reached: an       *)
(* invalid mode, the verdict on a block proposal (mode "proposal"), and   *)
(* the node-state errors (P2P disabled, no peers, initial block download, *)
(* masternode winners or governance not synced).                          *)
EarlyAnswers == {"invalid-parameter", "proposal", "client-state"}

(* "towait": the loop condition held and the thread, still holding        *)
(* g_best_block_mutex, is about to block in wait_until.                    *)
PcStates == {"idle", "lpcheck", "towait", "sleeping", "reenter", "replied"}
Waiting == {"lpcheck", "towait", "sleeping"}

TypeOK ==
    /\ tip \in Tips /\ txUpdated \in Revs /\ rpcRunning \in BOOLEAN
    /\ stopNotified \in BOOLEAN
    /\ cache \in [prev : Tips \cup {NULL}, algo : Algos, txLast : Revs,
                  tmpl : Template \cup {NULL}]
    /\ age \in Ages
    /\ pc \in [Clients -> PcStates]
    /\ req \in [Clients -> [algo : Algos, segwit : BOOLEAN] \cup {NULL}]
    /\ watch \in [Clients -> LongPollId \cup {NULL}]
    /\ reply \in [Clients -> LongPollId \cup [error : ErrorCodes] \cup {NULL}]

Init ==
    /\ tip = 0 /\ txUpdated = 0 /\ rpcRunning = TRUE /\ stopNotified = FALSE
    \* statics start zeroed: pindexPrev = nullptr, pblocktemplate empty
    /\ cache = [prev |-> NULL, algo |-> InitialAlgo, txLast |-> 0, tmpl |-> NULL]
    /\ age = TemplateMaxAge + 1
    /\ pc = [c \in Clients |-> "idle"]
    /\ req = [c \in Clients |-> NULL]
    /\ watch = [c \in Clients |-> NULL]
    /\ reply = [c \in Clients |-> NULL]

(* The thread answers and its locals (request, watched chain) go out of    *)
(* scope.                                                                  *)
Answer(c, r) ==
    /\ reply' = [reply EXCEPT ![c] = r]
    /\ pc' = [pc EXCEPT ![c] = "replied"]
    /\ req' = [req EXCEPT ![c] = NULL]
    /\ watch' = [watch EXCEPT ![c] = NULL]

Error(c, code) == Answer(c, [error |-> code])

(* Mutant: the cache test of the code this was forked from, which does  *)
(* not compare the algorithm the template was built for.                  *)
NeedsRebuildAnyAlgo(algo) ==
    \/ cache.prev # tip
    \/ txUpdated # cache.txLast /\ age > TemplateMaxAge

(* The cache test of lines 913-915: the cached template is rebuilt when    *)
(* the tip moved, when the mempool changed and the template is more than  *)
(* TemplateMaxAge seconds old, or when it was built for another algorithm.*)
NeedsRebuild(algo) ==
    \/ cache.prev # tip
    \/ txUpdated # cache.txLast /\ age > TemplateMaxAge
    \/ algo # cache.algo

(* Mutant: pindexPrev is set to the tip before CreateNewBlock runs.       *)
RebuildTemplateEarlyPrev(c, algo) ==
    /\ age' = 0
    /\ \/ /\ cache' = [prev |-> tip, algo |-> algo, txLast |-> txUpdated,
                       tmpl |-> [prev |-> tip, algo |-> algo, rev |-> txUpdated]]
          /\ Answer(c, [hash |-> tip, rev |-> txUpdated])
       \/ /\ cache' = [prev |-> tip, algo |-> algo, txLast |-> txUpdated, tmpl |-> NULL]
          /\ Error(c, "out-of-memory")

(* Lines 917-934: pindexPrev is cleared first, nTransactionsUpdatedLast,  *)
(* nStart and nTemplatePowAlgo are stored, then CreateNewBlock runs; only *)
(* when it succeeds is pindexPrev set to the tip.  A failure throws        *)
(* RPC_OUT_OF_MEMORY and leaves the cache cleared.                         *)
RebuildTemplate(c, algo) ==
    /\ age' = 0
    /\ \/ /\ cache' = [prev |-> tip, algo |-> algo, txLast |-> txUpdated,
                       tmpl |-> [prev |-> tip, algo |-> algo, rev |-> txUpdated]]
          /\ Answer(c, [hash |-> tip, rev |-> txUpdated])
       \/ /\ cache' = [prev |-> NULL, algo |-> algo, txLast |-> txUpdated, tmpl |-> NULL]
          /\ Error(c, "out-of-memory")

(* Lines 935-941: the cached template pblocktemplate is served after      *)
(* assert(pindexPrev); UpdateTime and the nNonce reset refresh its header, *)
(* which the model's template does not carry.  The longpollid (line 1058)  *)
(* is made of the current tip and nTransactionsUpdatedLast.                *)
ServeCached(c) ==
    /\ cache.prev # NULL   \* assert(pindexPrev)
    /\ Answer(c, [hash |-> tip, rev |-> cache.txLast])
    /\ UNCHANGED <<cache, age>>

(* Lines 896-1058, run with cs_main held: the segwit rule check, then the *)
(* cache test, then the reply.                                             *)
Respond(c, r) ==
    IF ~r.segwit /\ ~BackCompatible
    THEN Error(c, "invalid-parameter") /\ UNCHANGED <<cache, age>>
    ELSE IF NeedsRebuild(r.algo) THEN RebuildTemplate(c, r.algo) ELSE ServeCached(c)

(* The longpollid inputs a client can send: none, a non-string value, or  *)
(* the longpollid of the last template it received.                        *)
LongPollInputs(c) ==
    {NoLP, NonStringLP}
      \cup (IF reply[c] \in LongPollId THEN {reply[c]} ELSE {})

(* Mutant: an unknown algorithm name is not rejected.                     *)
UnknownAlgoUnchecked(algo) == FALSE

(* Lines 825-830: GetAlgoId returns ALGO_NULL for an unknown name, which  *)
(* is rejected with RPC_INVALID_PARAMETER.                                 *)
UnknownAlgo(algo) == algo = AlgoNull

(* Lines 748-870: a request is parsed with cs_main held.  The early       *)
(* answers and an unknown algorithm are reported before the long poll.  A *)
(* request without longpollid is answered at once; with one, the thread   *)
(* fixes the chain and mempool revision it watches and releases cs_main.  *)
GbtRequestFor(c, algo) ==
    /\ pc[c] \in {"idle", "replied"} /\ rpcRunning
    /\ \E segwit \in BOOLEAN, lp \in LongPollInputs(c) :
        LET r == [algo |-> algo, segwit |-> segwit] IN
        \/ /\ \E code \in EarlyAnswers : Error(c, code)
           /\ UNCHANGED <<cache, age>>
        \/ /\ UnknownAlgo(algo)
           /\ Error(c, "invalid-parameter")
           /\ UNCHANGED <<cache, age>>
        \/ /\ ~UnknownAlgo(algo) /\ lp = NoLP
           /\ Respond(c, r)
        \/ /\ ~UnknownAlgo(algo) /\ lp # NoLP
           /\ req' = [req EXCEPT ![c] = r]
           /\ watch' = [watch EXCEPT ![c] =
                 IF lp = NonStringLP THEN [hash |-> tip, rev |-> cache.txLast] ELSE lp]
           /\ pc' = [pc EXCEPT ![c] = "lpcheck"]
           /\ reply' = [reply EXCEPT ![c] = NULL]
           /\ UNCHANGED <<cache, age>>
    /\ UNCHANGED <<tip, txUpdated, rpcRunning, stopNotified>>

GbtRequest(c) == \E algo \in Algos \cup {AlgoNull} : GbtRequestFor(c, algo)

(* Line 878: the while condition, evaluated with g_best_block_mutex held: *)
(* the watched tip is still the best block and RPC is running.             *)
KeepWaiting(c) == tip = watch[c].hash /\ rpcRunning

(* Lines 877-878: with g_best_block_mutex held the loop condition is      *)
(* evaluated; while KeepWaiting the thread goes on to wait, otherwise it   *)
(* leaves the loop.                                                        *)
LongPollCheck(c) ==
    /\ pc[c] = "lpcheck"
    /\ pc' = [pc EXCEPT ![c] = IF KeepWaiting(c) THEN "towait" ELSE "reenter"]
    /\ UNCHANGED <<tip, txUpdated, rpcRunning, stopNotified, cache, age, req, watch, reply>>

(* Line 880: wait_until releases g_best_block_mutex and blocks on          *)
(* g_best_block_cv in one step.  A notify_all issued between the check and *)
(* this step without the mutex held is not seen by the thread.            *)
LongPollWait(c) ==
    /\ pc[c] = "towait"
    /\ pc' = [pc EXCEPT ![c] = "sleeping"]
    /\ UNCHANGED <<tip, txUpdated, rpcRunning, stopNotified, cache, age, req, watch, reply>>

(* Mutant: a timeout ends the long poll whether or not the mempool        *)
(* changed.                                                                *)
MempoolChangedAlways(c) == TRUE

(* Line 882: the mempool moved past the watched revision.                 *)
MempoolChanged(c) == txUpdated # watch[c].rev

(* Lines 880-886: wait_until returned cv_status::timeout at checktxtime, *)
(* one minute after the wait began and every ten seconds after that; the  *)
(* deadline itself is not kept, a sleeping thread may time out at any     *)
(* later step.  If the mempool changed the loop is left; otherwise the    *)
(* deadline moves on and the loop condition is rechecked.                 *)
LongPollTimeout(c) ==
    /\ pc[c] = "sleeping"
    /\ pc' = [pc EXCEPT ![c] = IF MempoolChanged(c) THEN "reenter" ELSE "lpcheck"]
    /\ UNCHANGED <<tip, txUpdated, rpcRunning, stopNotified, cache, age, req, watch, reply>>

(* Mutant: after shutdown the thread goes back into the wait loop instead *)
(* of failing with RPC_CLIENT_NOT_CONNECTED.                              *)
LongPollReenterRetries(c) ==
    /\ pc[c] = "reenter"
    /\ IF ~rpcRunning
       THEN pc' = [pc EXCEPT ![c] = "lpcheck"] /\ UNCHANGED <<cache, age, req, watch, reply>>
       ELSE Respond(c, req[c])
    /\ UNCHANGED <<tip, txUpdated, rpcRunning, stopNotified>>

(* Lines 889-893 and the rest of the handler: cs_main is taken again; on  *)
(* shutdown the call fails with RPC_CLIENT_NOT_CONNECTED, otherwise the   *)
(* request is answered as one without a long poll.                        *)
LongPollReenter(c) ==
    /\ pc[c] = "reenter"
    /\ IF ~rpcRunning
       THEN Error(c, "not-connected") /\ UNCHANGED <<cache, age>>
       ELSE Respond(c, req[c])
    /\ UNCHANGED <<tip, txUpdated, rpcRunning, stopNotified>>

(* The threads sleeping on g_best_block_cv: notify_all makes every one of *)
(* them recheck the loop condition.                                        *)
WakeAll == [c \in Clients |-> IF pc[c] = "sleeping" THEN "lpcheck" ELSE pc[c]]

(* A block is connected (validation.cpp, outside this file): with cs_main *)
(* held the tip moves and UpdateTip stores the new hash in g_best_block   *)
(* and notifies g_best_block_cv under g_best_block_mutex.  A reorg is     *)
(* another tip change; only the identity of the tip matters here.         *)
NewTip ==
    /\ \A c \in Clients : pc[c] # "towait"   \* g_best_block_mutex is free
    /\ tip < MaxTip
    /\ tip' = tip + 1
    /\ pc' = WakeAll
    /\ UNCHANGED <<txUpdated, rpcRunning, stopNotified, cache, age, req, watch, reply>>

(* A transaction enters or leaves the mempool (txmempool.cpp): the        *)
(* counter returned by GetTransactionsUpdated() grows.                     *)
MempoolUpdate ==
    /\ txUpdated < MaxTxUpdated
    /\ txUpdated' = txUpdated + 1
    /\ UNCHANGED <<tip, rpcRunning, stopNotified, cache, age, pc, req, watch, reply>>

(* prioritisetransaction (lines 584-602), under cs_main:                   *)
(* CTxMemPool::PrioritiseTransaction (txmempool.cpp) records the fee delta *)
(* and bumps the counter GetTransactionsUpdated() returns.  A non-zero     *)
(* 'dummy' throws RPC_INVALID_PARAMETER and changes nothing.               *)
PrioritiseTransaction ==
    /\ txUpdated < MaxTxUpdated
    /\ txUpdated' = txUpdated + 1
    /\ UNCHANGED <<tip, rpcRunning, stopNotified, cache, age, pc, req, watch, reply>>

(* One second passes: GetTime() - nStart grows.                          *)
Tick ==
    /\ age <= TemplateMaxAge
    /\ age' = age + 1
    /\ UNCHANGED <<tip, txUpdated, rpcRunning, stopNotified, cache, pc, req, watch, reply>>

(* Shutdown, first phase (InterruptRPC in rpc/server.cpp, outside this   *)
(* file): fRPCRunning is cleared.  Nothing is notified and no mutex of     *)
(* this file is taken.                                                     *)
InterruptRPC ==
    /\ rpcRunning
    /\ rpcRunning' = FALSE
    /\ UNCHANGED <<tip, txUpdated, stopNotified, cache, age, pc, req, watch, reply>>

(* Shutdown, second phase (StopRPC, then OnRPCStopped in init.cpp,        *)
(* outside this file): g_best_block_cv.notify_all() is called without     *)
(* g_best_block_mutex, so it wakes the threads already blocked in the wait *)
(* and none that is between the loop check and the wait.                   *)
RPCStopped ==
    /\ ~rpcRunning /\ ~stopNotified
    /\ stopNotified' = TRUE
    /\ pc' = WakeAll
    /\ UNCHANGED <<tip, txUpdated, rpcRunning, cache, age, req, watch, reply>>

(* After shutdown every thread has answered and the server has stopped.   *)
Stopped ==
    /\ stopNotified /\ \A c \in Clients : pc[c] \in {"idle", "replied"}
    /\ UNCHANGED vars

Next ==
    \/ \E c \in Clients :
         \/ GbtRequest(c) \/ LongPollCheck(c) \/ LongPollWait(c) \/ LongPollTimeout(c)
         \/ LongPollReenter(c)
    \/ NewTip \/ MempoolUpdate \/ PrioritiseTransaction \/ Tick \/ InterruptRPC \/ RPCStopped \/ Stopped

(* A thread that holds work keeps running, and time keeps passing; new    *)
(* requests, blocks, mempool updates, spurious wakeups and shutdown are   *)
(* up to the environment.                                                  *)
Fairness ==
    /\ \A c \in Clients : /\ WF_vars(LongPollCheck(c))
                          /\ WF_vars(LongPollWait(c))
                          /\ WF_vars(LongPollTimeout(c))
                          /\ WF_vars(LongPollReenter(c))
    /\ WF_vars(Tick)

Spec == Init /\ [][Next]_vars /\ Fairness

-----------------------------------------------------------------------------
(* A step in which thread c answers a request for algorithm a with a     *)
(* template; the template handed out is the one the cache then holds.     *)
ServedTemplate(c, a) ==
    /\ \/ GbtRequestFor(c, a)
       \/ LongPollReenter(c) /\ req[c].algo = a
    /\ pc'[c] = "replied" /\ reply'[c] \in LongPollId

(* Every template handed to a client builds on the tip that is current    *)
(* when it is handed out and carries the algorithm the client asked for,  *)
(* also when the request waited in a long poll while blocks arrived and   *)
(* other clients rebuilt the shared cache for other algorithms.           *)
TemplateMatchesRequest ==
    [][\A c \in Clients, a \in Algos :
         ServedTemplate(c, a) => cache'.tmpl.prev = tip /\ cache'.tmpl.algo = a]_vars

(* Whenever the cache names a tip it also holds a template built on that  *)
(* tip for the cached algorithm from the recorded mempool revision, so    *)
(* the assert(pindexPrev) path never serves a missing or foreign template,*)
(* also after CreateNewBlock failed.                                       *)
CacheCoherent ==
    cache.prev # NULL =>
        /\ cache.tmpl # NULL
        /\ cache.tmpl.prev = cache.prev
        /\ cache.tmpl.algo = cache.algo
        /\ cache.tmpl.rev = cache.txLast

(* Spec 4.8 ("exit immediately if shutdown is requested") and section 5  *)
(* ("a shutdown-requested flag ... wakes LongPollWaiter"): once           *)
(* OnRPCStopped has notified g_best_block_cv, no thread is still blocked  *)
(* in the wait of lines 877-886, where only its one-minute or ten-second  *)
(* timer would end the wait.                                               *)
LongPollExitsOnShutdown ==
    stopNotified => \A c \in Clients : pc[c] # "sleeping"

(* Once RPC stops, every thread inside getblocktemplate eventually        *)
(* answers, also one that sits in a long poll on an unchanged chain and   *)
(* mempool.                                                                *)
ShutdownReleasesWaiters ==
    ~rpcRunning ~> \A c \in Clients : pc[c] \in {"idle", "replied"}

(* The promise of TemplateService, seen through the threads: a thread in  *)
(* the long poll (checking, sleeping or re-entering) is waiting, and it    *)
(* watches hashWatchedChain and nTransactionsUpdatedLastLP.                *)
TS == INSTANCE TemplateService
        WITH phase <- [c \in Clients |->
                         IF pc[c] \in Waiting \cup {"reenter"} THEN "waiting" ELSE pc[c]],
             watched <- watch

(* getblocktemplate keeps the promise of TemplateService: every answer     *)
(* hands out a template on the current tip from a mempool revision no      *)
(* newer than the current one, or an error, and a long poll answers only   *)
(* after shutdown or once the tip or the mempool moved past the watched    *)
(* longpollid, however the timeouts, wakeups and other threads' rebuilds   *)
(* interleave.                                                             *)
ImplementsTemplateService == TS!Spec
=============================================================================
