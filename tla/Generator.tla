----------------------------- MODULE Generator ------------------------------
(***************************************************************************)
(* generateBlocks and generatetoaddress of src/rpc/mining.cpp (lines      *)
(* 182-267): RPC threads that each mine nblocks blocks on top of the       *)
(* active chain.                                                           *)
(*                                                                         *)
(* cs_main is held only to read the height and to call IncrementExtraNonce;*)
(* the nonce scan runs unlocked, so validation (a block from the network   *)
(* or from another generating thread) may move the tip between any two     *)
(* steps of a thread.  One step of a thread is one statement of the outer  *)
(* loop, or one hash of the inner nonce loop.  Whether a nonce meets the   *)
(* target is a nondeterministic choice: the hash is opaque.                *)
(*                                                                         *)
(* Validation is outside src/ and modelled from the spec (section 4.9):    *)
(* CreateNewBlock builds on the current tip or fails; ProcessNewBlock      *)
(* connects a block whose parent is the tip, keeps one whose parent is not *)
(* as a stale side block, and rejects one whose coinbase commits a height  *)
(* other than its own (the coinbase height comes from the tip read by      *)
(* IncrementExtraNonce, not from the block's parent).                      *)
(***************************************************************************)
EXTENDS Integers, FiniteSets

CONSTANTS
    Miners,          \* RPC threads running generatetoaddress
    NGenerateArgs,   \* 'nblocks' arguments
    MaxTriesArgs,    \* 'maxtries' arguments, as the int get_int() returns
    TriesModulus,    \* 2^64 of uint64_t nMaxTries, scaled down
    InnerLoopCount,  \* nInnerLoopCount = 0x10000, scaled down
    MaxNetworkBlocks \* bound on blocks connected by other nodes

VARIABLES
    height,    \* chainActive.Height()
    netBlocks, \* blocks other nodes have connected so far
    shutdown,  \* ShutdownRequested()
    gen        \* per thread: program counter and the locals of generateBlocks

vars == <<height, netBlocks, shutdown, gen>>

Pc == {"idle", "loop", "assemble", "extranonce", "scan", "submit", "done"}
Status == {"running", "ok", "error"}

(* uint64_t nMaxTries = request.params[2].get_int(): a negative int wraps. *)
ToUint64(i) == i % TriesModulus

Locals == [pc : Pc, n : NGenerateArgs, arg : MaxTriesArgs,
           nHeight : Int, nHeightEnd : Int, nMaxTries : 0..TriesModulus - 1,
           nNonce : 0..InnerLoopCount, prev : Int, cbTip : Int,
           hashes : Nat, found : Nat, status : Status]

Idle == [pc |-> "idle", n |-> CHOOSE x \in NGenerateArgs : TRUE,
         arg |-> CHOOSE x \in MaxTriesArgs : TRUE, nHeight |-> 0,
         nHeightEnd |-> 0, nMaxTries |-> 0, nNonce |-> 0, prev |-> 0,
         cbTip |-> 0, hashes |-> 0, found |-> 0, status |-> "running"]

Return(m, st) == gen' = [gen EXCEPT ![m].pc = "done", ![m].status = st]

-----------------------------------------------------------------------------
Init ==
    /\ height = 0
    /\ netBlocks = 0
    /\ shutdown = FALSE
    /\ gen = [m \in Miners |-> Idle]

(* generatetoaddress parses its arguments (lines 255-266): an address     *)
(* that does not decode throws RPC_INVALID_ADDRESS_OR_KEY before any block *)
(* is mined; otherwise generateBlocks reads the height under cs_main and   *)
(* releases it.                                                            *)
GenerateToAddress(m) ==
    /\ gen[m].pc = "idle"
    /\ \E n \in NGenerateArgs, t \in MaxTriesArgs :
         \/ Return(m, "error")
         \/ gen' = [gen EXCEPT ![m] = [Idle EXCEPT !.pc = "loop", !.n = n, !.arg = t,
                                         !.nHeight = height, !.nHeightEnd = height + n,
                                         !.nMaxTries = ToUint64(t)]]
    /\ UNCHANGED <<height, netBlocks, shutdown>>

(* 'while (nHeight < nHeightEnd && !ShutdownRequested())'                  *)
LoopTest(m) ==
    /\ gen[m].pc = "loop"
    /\ IF gen[m].nHeight < gen[m].nHeightEnd /\ ~shutdown
         THEN gen' = [gen EXCEPT ![m].pc = "assemble"]
         ELSE Return(m, "ok")
    /\ UNCHANGED <<height, netBlocks, shutdown>>

(* CreateNewBlock on the current tip, with nNonce = 0; a null template     *)
(* throws RPC_INTERNAL_ERROR.                                              *)
CreateNewBlock(m) ==
    /\ gen[m].pc = "assemble"
    /\ \/ gen' = [gen EXCEPT ![m].pc = "extranonce", ![m].prev = height,
                             ![m].nNonce = 0]
       \/ Return(m, "error")
    /\ UNCHANGED <<height, netBlocks, shutdown>>

(* LOCK(cs_main); IncrementExtraNonce(pblock, chainActive.Tip(), ...):     *)
(* the coinbase commits the height after the tip read now.                 *)
IncrementExtraNonce(m) ==
    /\ gen[m].pc = "extranonce"
    /\ gen' = [gen EXCEPT ![m].pc = "scan", ![m].cbTip = height]
    /\ UNCHANGED <<height, netBlocks, shutdown>>

(* Mutant: the inner loop does not test nMaxTries.                      *)
TryNextNonceNoTriesCheck(m) == gen[m].nNonce < InnerLoopCount

(* The first two conditions of the inner loop (line 207).                 *)
TryNextNonce(m) == gen[m].nMaxTries > 0 /\ gen[m].nNonce < InnerLoopCount

(* One iteration of the inner loop: the nonce misses the target.           *)
HashMiss(m) ==
    /\ gen[m].pc = "scan"
    /\ TryNextNonce(m)
    /\ gen' = [gen EXCEPT ![m].nNonce = @ + 1, ![m].nMaxTries = @ - 1,
                          ![m].hashes = @ + 1]
    /\ UNCHANGED <<height, netBlocks, shutdown>>

(* The nonce meets the target: the loop exits with nMaxTries unchanged,    *)
(* so neither the break nor the continue is taken.                         *)
HashHit(m) ==
    /\ gen[m].pc = "scan"
    /\ TryNextNonce(m)
    /\ gen' = [gen EXCEPT ![m].pc = "submit", ![m].hashes = @ + 1]
    /\ UNCHANGED <<height, netBlocks, shutdown>>

(* Mutants: the break is never, or always, taken.                        *)
BreaksOnMaxTriesNever(m) == FALSE
BreaksOnMaxTriesAlways(m) == TRUE

(* 'if (nMaxTries == 0) break;' (lines 212-214).                          *)
BreaksOnMaxTries(m) == gen[m].nMaxTries = 0

(* The loop exits on its first two conditions: 'if (nMaxTries == 0)        *)
(* break;' returns the hashes found so far, 'if (nNonce ==                 *)
(* nInnerLoopCount) continue;' assembles a fresh block.                    *)
ScanExhausted(m) ==
    /\ gen[m].pc = "scan"
    /\ gen[m].nMaxTries = 0 \/ gen[m].nNonce = InnerLoopCount
    /\ IF BreaksOnMaxTries(m)
         THEN Return(m, "ok")
         ELSE gen' = [gen EXCEPT ![m].pc = "loop"]
    /\ UNCHANGED <<height, netBlocks, shutdown>>

(* ProcessNewBlock(force = true): a block on the tip is connected, a block *)
(* on an older parent is stored as a stale side block (accepted), a block  *)
(* whose coinbase height is wrong is rejected and the RPC throws.  An      *)
(* accepted block is counted: ++nHeight and its hash is returned.          *)
SubmitAccept(m) ==
    /\ gen[m].pc = "submit"
    /\ gen[m].cbTip = gen[m].prev
    /\ height' = IF gen[m].prev = height THEN height + 1 ELSE height
    /\ gen' = [gen EXCEPT ![m].pc = "loop", ![m].nHeight = @ + 1,
                          ![m].found = @ + 1]
    /\ UNCHANGED <<netBlocks, shutdown>>

SubmitReject(m) ==
    /\ gen[m].pc = "submit"
    /\ gen[m].cbTip # gen[m].prev
    /\ Return(m, "error")
    /\ UNCHANGED <<height, netBlocks, shutdown>>

(* Another node's block is connected on the tip.                           *)
NetworkBlock ==
    /\ netBlocks < MaxNetworkBlocks
    /\ height' = height + 1
    /\ netBlocks' = netBlocks + 1
    /\ UNCHANGED <<shutdown, gen>>

RequestShutdown ==
    /\ ~shutdown
    /\ shutdown' = TRUE
    /\ UNCHANGED <<height, netBlocks, gen>>

(* Every call has returned and the environment has nothing left to do.     *)
Terminated ==
    /\ \A m \in Miners : gen[m].pc = "done"
    /\ UNCHANGED vars

Step(m) ==
    \/ GenerateToAddress(m)
    \/ LoopTest(m)
    \/ CreateNewBlock(m)
    \/ IncrementExtraNonce(m)
    \/ HashMiss(m)
    \/ HashHit(m)
    \/ ScanExhausted(m)
    \/ SubmitAccept(m)
    \/ SubmitReject(m)

Next ==
    \/ \E m \in Miners : Step(m)
    \/ NetworkBlock
    \/ RequestShutdown
    \/ Terminated

(* Each RPC thread keeps running while it has a step to take.              *)
Fairness == \A m \in Miners : WF_vars(Step(m))

Spec == Init /\ [][Next]_vars /\ Fairness

-----------------------------------------------------------------------------
TypeOK ==
    /\ height \in Nat
    /\ netBlocks \in 0..MaxNetworkBlocks
    /\ shutdown \in BOOLEAN
    /\ gen \in [Miners -> Locals]

(* A call that returns normally, with tries left and no shutdown           *)
(* requested, returns the hash of every one of the nblocks blocks: an      *)
(* exhausted nonce range assembles a fresh block ('continue') and never    *)
(* ends the call.                                                          *)
ReturnsRequestedBlocks ==
    \A m \in Miners :
        gen[m].status = "ok" /\ gen[m].nMaxTries > 0 /\ ~shutdown
            => gen[m].found = IF gen[m].n > 0 THEN gen[m].n ELSE 0

(* Every generatetoaddress call returns, whatever blocks arrive from the   *)
(* network: each pass of the loop either consumes tries or counts a block. *)
GeneratorReturns ==
    \A m \in Miners : gen[m].pc # "idle" ~> gen[m].pc = "done"
====
