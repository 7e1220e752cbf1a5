------------------------------- MODULE Submit -------------------------------
(***************************************************************************)
(* The submission pipeline of src/rpc/mining.cpp: submitblock with its     *)
(* submitblock_StateCatcher (lines 1129-1211), submitheader (1213-1252)    *)
(* and the 'proposal' mode of getblocktemplate (768-795).                  *)
(*                                                                         *)
(* submitblock takes cs_main only for its dedupe lookup; the catcher is    *)
(* registered before ProcessNewBlock and unregistered after it, and every  *)
(* registered catcher sees every BlockChecked signal, including those      *)
(* raised by other threads' submissions.  Each of these is a step of its   *)
(* own.  submitheader and the proposal mode run under cs_main and are one  *)
(* step each.                                                              *)
(*                                                                         *)
(* Validation is outside src/ and modelled from the spec (section 4.10)    *)
(* and BIP22: ProcessNewBlock is one atomic step that stores a new block,  *)
(* then moves the tip to the longest fully stored chain, connecting its    *)
(* blocks one by one (BlockChecked: valid) or marking a block that fails   *)
(* its scripts as failed (BlockChecked: invalid).  A block already stored  *)
(* is not new and raises no signal; one marked failed, or one whose parent *)
(* is unknown, is refused with a signal carrying the reason.  A block's    *)
(* status in the index is the highest level it reached: "header" (header   *)
(* known), "data" (stored), "valid" (connected once: IsValid(SCRIPTS)) or  *)
(* "failed" (BLOCK_FAILED_MASK).                                           *)
(***************************************************************************)
EXTENDS Integers, FiniteSets, TLC

CONSTANTS
    Clients,    \* RPC threads
    Blocks,     \* the blocks clients may submit
    Genesis,    \* the genesis block
    Parent,     \* hashPrevBlock of every block
    BadScript,  \* the blocks whose scripts fail ConnectBlock
    MaxCalls,   \* bound on the calls each client makes
    NULL

(* ProcessNewBlock below marks a failing block and keeps the tip below it; *)
(* what ActivateBestChain does with the descendants of a failing block is  *)
(* not modelled, so a block whose scripts fail has no children here.       *)
ASSUME \A b \in Blocks : Parent[b] \notin BadScript

VARIABLES
    index,     \* block -> "none", "header", "data", "valid" or "failed"
    tip,       \* chainActive.Tip()
    sb,        \* per client: program counter and locals of the current call
    calls,     \* per client: calls made so far
    nullSeen   \* per block: the number of submitblock calls that returned null

vars == <<index, tip, sb, calls, nullSeen>>

Status == {"none", "header", "data", "valid", "failed"}
Pc == {"idle", "dedupe", "register", "process", "unregister"}

(* The results of submitblock and of a proposal: null is "null".           *)
Results == {"none", "null", "duplicate", "duplicate-invalid", "duplicate-inconclusive",
            "inconclusive", "inconclusive-not-best-prevblk", "bad-txns",
            "prev-blk-not-found", "decode-error", "verify-error"}

RECURSIVE HeightOf(_)
HeightOf(b) == IF b = Genesis THEN 0 ELSE HeightOf(Parent[b]) + 1

RECURSIVE Ancestors(_)
Ancestors(b) == IF b = Genesis THEN {} ELSE {b} \cup Ancestors(Parent[b])

Known(b) == b = Genesis \/ index[b] # "none"
HasData(b) == index[b] \in {"data", "valid"}

(* A per-catcher validation result: checked or not, and the state.         *)
NoCheck == [found |-> FALSE, state |-> "none"]

Idle == [pc |-> "idle", blk |-> NULL, newBlock |-> FALSE, accepted |-> FALSE,
         registered |-> FALSE, sc |-> NoCheck, result |-> "none"]

Finish(c, r) == sb' = [sb EXCEPT ![c] = [Idle EXCEPT !.result = r]]

-----------------------------------------------------------------------------
Init ==
    /\ index = [b \in Blocks |-> "none"]
    /\ tip = Genesis
    /\ sb = [c \in Clients |-> Idle]
    /\ calls = [c \in Clients |-> 0]
    /\ nullSeen = [b \in Blocks |-> 0]

(* submitblock: DecodeHexBlk, then the coinbase check; both failures       *)
(* throw RPC_DESERIALIZATION_ERROR.                                        *)
SubmitBlock(c) ==
    /\ sb[c].pc = "idle"
    /\ calls[c] < MaxCalls
    /\ calls' = [calls EXCEPT ![c] = @ + 1]
    /\ \/ \E b \in Blocks : sb' = [sb EXCEPT ![c] = [Idle EXCEPT !.pc = "dedupe", !.blk = b]]
       \/ Finish(c, "decode-error")
    /\ UNCHANGED <<index, tip, nullSeen>>

(* LOCK(cs_main); LookupBlockIndex(hash): a block validated once is        *)
(* "duplicate", a failed one "duplicate-invalid".  The second locked       *)
(* block, UpdateUncommittedBlockStructures, changes only the block's       *)
(* witness commitment and is part of this step.                            *)
Dedupe(c) ==
    LET st == index[sb[c].blk] IN
    /\ sb[c].pc = "dedupe"
    /\ CASE st = "valid"  -> Finish(c, "duplicate")
         [] st = "failed" -> Finish(c, "duplicate-invalid")
         [] OTHER         -> sb' = [sb EXCEPT ![c].pc = "register"]
    /\ UNCHANGED <<index, tip, calls, nullSeen>>

(* RegisterValidationInterface(&sc) with found = false.                    *)
Register(c) ==
    /\ sb[c].pc = "register"
    /\ sb' = [sb EXCEPT ![c].pc = "process", ![c].registered = TRUE]
    /\ UNCHANGED <<index, tip, calls, nullSeen>>

(* The BlockChecked signals of one ProcessNewBlock call, as a function     *)
(* from blocks to validation states, delivered to every catcher that is    *)
(* registered for the block's hash; a later signal replaces an earlier.    *)
Deliver(sig) ==
    [c \in Clients |->
        IF sb[c].registered /\ sb[c].blk \in DOMAIN sig
        THEN [sb[c] EXCEPT !.sc = [found |-> TRUE, state |-> sig[sb[c].blk]]]
        ELSE sb[c]]

(* ProcessNewBlock(force = true, &new_block) for client c's block b.  A    *)
(* new block is stored; ActivateBestChain then moves to the longest chain  *)
(* whose blocks are all stored (cand), connecting the blocks of that chain *)
(* above the fork (path) and marking a block whose scripts fail as failed. *)
ProcessNewBlock(c) ==
    LET b == sb[c].blk
        stored == [index EXCEPT ![b] = "data"]
        cand == {x \in Blocks : /\ \A a \in Ancestors(x) : stored[a] \in {"data", "valid"}
                                /\ HeightOf(x) > HeightOf(tip)}
        best == CHOOSE x \in cand : \A y \in cand : HeightOf(y) <= HeightOf(x)
        path == Ancestors(best) \ Ancestors(tip)
        good == path \ BadScript
        Done(nb, acc, sig) ==
            sb' = [Deliver(sig) EXCEPT ![c].pc = "unregister", ![c].newBlock = nb,
                                       ![c].accepted = acc]
    IN
    /\ sb[c].pc = "process"
    /\ CASE index[b] = "failed" ->
              /\ Done(FALSE, FALSE, b :> "duplicate")
              /\ UNCHANGED <<index, tip>>
         [] index[b] = "none" /\ ~Known(Parent[b]) ->
              /\ Done(FALSE, FALSE, b :> "prev-blk-not-found")
              /\ UNCHANGED <<index, tip>>
         [] HasData(b) ->
              /\ Done(FALSE, TRUE, <<>>)
              /\ UNCHANGED <<index, tip>>
         [] OTHER ->
              IF cand = {}
              THEN /\ index' = stored
                   /\ Done(TRUE, TRUE, <<>>)
                   /\ UNCHANGED tip
              ELSE /\ index' = [x \in Blocks |->
                                  IF x \in good THEN "valid"
                                  ELSE IF x \in path THEN "failed" ELSE stored[x]]
                   /\ tip' = IF best \in BadScript THEN tip ELSE best
                   /\ Done(TRUE, TRUE,
                           [x \in path |-> IF x \in BadScript THEN "bad-txns" ELSE "valid"])
    /\ UNCHANGED <<calls, nullSeen>>

(* Mutant: the caught state is returned as it is.                       *)
BIP22ValidationResultRaw(state) == state

(* Lines 604-620: a valid state is the null result, an invalid one its    *)
(* reject reason.  Validation here always gives a reason and never an     *)
(* error state.                                                            *)
BIP22ValidationResult(state) == IF state = "valid" THEN "null" ELSE state

(* Mutant: a missing BlockChecked is reported as acceptance.              *)
SubmitResultNoInconclusive(c) ==
    IF ~sb[c].newBlock /\ sb[c].accepted THEN "duplicate"
    ELSE IF sb[c].sc.state \in {"valid", "none"} THEN "null"
    ELSE sb[c].sc.state

(* The result of submitblock (lines 1205-1211): "duplicate" for a block    *)
(* that was not new but accepted, "inconclusive" when no BlockChecked      *)
(* arrived, otherwise BIP22ValidationResult of the caught state.          *)
SubmitResult(c) ==
    IF ~sb[c].newBlock /\ sb[c].accepted THEN "duplicate"
    ELSE IF ~sb[c].sc.found THEN "inconclusive"
    ELSE BIP22ValidationResult(sb[c].sc.state)

(* Counts a call that returned null for its block.                        *)
CountNull(c, r) ==
    nullSeen' = IF r = "null" THEN [nullSeen EXCEPT ![sb[c].blk] = @ + 1] ELSE nullSeen

(* UnregisterValidationInterface(&sc), then the result.                    *)
Unregister(c) ==
    LET r == SubmitResult(c)
    IN  /\ sb[c].pc = "unregister"
        /\ Finish(c, r)
        /\ CountNull(c, r)
        /\ UNCHANGED <<index, tip, calls>>

(* submitheader: under cs_main the previous header must be known, then     *)
(* ProcessNewBlockHeaders; an unknown parent or an invalid header (one     *)
(* already marked failed) throws RPC_VERIFY_ERROR.                         *)
SubmitHeader(c) ==
    /\ sb[c].pc = "idle"
    /\ calls[c] < MaxCalls
    /\ calls' = [calls EXCEPT ![c] = @ + 1]
    /\ \E b \in Blocks :
         IF ~Known(Parent[b]) \/ index[b] = "failed"
         THEN /\ Finish(c, "verify-error")
              /\ UNCHANGED index
         ELSE /\ index' = IF index[b] = "none" THEN [index EXCEPT ![b] = "header"] ELSE index
              /\ Finish(c, "null")
    /\ UNCHANGED <<tip, nullSeen>>

(* getblocktemplate in 'proposal' mode, under cs_main: dedupe against the  *)
(* index, then the block must build on the tip, then TestBlockValidity.    *)
Proposal(c) ==
    /\ sb[c].pc = "idle"
    /\ calls[c] < MaxCalls
    /\ calls' = [calls EXCEPT ![c] = @ + 1]
    /\ \E b \in Blocks :
         Finish(c, CASE index[b] = "valid"  -> "duplicate"
                     [] index[b] = "failed" -> "duplicate-invalid"
                     [] index[b] # "none"   -> "duplicate-inconclusive"
                     [] Parent[b] # tip     -> "inconclusive-not-best-prevblk"
                     [] b \in BadScript     -> "bad-txns"
                     [] OTHER               -> "null")
    /\ UNCHANGED <<index, tip, nullSeen>>

(* Every client has made its calls and returned.                           *)
Terminated ==
    /\ \A c \in Clients : sb[c].pc = "idle" /\ calls[c] = MaxCalls
    /\ UNCHANGED vars

Next ==
    \/ \E c \in Clients :
         \/ SubmitBlock(c)
         \/ Dedupe(c)
         \/ Register(c)
         \/ ProcessNewBlock(c)
         \/ Unregister(c)
         \/ SubmitHeader(c)
         \/ Proposal(c)
    \/ Terminated

Spec == Init /\ [][Next]_vars

-----------------------------------------------------------------------------
TypeOK ==
    /\ index \in [Blocks -> Status]
    /\ tip \in Blocks \cup {Genesis}
    /\ \A c \in Clients :
         /\ sb[c].pc \in Pc
         /\ sb[c].blk \in Blocks \cup {NULL}
         /\ sb[c].result \in Results
    /\ calls \in [Clients -> 0..MaxCalls]
    /\ nullSeen \in [Blocks -> Nat]

(* submitblock returns null only for a block that validation connected     *)
(* (IsValid(BLOCK_VALID_SCRIPTS)): a block stored on a side chain, which   *)
(* raises no BlockChecked, is reported "inconclusive".                     *)
NullOnlyIfValidated == \A b \in Blocks : nullSeen[b] > 0 => index[b] = "valid"

(* Spec section 4.10: submitblock registers a one-shot observer for its    *)
(* block and returns the outcome of its own ProcessNewBlock.  So a call    *)
(* whose ProcessNewBlock refused the block (accepted = false) never holds  *)
(* a "valid" state when it unregisters and computes its result.            *)
OwnOutcomeReported ==
    \A c \in Clients :
        sb[c].pc = "unregister" /\ ~sb[c].accepted => sb[c].sc.state # "valid"
====
