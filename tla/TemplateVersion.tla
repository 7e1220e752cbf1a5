--------------------------- MODULE TemplateVersion ---------------------------
(***************************************************************************)
(* The versionbits negotiation of getblocktemplate, src/rpc/mining.cpp     *)
(* lines 908-934 (the static template cache, reduced to its tip key) and   *)
(* 996-1036 (the loop over the deployments).  The loop edits nVersion of   *)
(* the cached block in place: 'pblock' points into the static              *)
(* pblocktemplate, so an edit made for one client stays in the template    *)
(* the next client is served from, until the tip changes.                  *)
(*                                                                         *)
(* A block version is abstracted to the set of deployment bits it sets.    *)
(* The BIP9 state machine and ComputeBlockVersion are outside src/ and     *)
(* modelled from BIP9: a new tip may move each deployment one state along  *)
(* DEFINED -> STARTED -> LOCKED_IN -> ACTIVE or STARTED -> FAILED, and a   *)
(* fresh template signals the deployments that are STARTED or LOCKED_IN.   *)
(* Which deployments carry gbt_force is the constant Force.                *)
(***************************************************************************)
EXTENDS Integers, Sequences, FiniteSets

CONSTANTS
    Deployments,   \* the order of Consensus::DeploymentPos, as a sequence
    Force,         \* deployments whose VBDeploymentInfo has gbt_force
    RuleSets,      \* the 'rules' arrays clients send
    MaxTip         \* bound on the number of tips

VARIABLES
    tip,      \* chainActive.Tip(), as a height
    dstate,   \* VersionBitsState of each deployment at the tip
    cache,    \* the static cache: the tip it was built on and its nVersion bits
    reply     \* the last reply: the client's rules, the tip, outcome, version

vars == <<tip, dstate, cache, reply>>

DeploymentSet == {Deployments[i] : i \in 1..Len(Deployments)}
States == {"defined", "started", "locked_in", "active", "failed"}
Bip9Successors == [defined |-> {"started"}, started |-> {"locked_in", "failed"},
          locked_in |-> {"active"}, active |-> {}, failed |-> {}]

(* ComputeBlockVersion: the bits of the deployments being signalled.       *)
ComputeBlockVersion(ds) == {d \in DeploymentSet : ds[d] \in {"started", "locked_in"}}

Unsupported(d, rules) == d \notin rules /\ d \notin Force

(* The edit of one pass of the loop: LOCKED_IN sets the bit and falls      *)
(* through to STARTED, which clears it when the client does not support a  *)
(* deployment without gbt_force.                                           *)
EditNoFallThrough(bits, d, rules) ==
    CASE dstate[d] = "locked_in" -> bits \cup {d}
      [] dstate[d] = "started"   -> IF Unsupported(d, rules) THEN bits \ {d} ELSE bits
      [] OTHER                   -> bits

EditNoSet(bits, d, rules) ==
    IF dstate[d] \in {"locked_in", "started"} /\ Unsupported(d, rules)
    THEN bits \ {d} ELSE bits

EditVersion(bits, d, rules) ==
    LET set == IF dstate[d] = "locked_in" THEN bits \cup {d} ELSE bits
    IN  IF dstate[d] \in {"locked_in", "started"} /\ Unsupported(d, rules)
        THEN set \ {d} ELSE set

(* ACTIVE and not supported by the client, without gbt_force: throws.      *)
Refused(d, rules) == dstate[d] = "active" /\ Unsupported(d, rules)

(* The loop from position i on: the bits after the edits made before the   *)
(* first refused deployment, and whether one was refused.                  *)
RECURSIVE RunLoop(_, _, _)
RunLoop(bits, i, rules) ==
    IF i > Len(Deployments) THEN [bits |-> bits, refused |-> FALSE]
    ELSE IF Refused(Deployments[i], rules) THEN [bits |-> bits, refused |-> TRUE]
    ELSE RunLoop(EditVersion(bits, Deployments[i], rules), i + 1, rules)

-----------------------------------------------------------------------------
Init ==
    /\ tip = 0
    /\ dstate \in [DeploymentSet -> {"defined", "started"}]
    /\ cache = [prev |-> -1, bits |-> {}]
    /\ reply = [rules |-> {}, tip |-> -1, ok |-> FALSE, version |-> {}]

(* getblocktemplate: rebuild the cached block when the tip changed (the    *)
(* mempool and algorithm keys are modelled in BlockTemplate), then run the *)
(* loop over the deployments on the cached block; nVersion is reported     *)
(* unless a deployment is refused, and the edits stay in the cache either  *)
(* way.                                                                    *)
GetBlockTemplate ==
    \E rules \in RuleSets :
        LET base == IF cache.prev # tip THEN ComputeBlockVersion(dstate) ELSE cache.bits
            run  == RunLoop(base, 1, rules)
        IN  /\ cache' = [prev |-> tip, bits |-> run.bits]
            /\ reply' = [rules |-> rules, tip |-> tip, ok |-> ~run.refused,
                         version |-> run.bits]
            /\ UNCHANGED <<tip, dstate>>

(* Validation connects a block; each deployment may move one BIP9 state.   *)
NewTip ==
    /\ tip < MaxTip
    /\ tip' = tip + 1
    /\ \E f \in [DeploymentSet -> BOOLEAN] :
         \E ds \in [DeploymentSet -> States] :
            /\ \A d \in DeploymentSet :
                 IF f[d] THEN ds[d] \in Bip9Successors[dstate[d]] ELSE ds[d] = dstate[d]
            /\ dstate' = ds
    /\ UNCHANGED <<cache, reply>>

Next == GetBlockTemplate \/ NewTip

Spec == Init /\ [][Next]_vars

-----------------------------------------------------------------------------
(* "If the client doesn't support this, don't indicate it in the           *)
(* [default] version": a template served to a client never signals a       *)
(* started or locked-in deployment without gbt_force that the client did   *)
(* not list, whatever the cached block held.                               *)
VersionHidesUnsupported ==
    reply.ok /\ reply.tip = tip =>
        \A d \in DeploymentSet :
            dstate[d] \in {"started", "locked_in"} /\ Unsupported(d, reply.rules)
                => d \notin reply.version

(* A locked-in deployment is signalled to every client that may signal it, *)
(* even when an earlier client was served the same cached block with the   *)
(* bit cleared.                                                            *)
LockedInSignalled ==
    reply.ok /\ reply.tip = tip =>
        \A d \in DeploymentSet :
            dstate[d] = "locked_in" /\ ~Unsupported(d, reply.rules) => d \in reply.version
====
