------------------------------ MODULE Halving -------------------------------
(***************************************************************************)
(* The supply-gated halving schedule (spec section 4.6) and its reader,    *)
(* gethalvinginfo of src/rpc/mining.cpp (lines 331-457).                   *)
(*                                                                         *)
(* The schedule lives outside src/ and is modelled from the spec: when a   *)
(* block is accepted past the end of the current epoch, the epoch is       *)
(* finalized and a new one begins, halved when the finished epoch released *)
(* at least MinSupplyTargetPct percent of its supply target.  The first    *)
(* three epochs are the named ones and never halve.  Block acceptance and  *)
(* the schedule update happen together under cs_main.                      *)
(*                                                                         *)
(* gethalvinginfo runs with its 'LOCK(cs_main)' commented out: it reads    *)
(* the schedule and the tip live, so a block may be accepted between any   *)
(* two of its steps.  A step is one read of shared state, or one pass of   *)
(* the loop over the epochs (the loop bound epochs.size() is re-read on    *)
(* each pass).  The formatting of amounts and percentages is left out; the *)
(* name of a numbered epoch is the pair <<H, E>> it is formatted from.     *)
(***************************************************************************)
EXTENDS Integers, Sequences, SequencesExt, FiniteSets

CONSTANTS
    NamedEpochLength,   \* length of COINSWAP, BOOTSTRAP and ALPHA
    InitialInterval,    \* halving interval after the named epochs
    InitialSubsidy,     \* nMaxBlockSubsidy of the first epoch
    MinSupplyTargetPct, \* HALVING_MIN_SUPPLY_TARGET, in percent
    MaxHeight,          \* bound on the chain height
    UintModulus         \* 2^64 of uint64_t, scaled down

VARIABLES
    rewards,   \* subsidy of each block of the active chain, by height
    epochs,    \* HalvingParameters::epochs
    interval,  \* HalvingParameters::nHalvingInterval
    halvings,  \* HalvingParameters::nHalvingCount
    rd         \* one gethalvinginfo call: program counter and locals

vars == <<rewards, epochs, interval, halvings, rd>>

KnownEpochs == <<"COINSWAP", "BOOTSTRAP", "ALPHA">>
NKnown == Len(KnownEpochs)

Height == Len(rewards)

(* CountBlockRewards(start, end): the subsidies of blocks start..end.      *)
CountBlockRewards(s, e) ==
    SumFunctionOnSet(rewards, {h \in DOMAIN rewards : s <= h /\ h <= e})

EpochMaxSupply(ep) == ep.sub * (ep.end - ep.start + 1)

Epoch == [start : Nat, end : Nat, sub : Nat, halved : BOOLEAN,
          startSupply : Nat, endSupply : Nat, ended : BOOLEAN]

RdPc == {"idle", "btn", "btnEnd", "btnHeight", "loop", "done"}

(* One reported entry of the 'epochs' array.                               *)
Report == [name : {<<KnownEpochs[k]>> : k \in 1..NKnown} \cup (Nat \X Nat),
           halved : BOOLEAN,
           target : Nat, thisEpoch : Nat, since : Nat]

RdIdle == [pc |-> "idle", i |-> 1, nHalvings |-> 0, nEpochsAfterHalving |-> 0,
           nSupplySinceHalving |-> 0, endRead |-> 0, heightRead |-> 0,
           btn |-> 0, out |-> <<>>]

-----------------------------------------------------------------------------
Init ==
    /\ rewards = <<>>
    /\ epochs = <<[start |-> 1, end |-> NamedEpochLength, sub |-> InitialSubsidy,
                   halved |-> FALSE, startSupply |-> 0, endSupply |-> 0,
                   ended |-> FALSE]>>
    /\ interval = InitialInterval
    /\ halvings = 0
    /\ rd = RdIdle

(* Validation accepts the block at Height + 1 (spec section 4.6).  Past    *)
(* the end of the current epoch it first finalizes it and opens the next:  *)
(* halved, with a doubled interval, when the finished epoch reached the    *)
(* supply target; otherwise with the same subsidy and interval.  The       *)
(* block's subsidy is at most the epoch's maximum.                         *)
AcceptBlock ==
    LET h    == Height + 1
        cur  == Last(epochs)
        supply == CountBlockRewards(1, Height)
        next == Len(epochs) + 1
        halve == next > NKnown
                 /\ 100 * (supply - cur.startSupply) >= MinSupplyTargetPct * EpochMaxSupply(cur)
        len  == IF next <= NKnown THEN NamedEpochLength
                ELSE IF halve THEN 2 * interval ELSE interval
        opened == [start |-> h, end |-> h + len - 1,
                   sub |-> IF halve THEN cur.sub \div 2 ELSE cur.sub,
                   halved |-> halve, startSupply |-> supply, endSupply |-> 0,
                   ended |-> FALSE]
        epochs1 == IF h > cur.end
                   THEN Append([epochs EXCEPT ![Len(epochs)].ended = TRUE,
                                             ![Len(epochs)].endSupply = supply],
                               opened)
                   ELSE epochs
    IN  /\ Height < MaxHeight
        /\ epochs' = epochs1
        /\ interval' = IF h > cur.end /\ halve THEN 2 * interval ELSE interval
        /\ halvings' = IF h > cur.end /\ halve THEN halvings + 1 ELSE halvings
        /\ \E r \in {Last(epochs1).sub, Last(epochs1).sub \div 2} :
              rewards' = Append(rewards, r)
        /\ UNCHANGED rd

(* gethalvinginfo: FlushStateToDisk, then halvings_occured,                *)
(* epochs_occured and halving_interval, which no property inspects.        *)
StartHalvingInfo ==
    /\ rd.pc \in {"idle", "done"}
    /\ rd' = [RdIdle EXCEPT !.pc = "btn"]
    /\ UNCHANGED <<rewards, epochs, interval, halvings>>

(* '(uint64_t)halvingParams->epochs.back().nEndBlock -                     *)
(* chainActive.Height()': the order of the two reads is unspecified, and   *)
(* without cs_main a block may be accepted between them.                   *)
ReadEndBlockFirst ==
    /\ rd.pc = "btn"
    /\ rd' = [rd EXCEPT !.pc = "btnHeight", !.endRead = Last(epochs).end]
    /\ UNCHANGED <<rewards, epochs, interval, halvings>>

ReadHeightFirst ==
    /\ rd.pc = "btn"
    /\ rd' = [rd EXCEPT !.pc = "btnEnd", !.heightRead = Height]
    /\ UNCHANGED <<rewards, epochs, interval, halvings>>

ReadHeightSecondSigned ==
    /\ rd.pc = "btnHeight"
    /\ rd' = [rd EXCEPT !.pc = "loop", !.btn = rd.endRead - Height]
    /\ UNCHANGED <<rewards, epochs, interval, halvings>>

ReadHeightSecond ==
    /\ rd.pc = "btnHeight"
    /\ rd' = [rd EXCEPT !.pc = "loop", !.btn = (rd.endRead - Height) % UintModulus]
    /\ UNCHANGED <<rewards, epochs, interval, halvings>>

ReadEndBlockSecond ==
    /\ rd.pc = "btnEnd"
    /\ rd' = [rd EXCEPT !.pc = "loop",
                        !.btn = (Last(epochs).end - rd.heightRead) % UintModulus]
    /\ UNCHANGED <<rewards, epochs, interval, halvings>>

(* Mutant: a halving does not reset nEpochsAfterHalving.                  *)
EpochsAfterHalvingNoReset(ep) ==
    IF ep.halved THEN rd.nEpochsAfterHalving ELSE rd.nEpochsAfterHalving + 1

(* Lines 399-405: a halved epoch restarts the count of epochs since the    *)
(* last halving, any other epoch increments it.                            *)
EpochsAfterHalving(ep) ==
    IF ep.halved THEN 0 ELSE rd.nEpochsAfterHalving + 1

(* One pass of 'for (i = 0; i < epochs.size(); i++)' over epoch i: the     *)
(* halving and after-halving counters, the name, the supply target, the    *)
(* supply released (from the recorded supplies of an ended epoch, by       *)
(* CountBlockRewards up to the live tip otherwise), and the supply since   *)
(* the last halving.  The loop ends when i reaches the live epochs.size(). *)
ReportEpoch ==
    LET k  == rd.i
        ep == epochs[k]
        h1 == IF ep.halved THEN rd.nHalvings + 1 ELSE rd.nHalvings
        s1 == IF ep.halved THEN 0 ELSE rd.nSupplySinceHalving
        known == k <= NKnown
        e2 == IF known THEN 0 ELSE EpochsAfterHalving(ep)
        s2 == IF known THEN 0 ELSE s1
        real == IF ep.ended THEN ep.endSupply - ep.startSupply
                ELSE CountBlockRewards(ep.start, Height)
    IN  /\ rd.pc = "loop"
        /\ k <= Len(epochs)
        /\ rd' = [rd EXCEPT !.i = k + 1, !.nHalvings = h1, !.nEpochsAfterHalving = e2,
                            !.nSupplySinceHalving = s2 + real,
                            !.out = Append(rd.out,
                                       [name |-> IF known THEN <<KnownEpochs[k]>>
                                                 ELSE <<h1, e2>>,
                                        halved |-> ep.halved,
                                        target |-> EpochMaxSupply(ep),
                                        thisEpoch |-> real, since |-> s2 + real])]
        /\ UNCHANGED <<rewards, epochs, interval, halvings>>

(* The loop test fails; epoch_supply_target_reached is formatted and the   *)
(* object returned.                                                        *)
EndHalvingInfo ==
    /\ rd.pc = "loop"
    /\ rd.i > Len(epochs)
    /\ rd' = [rd EXCEPT !.pc = "done"]
    /\ UNCHANGED <<rewards, epochs, interval, halvings>>

Next ==
    \/ AcceptBlock
    \/ StartHalvingInfo
    \/ ReadEndBlockFirst
    \/ ReadHeightFirst
    \/ ReadHeightSecond
    \/ ReadEndBlockSecond
    \/ ReportEpoch
    \/ EndHalvingInfo

Spec == Init /\ [][Next]_vars

-----------------------------------------------------------------------------
TypeOK ==
    /\ rewards \in Seq(Nat)
    /\ Height \in 0..MaxHeight
    /\ epochs \in Seq(Epoch)
    /\ interval \in Nat \ {0}
    /\ halvings \in Nat
    /\ rd.pc \in RdPc
    /\ rd.btn \in 0..UintModulus - 1
    /\ rd.out \in Seq(Report)

(* The name spec section 4.6 gives epoch k: a known name for the first     *)
(* three, otherwise <<H, E>> with H the halvings so far and E the epochs   *)
(* without a halving since the last one, or since the named epochs.        *)
SpecEpochName(k) ==
    IF k <= NKnown THEN <<KnownEpochs[k]>>
    ELSE <<Cardinality({j \in 1..k : epochs[j].halved}),
           k - Max({NKnown} \cup {j \in NKnown + 1..k : epochs[j].halved})>>

(* Every epoch_name gethalvinginfo reports is the one the spec gives that  *)
(* epoch, however blocks interleave with the report; in particular the     *)
(* names are unique, as the RPC help promises.                             *)
EpochNamesMatchSpec ==
    \A k \in DOMAIN rd.out : rd.out[k].name = SpecEpochName(k)

(* blocks_to_next_epoch, "the number of blocks to be found until the start *)
(* of another halving epoch", never exceeds the length of an epoch.        *)
BlocksToNextEpochBounded ==
    rd.pc \in {"loop", "done"} =>
        rd.btn <= Max({epochs[k].end - epochs[k].start + 1 : k \in DOMAIN epochs})
====
