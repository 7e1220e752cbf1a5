------------------------------- MODULE PowAlgo -------------------------------
(***************************************************************************)
(* The per-algorithm tables and the PoW dispatch of                        *)
(* src/primitives/block.cpp: CBlockHeader::GetPoWHash, GetAlgoEfficiency   *)
(* and GetAlgoCostFactor.                                                  *)
(*                                                                         *)
(* A header is abstracted to the two things the code switches on: whether  *)
(* its top version bits carry the versionbits pattern, and the value of    *)
(* nVersion & ALGO_VERSION_MASK (one of the six algorithms, or a value no  *)
(* case names).  A hash is named by the function that computes it; the     *)
(* functions themselves are opaque.                                        *)
(*                                                                         *)
(* Decimal constants are kept in hundredths.  The conversion of the double *)
(* literal 18.25 to CAmount (int64) truncates toward zero, and CAmount / 6 *)
(* is integer division.                                                    *)
(***************************************************************************)
EXTENDS Integers

VARIABLE header    \* the header whose PoW hash and weights are computed

Algos == {"sha256d", "scrypt", "nist5", "lyra2z", "x11", "x16r"}
AlgoFields == Algos \cup {"unknown"}
Header == [versionbits : BOOLEAN, algo : AlgoFields]

(* The hash of the switch's default case: uint256S("ff..ff"), above every  *)
(* target.                                                                 *)
NoHash == "ffff"

(* GetPoWHash: scrypt for pre-versionbits headers, otherwise the hash of   *)
(* the algorithm field (X16R seeded with hashPrevBlock).                   *)
GetPoWHash(h) ==
    IF ~h.versionbits THEN "scrypt"
    ELSE IF h.algo \in Algos THEN h.algo
    ELSE NoHash

Efficiency ==
    [a \in Algos |->
        CASE a = "sha256d" -> 1
          [] a = "scrypt"  -> 12984
          [] a = "nist5"   -> 513
          [] a = "lyra2z"  -> 1973648
          [] a = "x11"     -> 513
          [] a = "x16r"    -> 257849]

GetAlgoEfficiency(h) ==
    IF h.algo \in Algos THEN Efficiency[h.algo] ELSE 1

(* The cost factors, in hundredths, and the declared total 18.25.          *)
CostFactorHundredths ==
    [a \in Algos |->
        CASE a = "sha256d" -> 1000
          [] a = "scrypt"  -> 300
          [] a = "nist5"   -> 100
          [] a = "lyra2z"  -> 50
          [] a = "x11"     -> 125
          [] a = "x16r"    -> 150]

TotalAdjustementsLiteral == 1825

(* A positive double, in hundredths, converted to int64.                   *)
ToCAmount(hundredths) == hundredths \div 100

(* GetAlgoCostFactor as the fraction num/den it returns:                   *)
(* factor / (totalAdjustements / 6), with factor 1 for an unknown field.   *)
GetAlgoCostFactor(h) ==
    LET totalAdjustements == ToCAmount(TotalAdjustementsLiteral)
        factor == IF h.algo \in Algos THEN CostFactorHundredths[h.algo] ELSE 100
    IN  [num |-> factor, den |-> 100 * (totalAdjustements \div 6)]

-----------------------------------------------------------------------------
TypeOK == header \in Header

Init == header \in Header

Next == UNCHANGED header

Spec == Init /\ [][Next]_header

-----------------------------------------------------------------------------
(* Spec sections 4.1 and 6, and the comment at block.cpp:86: the cost      *)
(* factor of every algorithm is its table value divided by 18.25 / 6.      *)
CostFactorMatchesSpec ==
    header.algo \in Algos =>
        LET cf == GetAlgoCostFactor(header)
        IN  cf.num * TotalAdjustementsLiteral
              = 6 * CostFactorHundredths[header.algo] * cf.den
=============================================================================
