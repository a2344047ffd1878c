----------------------------- MODULE Committee -----------------------------
(***************************************************************************)
(* The committee of config/src/lib.rs: who the authorities are, the stake  *)
(* of each, the two stake thresholds every other component compares with,  *)
(* and the round-robin leader.                                             *)
(*                                                                         *)
(* An authority is its rank in the sorted order of the public keys (the    *)
(* BTreeMap of Committee), so Authorities is 0..N-1 and the leader of a    *)
(* seed is plain arithmetic.                                               *)
(***************************************************************************)
EXTENDS Naturals, FiniteSets

CONSTANTS
    N,      \* number of authorities
    Stake   \* voting power of each authority

Authorities == 0 .. (N - 1)

ASSUME NAssumption == N \in Nat \ {0}
ASSUME StakeAssumption == Stake \in [Authorities -> Nat]

(***************************************************************************)
(* The summed stake of a set of authorities.  It is stated as the number   *)
(* of shares the set holds, authority a holding Stake[a] of them: a        *)
(* cardinality is what the theorem library has lemmas about.               *)
(***************************************************************************)
Shares(S) == UNION {{a} \X (1 .. Stake[a]) : a \in S}

StakeOf(S) == Cardinality(Shares(S))

TotalVotes == StakeOf(Authorities)

\* quorum_threshold(): 2f+1
QuorumThreshold == (2 * TotalVotes) \div 3 + 1

\* validity_threshold(): f+1
ValidityThreshold == (TotalVotes + 2) \div 3

IsQuorum(S) == StakeOf(S) >= QuorumThreshold

IsValidity(S) == StakeOf(S) >= ValidityThreshold

\* leader(seed): keys[seed % size]
Leader(seed) == seed % N
=============================================================================
