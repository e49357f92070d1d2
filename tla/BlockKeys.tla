------------------------------ MODULE BlockKeys ------------------------------
(***************************************************************************)
(* Block keys and prefix overlap (services/cacheregistry/blockkey.go).  A  *)
(* prompt is cut into blocks; the key of a block hashes the adapter, the   *)
(* key of the block before it and its tokens.  The hash is taken to be     *)
(* free of collisions, so a key is what it hashes.                         *)
(***************************************************************************)
EXTENDS Integers, Sequences, FiniteSets, FiniteSetsExt

CONSTANTS Tokens, MaxTokens,  \* prompts have at most MaxTokens tokens
          BlockSize, Adapters

ASSUME BlockAssumption == BlockSize \in Nat \ {0} /\ MaxTokens \in Nat

Prompts == UNION {[1..n -> Tokens] : n \in 0..MaxTokens}

-----------------------------------------------------------------------------
\* ChunkTokens: the last block may be short.
ChunkTokens(p) ==
    [i \in 1..((Len(p) + BlockSize - 1) \div BlockSize) |->
        SubSeq(p, (i - 1) * BlockSize + 1, Min({i * BlockSize, Len(p)}))]

\* Mutant: blocks are hashed one by one.
HashBlocksUnchained(p, a) ==
    LET chunks == ChunkTokens(p) IN [i \in DOMAIN chunks |-> <<a, <<>>, chunks[i]>>]

\* HashBlocks: each key has the one before it in it.
HashBlocks(p, a) ==
    LET chunks == ChunkTokens(p)
        key[i \in 0..Len(chunks)] == IF i = 0 THEN <<>> ELSE <<a, key[i - 1], chunks[i]>>
    IN  [i \in DOMAIN chunks |-> key[i]]

\* LongestConsecutivePrefix: up to the first key that is missing.
LongestConsecutivePrefix(want, have) ==
    Max({0} \cup {n \in DOMAIN want : \A i \in 1..n : want[i] \in have})

-----------------------------------------------------------------------------
\* The keys a worker reports once it has served prompts, each with its adapter.
KeysOf(served) ==
    UNION {{HashBlocks(x[2], x[1])[i] : i \in DOMAIN ChunkTokens(x[2])} : x \in served}

Common(p, q) ==
    LET c == ChunkTokens(p) d == ChunkTokens(q)
    IN  Max({n \in 0..Min({Len(c), Len(d)}) : \A i \in 1..n : c[i] = d[i]})

\* For every prompt and every two prompts served before, the overlap found by
\* keys is the longest run of leading blocks the prompt shares with one of them.
OverlapIsExact ==
    \A x, y, z \in Adapters \X Prompts :
        LongestConsecutivePrefix(HashBlocks(x[2], x[1]), KeysOf({y, z})) =
            Max({0} \cup {Common(x[2], k[2]) : k \in {v \in {y, z} : v[1] = x[1]}})
=============================================================================
