---------------------------- MODULE MC_ShardRouter ----------------------------
(***************************************************************************)
(* An 8-bit u32 and a 16-bit hash.  Every shard count of the word is       *)
(* tried; hashes at 0, small values, on both sides of 2^Width and at the    *)
(* top of the hash word.                                                   *)
(***************************************************************************)
EXTENDS ShardRouter

MCWidth == 8
MCShardCounts == 0..2^MCWidth - 1
MCPrefixes == {"", "chat.messages"}
MCHashes == {0, 5, 2^MCWidth - 1, 2^MCWidth, 2^MCWidth + 5, 2^15 + 7,
             2^(2 * MCWidth) - 1}

=============================================================================
