---------------------------- MODULE MCTransfers -----------------------------
(* Small SPI transfers and SDIO cards.                                     *)
EXTENDS Transfers

(* Up to four descriptors of up to two words; an empty one only writes.    *)
MCDescs == {d \in Desc(0..2) : (d.writes \/ d.reads) /\ (d.reads => d.len > 0)}
MCSpiRequests == UNION {[1..n -> MCDescs] : n \in 0..4}
MCCards ==
  [max_blk_size : {1, 512, 1000, 1024, 1025, 2048, 4096}, max_blk_count : {0, 1, 2, 3, 2048}]
MCOneCard == [max_blk_size : {512}, max_blk_count : {1}]

(* The transfer of the repository's test (spi.c:294-300): all write, the   *)
(* first, the fourth and the fifth also read.                              *)
MCTestRequest ==
  {[i \in 1..5 |-> [writes |-> TRUE, reads |-> i \in {1, 4, 5}, len |-> <<2, 1, 8, 2, 8>>[i]]]}
=============================================================================
