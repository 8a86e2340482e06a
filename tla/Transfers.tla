----------------------------- MODULE Transfers ------------------------------
(***************************************************************************)
(* What two drivers compute from a request before they touch the bus: the  *)
(* buffer sets of an SPI transfer (spi.c) and the block sizes an SDIO host *)
(* announces (sdio.c).  There is nothing to interleave: a state is a       *)
(* request, and the properties compare what the code makes of it with what *)
(* the host meant.                                                         *)
(***************************************************************************)
EXTENDS Naturals, Sequences, FiniteSets

Seqs == INSTANCE SequencesExt

CONSTANTS
  SpiRequests,   \* the transfers a host may ask for: sequences of Descs
  Cards        \* the block sizes and counts a card may have

VARIABLES
  transfers,   \* the descriptors of the SPI request
  card         \* the limits of the SDIO card

transferVars == <<transfers, card>>

(* One descriptor: what it does, in how many words.                        *)
Desc(lens) == [writes : BOOLEAN, reads : BOOLEAN, len : lens]

(* A descriptor that does nothing is rejected, and so is an empty read.     *)
ASSUME TransfersAssumption ==
  /\ \A ops \in SpiRequests :
       /\ ops \in Seq(Desc(Nat))
       /\ \A i \in DOMAIN ops :
            (ops[i].writes \/ ops[i].reads) /\ (ops[i].reads => ops[i].len > 0)
  /\ Cards \subseteq [max_blk_size : Nat, max_blk_count : Nat]

TransfersInit == transfers \in SpiRequests /\ card \in Cards
TransfersSpec == TransfersInit /\ [][UNCHANGED transferVars]_transferVars

-----------------------------------------------------------------------------
(* gb_spi_protocol_transfer.  Every descriptor gets a place in both arrays *)
(* of buffers, with length 0 where it does not write or read; but what a   *)
(* set counts are the descriptors that write, or read.  A word is named by *)
(* its descriptor and its number in it.                                    *)
Words(i, n) == [k \in 1..n |-> <<i, k>>]
NoWord == <<0, 0>>

tx_buf(ops) == [i \in DOMAIN ops |-> Words(i, IF ops[i].writes THEN ops[i].len ELSE 0)]
rx_buf(ops) == [i \in DOMAIN ops |-> Words(i, IF ops[i].reads THEN ops[i].len ELSE 0)]

Writers(ops) == {i \in DOMAIN ops : ops[i].writes}
Readers(ops) == {i \in DOMAIN ops : ops[i].reads}

(* What a set hands over, and as if that of the reads counted the writes.  *)
tx_buf_set(ops) == SubSeq(tx_buf(ops), 1, Cardinality(Writers(ops)))
rx_as_tx_set(ops) == SubSeq(rx_buf(ops), 1, Cardinality(Writers(ops)))
rx_buf_set(ops) == SubSeq(rx_buf(ops), 1, Cardinality(Readers(ops)))

(* spi_transceive shifts the words of the one set out while it fills the   *)
(* other, until both are done: at each clock a word out and a word in.     *)
WordAt(words, t) == IF t <= Len(words) THEN words[t] ELSE NoWord
spi_transceive(tx, rx) ==
  LET out == Seqs!FlattenSeq(tx)
      in  == Seqs!FlattenSeq(rx)
  IN  [t \in 1..(IF Len(out) > Len(in) THEN Len(out) ELSE Len(in)) |->
         [out |-> WordAt(out, t), in |-> WordAt(in, t)]]

Done(ops) == spi_transceive(tx_buf_set(ops), rx_buf_set(ops))

(* What the host asked for: the descriptors one after the other, each for  *)
(* as many clocks as it has words.                                         *)
Asked(ops) ==
  Seqs!FlattenSeq([i \in DOMAIN ops |->
    [k \in 1..ops[i].len |-> [out |-> IF ops[i].writes THEN <<i, k>> ELSE NoWord,
                              in  |-> IF ops[i].reads THEN <<i, k>> ELSE NoWord]]])

(* The descriptors that write come first, and so do those that read.       *)
InStep(ops) ==
  \A i, j \in DOMAIN ops :
    i < j => (ops[j].writes => ops[i].writes) /\ (ops[j].reads => ops[i].reads)

-----------------------------------------------------------------------------
(* gb_sdio_protocol_get_capabilities, with the sizes of greybus.h.         *)
GB_MAX_PAYLOAD_SIZE == 2048 - 8
max_transfer == GB_MAX_PAYLOAD_SIZE - 4          \* less the answer's own header

scale_max_sd_block_length(value) ==
  CASE value < 512           -> 0
    [] value \in 512..1023   -> 512
    [] value \in 1024..2047  -> 1024
    [] value >= 2048         -> 2048

max_data_size == scale_max_sd_block_length(max_transfer)

Announced(cap) ==
  IF cap.max_blk_count * cap.max_blk_size <= max_data_size THEN cap
  ELSE IF cap.max_blk_size > max_data_size
    THEN [cap EXCEPT !.max_blk_size = max_data_size]
    ELSE [cap EXCEPT !.max_blk_count = max_data_size \div cap.max_blk_size]
-----------------------------------------------------------------------------
(* A transfer is done as the host asked if no descriptor that does not     *)
(* write stands before one that does, nor one that does not read before    *)
(* one that does, and without empty writes, which count but have no words, *)
(* only then: the sets hand over the first buffers of the arrays, as many  *)
(* as there are writes, or reads, wherever those stand.                    *)
(* And the most data the SDIO host will ask for at once fits in a message, *)
(* unless a card's block is larger than that: then the size of a block is  *)
(* cut and their number is not (spi.c:331-432, sdio.c:165-180).            *)
NoneEmpty(ops) == \A i \in DOMAIN ops : ops[i].len > 0
InStepIsDone ==
  /\ InStep(transfers) => Done(transfers) = Asked(transfers)
  /\ NoneEmpty(transfers) => (Done(transfers) = Asked(transfers) => InStep(transfers))
AnnouncedFits ==
  LET a == Announced(card)
  IN  a.max_blk_count * a.max_blk_size > max_transfer =>
        card.max_blk_size > max_data_size /\ card.max_blk_count > 1
LayoutsFit == InStepIsDone /\ AnnouncedFits

(* The host gets what it asked for, whatever the descriptors; it is what   *)
(* the test of the repository expects of writes, some of which read        *)
(* (src/tests/subsys/greybus/spi/src/spi.c:294-380).                       *)
TransferAsAsked == Done(transfers) = Asked(transfers)
=============================================================================
