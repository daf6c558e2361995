----------------------------- MODULE MCChecksum -----------------------------
EXTENDS Checksum

MCAddresses == {<<10, 0, 2, 15>>, <<10, 0, 2, 3>>}
MCPayloads == BoundedSeq({0, 1, 255}, 2)
=============================================================================
