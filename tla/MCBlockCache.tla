---------------------------- MODULE MCBlockCache ----------------------------
(* Two sectors of BLOCK_SZ bytes.                                          *)
EXTENDS BlockCache

MCContents == [Offsets -> Bytes]
=============================================================================
