----------------------------- MODULE MCConnection -----------------------------
(* Bytes are quaternary digits.  The first two bytes of the longer message,  *)
(* taken for a header, are an invalid length.                                *)
EXTENDS Connection

MCMsg == {<<2, 3>>, <<1>>}
MCCorrupt == {<<1>>}
MCHandshakeBytes == <<3, 3>>
=============================================================================
