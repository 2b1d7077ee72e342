------------------------------ MODULE MCAduCodec ------------------------------
(* AduCodec on the lengths of real chat messages and ACKs (62 bytes and more, *)
(* with length bytes inside and outside the base64 characters) and on those   *)
(* around the SDR string limit (192 bytes fill it) and the read buffer (768   *)
(* bytes fill it).                                                            *)
EXTENDS AduCodec

MCSizes == 62 .. 105 \cup 184 .. 194 \cup 762 .. 772
MCRealSizes == 62 .. 105
=============================================================================
