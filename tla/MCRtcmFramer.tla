--------------------------- MODULE MCRtcmFramer ---------------------------
(***************************************************************************)
(* An alphabet of two bytes for RtcmFramer: the preamble and another one.  *)
(***************************************************************************)
EXTENDS RtcmFramer

CONSTANTS P, o

MCByte == {P, o}

\* Preambles inside the header make the message longer: 0, 1 or 2 bytes.
MCLength(b, c) == (IF b = P THEN 1 ELSE 0) + (IF c = P THEN 1 ELSE 0)

\* The parity of a message that ends in o starts with o.
MCParityOK(msg, crc) == (msg[Len(msg)] = o) = (crc[1] = o)

=============================================================================
