----------------------------- MODULE McsLengths -----------------------------
(***************************************************************************)
(* The lengths mcs.c writes by hand into the connect response, beside the  *)
(* lengths of what follows them.  Its parts, from the inside: the GCC      *)
(* blocks (core, security and network data), the user data made of them,   *)
(* and the BER elements around the user data.                              *)
(***************************************************************************)
EXTENDS Naturals

SERVER_RANDOM_LEN == 32
\* What v2r_sec_write_server_certificate writes: the header, the public key blob and
\* the signature.
ServerCertificate == (3 * 4) + (2 * 2 + 5 * 4 + 64 + 8) + (2 * 2 + 64 + 8)

\* Mutant: the channels are not padded.
ChannelsUnpadded(channels) == channels
\* The channels of the response are padded to an even number.
channel_count_even(channels) == channels + (channels % 2)

CoreData == 2 + 2 + 4 + 4 + 4
SecurityData(method) ==
  2 + 2 + 4 + 4 + 4 + 4
  + (IF method = "none" THEN 0 ELSE SERVER_RANDOM_LEN + ServerCertificate)
NetworkData(even) == 2 + 2 + 2 + 2 + 2 * even

\* The GCC blocks, and the user data with the header before them.
GccBlocks(even, method) == CoreData + SecurityData(method) + NetworkData(even)
UserData(even, method)  == 21 + 1 + GccBlocks(even, method)

\* The one byte in which the length of the blocks is announced.
GccLength(even) == (44 + 2 * even) % 256

\* v2r_mcs_write_ber_encoding: the bytes of a tag and a length.
BerHeader(tag, length) == tag + (IF length >= 128 THEN 3 ELSE 1)

\* The elements of the response before the user data.
Elements == (BerHeader(1, 1) + 1) * 2
            + BerHeader(1, 26) + 7 * (BerHeader(1, 1) + 1) + BerHeader(1, 3) + 3
ResponseContents(userData) == Elements + BerHeader(1, userData) + userData

\* The length announced for them.
mcs_rsp_len(userData) == userData + (IF userData > 128 THEN 38 ELSE 36)
=============================================================================
