------------------------------- MODULE AgfsIO -------------------------------
(***************************************************************************)
(* The typed values AgFS puts on a connection (constants.hpp) and the      *)
(* conversions agfsio.cpp makes on them.  Every agfs_read_* function reads *)
(* into a variable of its caller and converts that variable from network   *)
(* to host order whether or not read() stored anything in it, so a read    *)
(* that times out leaves the CONVERTED old value behind.                   *)
(***************************************************************************)
EXTENDS Integers

CONSTANT BigEndian      \* the byte order of the machine that reads

ASSUME BigEndianAssumption == BigEndian \in BOOLEAN

\* The two-byte commands that travel from the server to the client, and NONE,
\* which never travels: it is the value a reader starts from.
HEARTBEAT       == 1
ACCEPT          == 3
INVALID_KEY     == 4
MOUNT_NOT_FOUND == 5
USER_NOT_FOUND  == 6
NONE            == 11

Word16 == 0..65535

\* The two bytes of a 16-bit word exchanged.
Swap16(w) == (w % 256) * 256 + (w \div 256)

\* htobe16 and be16toh are the same exchange, or nothing, on one machine.
Be16(w) == IF BigEndian THEN w ELSE Swap16(w)

\* agfs_write_cmd: the two bytes that leave, as a word of the reader's machine
\* (the bytes are in network order whatever machine wrote them).
WriteCmd(cmd) == Be16(cmd)

\* Mutant of ReadCmd: it converts only what was read.
ReadCmdIfStored(stored, wire, cmd) == IF stored THEN Be16(wire) ELSE cmd

\* agfs_read_cmd: what the caller's variable cmd holds afterwards; stored says
\* whether read() stored the word wire in it.
ReadCmd(stored, wire, cmd) == Be16(IF stored THEN wire ELSE cmd)

\* Of a 64-bit number only its sign is kept: -1, 0 or 1.
Signs == {-1, 0, 1}

\* agfs_read_error and agfs_read_size after a read() that stored nothing: the
\* signs that the caller's old value can have once its bytes are exchanged.
Be64Signs(sign) ==
  IF BigEndian \/ sign = 0 THEN {sign} ELSE {-1, 1}
=============================================================================
