----------------------------- MODULE IntWritable -----------------------------
(***************************************************************************)
(* IntWritable.cpp: an int on its way over a socket.  It is written as the *)
(* four bytes it has in memory; readFields keeps the first of them, as a   *)
(* signed char.  The build is little-endian with two's complement.         *)
(***************************************************************************)
EXTENDS Integers

(* The bytes of an int, as sputn copies them; any integer stands for the   *)
(* int it is congruent to modulo 2^32.                                     *)
IntBytes(v) ==
    <<v % 256, (v \div 256) % 256, (v \div 65536) % 256, (v \div 16777216) % 256>>

(* What *reinterpret_cast<const char*>(buf) makes of a byte.               *)
SignedChar(b) == IF b < 128 THEN b ELSE b - 256

(* The int readFields makes of what write wrote.                           *)
IntOfBytes(bytes) == SignedChar(bytes[1])

Received(v) == IntOfBytes(IntBytes(v))

(* The ints that fit into a char.                                          *)
Chars == -128 .. 127
=============================================================================
