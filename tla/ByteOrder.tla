----------------------------- MODULE ByteOrder -----------------------------
(***************************************************************************)
(* The sequence numbers of the datagrams of mmpmsg.h and their byte order. *)
(*                                                                         *)
(* A sequence number is an mmp_seq_no, a 32-bit word: four digits in base  *)
(* Radix, which is 256 in the code.  Server and client are built for a     *)
(* little-endian Windows machine, where htonl and ntohl both reverse the   *)
(* four digits.                                                            *)
(***************************************************************************)
EXTENDS Integers

CONSTANT Radix        \* values of one byte of a word

ASSUME RadixAssumption == Radix \in Nat /\ Radix > 1

\* Number of mmp_seq_no values; ++ on one wraps modulo SeqMod.
SeqMod == Radix * (Radix * (Radix * Radix))
SeqNo  == 0 .. SeqMod - 1

\* The digits of a word, least significant first, and the word they make.
Digit0(n) == n % Radix
Digit1(n) == (n \div Radix) % Radix
Digit2(n) == ((n \div Radix) \div Radix) % Radix
Digit3(n) == ((n \div Radix) \div Radix) \div Radix
Word(d0, d1, d2, d3) == d0 + Radix * (d1 + Radix * (d2 + Radix * d3))

\* htonl and ntohl are the same function.
htonl(n) == Word(Digit3(n), Digit2(n), Digit1(n), Digit0(n))
ntohl(n) == htonl(n)
=============================================================================
