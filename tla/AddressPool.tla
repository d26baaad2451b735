----------------------------- MODULE AddressPool -----------------------------
(***************************************************************************)
(* The pool of IPv4 addresses of a DNN in the SMF (class ipv4_pool of      *)
(* smf_paa_dynamic.hpp): a bit map held as words of WordBits bits, bit n   *)
(* for the address n places after the first.  alloc is the map from the    *)
(* number of a word to its set bits.  As in the code, a word that is not   *)
(* there appears, empty, when it is looked at.                             *)
(*                                                                         *)
(* An address is its distance from the first one, so one below the range   *)
(* is a negative number.                                                   *)
(***************************************************************************)
EXTENDS Integers, FiniteSets, FiniteSetsExt

CONSTANTS
    WordBits,   \* bits of a word, 32 in the code
    PoolSize    \* range, the number of addresses of the pool

ASSUME PoolAssumption ==
    /\ WordBits \in Nat \ {0}
    /\ PoolSize \in Nat \ {0}

Bits == 0 .. WordBits - 1

(* Fault: the last word is left empty.                                     *)
WholeWords ==
    [w \in 0 .. (PoolSize - 1) \div WordBits |-> {}]

(* ipv4_pool(first, range): the bits of the last word that are past the    *)
(* range are set for good.                                                 *)
FreshPool ==
    LET full == PoolSize \div WordBits
        rest == PoolSize % WordBits
    IN  [w \in 0 .. (IF rest = 0 THEN full - 1 ELSE full) |->
            IF w = full THEN {b \in Bits : b >= rest} ELSE {}]

Word(alloc, w) == IF w \in DOMAIN alloc THEN alloc[w] ELSE {}

SetWord(alloc, w, bits) ==
    [v \in DOMAIN alloc \cup {w} |-> IF v = w THEN bits ELSE alloc[v]]

(* alloc_free_bit: the words from 0 on, as many as the map has.            *)
OpenWords(alloc) ==
    {w \in 0 .. Cardinality(DOMAIN alloc) - 1 : Word(alloc, w) # Bits}

HasFree(alloc) == OpenWords(alloc) # {}

(* alloc_address, of a pool with a free bit.                               *)
FreeAddress(alloc) ==
    LET w == Min(OpenWords(alloc)) IN
    w * WordBits + Min(Bits \ Word(alloc, w))

SetBit(alloc, a) ==
    LET w == a \div WordBits IN
    SetWord(alloc, w, Word(alloc, w) \cup {a % WordBits})

ResetBit(alloc, a) ==
    LET w == a \div WordBits IN
    SetWord(alloc, w, Word(alloc, w) \ {a % WordBits})

(* free_address: in_pool only compares with the end of the range.          *)
InPool(a) == a < PoolSize

Released(alloc, a) == IF InPool(a) THEN ResetBit(alloc, a) ELSE alloc

(* The addresses of the range whose bit is set.                            *)
Taken(alloc) ==
    {a \in 0 .. PoolSize - 1 : a % WordBits \in Word(alloc, a \div WordBits)}
==============================================================================
