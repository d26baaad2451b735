-------------------------- MODULE AddressPool_proofs --------------------------
(***************************************************************************)
(* The arithmetic of the bit map of AddressPool, for every width of its    *)
(* words and every size of the pool: what taking and giving back an        *)
(* address does to the set of addresses taken, and that a free bit is      *)
(* always the bit of an address of the pool.                               *)
(***************************************************************************)
EXTENDS AddressPool, FiniteSetTheorems, WellFoundedInduction, TLAPS

Range4 == 0 .. PoolSize - 1
Words == 0 .. (PoolSize - 1) \div WordBits

(* The words of the map are those of the range, and the bits of the last   *)
(* one that are past the range are set.                                    *)
Shape(alloc) ==
    /\ alloc \in [Words -> SUBSET Bits]
    /\ \A w \in Words, b \in Bits : w * WordBits + b >= PoolSize => b \in alloc[w]
------------------------------------------------------------------------------
LEMMA Divided ==
    ASSUME NEW a \in Nat
    PROVE  /\ a \div WordBits \in Nat /\ a % WordBits \in Bits
           /\ a = (a \div WordBits) * WordBits + (a % WordBits)
  BY PoolAssumption DEF Bits

LEMMA OneDivision ==
    ASSUME NEW v \in Nat, NEW w \in Nat, NEW b \in Bits, NEW c \in Bits,
           v * WordBits + b = w * WordBits + c
    PROVE  v = w /\ b = c
  BY PoolAssumption DEF Bits

LEMMA Composed ==
    ASSUME NEW w \in Nat, NEW b \in Bits
    PROVE  /\ w * WordBits + b \in Nat
           /\ (w * WordBits + b) \div WordBits = w
           /\ (w * WordBits + b) % WordBits = b
  <1>1. PICK a \in Nat : a = w * WordBits + b
    BY PoolAssumption DEF Bits
  <1>2. /\ a \div WordBits \in Nat /\ a % WordBits \in Bits
        /\ a = (a \div WordBits) * WordBits + (a % WordBits)
    BY Divided
  <1>3. w = a \div WordBits /\ b = a % WordBits
    BY <1>1, <1>2, OneDivision
  <1> QED
    BY <1>1, <1>3

LEMMA WordsMonotone ==
    ASSUME NEW a \in Nat, NEW b \in Nat, a <= b
    PROVE  a \div WordBits <= b \div WordBits
  BY PoolAssumption

(* An address of the range is a bit of one of its words.                   *)
LEMMA BitOfAddress ==
    ASSUME NEW a \in Range4
    PROVE  a \div WordBits \in Words /\ a % WordBits \in Bits
  <1>1. a \in Nat /\ PoolSize - 1 \in Nat /\ a <= PoolSize - 1
    BY PoolAssumption DEF Range4
  <1> QED
    BY <1>1, Divided, WordsMonotone DEF Words

LEMMA LastWord ==
    LET full == PoolSize \div WordBits
        rest == PoolSize % WordBits
    IN  /\ full \in Nat /\ rest \in Bits /\ PoolSize = full * WordBits + rest
        /\ (PoolSize - 1) \div WordBits = IF rest = 0 THEN full - 1 ELSE full
  <1> DEFINE full == PoolSize \div WordBits
             rest == PoolSize % WordBits
  <1>1. full \in Nat /\ rest \in Bits /\ PoolSize = full * WordBits + rest
    BY PoolAssumption, Divided
  <1> HIDE DEF full, rest
  <1>2. CASE rest = 0
    <2>1. PICK v \in Nat, b \in Bits : v = full - 1 /\ b = WordBits - 1
      BY <1>1, <1>2, PoolAssumption DEF Bits
    <2>2. PoolSize - 1 = v * WordBits + b
      BY <1>1, <1>2, <2>1, PoolAssumption
    <2>3. (PoolSize - 1) \div WordBits = v
      BY <2>2, Composed
    <2> QED
      BY <1>1, <1>2, <2>1, <2>3 DEF full, rest
  <1>3. CASE rest # 0
    <2>1. rest - 1 \in Bits
      BY <1>1, <1>3, PoolAssumption DEF Bits
    <2>2. PoolSize - 1 = full * WordBits + (rest - 1)
      BY <1>1, PoolAssumption DEF Bits
    <2> QED
      BY <1>1, <1>3, <2>1, <2>2, Composed
  <1> QED
    BY <1>1, <1>2, <1>3 DEF full, rest
------------------------------------------------------------------------------
LEMMA FreshShape == Shape(FreshPool) /\ Taken(FreshPool) = {}
  <1> DEFINE full == PoolSize \div WordBits
             rest == PoolSize % WordBits
  <1>1. /\ full \in Nat /\ rest \in Bits /\ PoolSize = full * WordBits + rest
        /\ (PoolSize - 1) \div WordBits = IF rest = 0 THEN full - 1 ELSE full
    BY LastWord
  <1>2. FreshPool = [w \in Words |-> IF w = full THEN {b \in Bits : b >= rest} ELSE {}]
    BY <1>1 DEF FreshPool, Words
  <1> HIDE DEF full, rest
  <1>3. FreshPool \in [Words -> SUBSET Bits]
    BY <1>2
  <1>4. ASSUME NEW w \in Words, NEW b \in Bits, w * WordBits + b >= PoolSize
        PROVE  b \in FreshPool[w]
    <2>1. w \in Nat /\ w <= full
      BY <1>1 DEF Words
    <2>2. CASE w = full
      BY <1>1, <1>2, <1>4, <2>2, PoolAssumption DEF Bits
    <2>3. CASE w < full
      <3>1. w + 1 <= full /\ (w + 1) * WordBits <= full * WordBits
        BY <1>1, <2>1, <2>3, PoolAssumption
      <3> QED
        BY <1>1, <1>4, <2>1, <3>1, PoolAssumption DEF Bits
    <2> QED
      BY <1>1, <2>1, <2>2, <2>3
  <1>5. ASSUME NEW a \in Range4, a % WordBits \in Word(FreshPool, a \div WordBits)
        PROVE  FALSE
    <2>1. a \div WordBits \in Words
      BY BitOfAddress
    <2>2. a \div WordBits = full /\ a % WordBits >= rest
      BY <1>2, <1>5, <2>1 DEF Word
    <2>3. a \in Nat /\ a < PoolSize
      BY PoolAssumption DEF Range4
    <2>4. a = full * WordBits + (a % WordBits) /\ a % WordBits \in Bits
      BY <2>2, <2>3, Divided
    <2> QED
      BY <1>1, <2>2, <2>3, <2>4, PoolAssumption DEF Bits
  <1> QED
    BY <1>3, <1>4, <1>5 DEF Shape, Taken, Range4

(* Both operations change one word of the map.                             *)
LEMMA SetWordShape ==
    ASSUME NEW alloc, Shape(alloc), NEW w \in Words, NEW bits \in SUBSET Bits
    PROVE  SetWord(alloc, w, bits) = [alloc EXCEPT ![w] = bits]
  BY DEF Shape, SetWord

LEMMA SetBitTakes ==
    ASSUME NEW alloc, Shape(alloc), NEW a \in Range4
    PROVE  Shape(SetBit(alloc, a)) /\ Taken(SetBit(alloc, a)) = Taken(alloc) \cup {a}
  <1> DEFINE w == a \div WordBits
             b == a % WordBits
             new == SetBit(alloc, a)
  <1>1. w \in Words /\ b \in Bits
    BY BitOfAddress
  <1>2. new = [alloc EXCEPT ![w] = @ \cup {b}]
    BY <1>1, SetWordShape DEF SetBit, Word, Shape
  <1>3. Shape(new)
    BY <1>1, <1>2 DEF Shape
  <1>4. ASSUME NEW c \in Range4
        PROVE  c \in Taken(new) <=> c \in Taken(alloc) \/ c = a
    <2>1. c \div WordBits \in Words
      BY BitOfAddress
    <2>2. c \div WordBits = w /\ c % WordBits = b => c = a
      BY Divided, PoolAssumption DEF Range4
    <2> HIDE DEF w, b, new
    <2>3. c \in Taken(new) <=> c % WordBits \in new[c \div WordBits]
      BY <1>3, <2>1 DEF Taken, Word, Shape, Range4
    <2>4. c \in Taken(alloc) <=> c % WordBits \in alloc[c \div WordBits]
      BY <2>1 DEF Taken, Word, Shape, Range4
    <2>5. c = a => c \div WordBits = w /\ c % WordBits = b
      BY DEF w, b
    <2> QED
      BY <1>1, <1>2, <2>1, <2>2, <2>3, <2>4, <2>5 DEF Shape
  <1>5. \A c \in Taken(new) \cup Taken(alloc) \cup {a} : c \in Range4
    BY DEF Taken, Range4
  <1> QED
    BY <1>3, <1>4, <1>5

LEMMA ReleasedFrees ==
    ASSUME NEW alloc, Shape(alloc), NEW a \in Range4
    PROVE  /\ Shape(Released(alloc, a))
           /\ Taken(Released(alloc, a)) = Taken(alloc) \ {a}
  <1> DEFINE w == a \div WordBits
             b == a % WordBits
             new == Released(alloc, a)
  <1>1. /\ w \in Words /\ b \in Bits
        /\ a = w * WordBits + b /\ a < PoolSize
    <2>1. a \in Nat /\ a < PoolSize
      BY PoolAssumption DEF Range4
    <2>2. w \in Words /\ b \in Bits
      BY BitOfAddress
    <2>3. a = w * WordBits + b
      BY <2>1, Divided
    <2> QED
      BY <2>1, <2>2, <2>3
  <1>2. new = [alloc EXCEPT ![w] = @ \ {b}]
    BY <1>1, SetWordShape, PoolAssumption DEF Released, InPool, ResetBit, Word, Shape
  <1>3. Shape(new)
    <2> HIDE DEF w, b
    <2>1. \A v \in Words, c \in Bits :
             v * WordBits + c >= PoolSize => c \in alloc[v] /\ ~(v = w /\ c = b)
      BY <1>1, PoolAssumption DEF Shape, Words, Bits
    <2> QED
      BY <1>1, <1>2, <2>1 DEF Shape
  <1>4. ASSUME NEW c \in Range4
        PROVE  c \in Taken(new) <=> c \in Taken(alloc) /\ c # a
    <2>1. c \div WordBits \in Words
      BY BitOfAddress
    <2>2. c \div WordBits = w /\ c % WordBits = b => c = a
      BY Divided, PoolAssumption DEF Range4
    <2> HIDE DEF w, b, new
    <2>3. c \in Taken(new) <=> c % WordBits \in new[c \div WordBits]
      BY <1>3, <2>1 DEF Taken, Word, Shape, Range4
    <2>4. c \in Taken(alloc) <=> c % WordBits \in alloc[c \div WordBits]
      BY <2>1 DEF Taken, Word, Shape, Range4
    <2>5. c = a => c \div WordBits = w /\ c % WordBits = b
      BY DEF w, b
    <2> QED
      BY <1>1, <1>2, <2>1, <2>2, <2>3, <2>4, <2>5 DEF Shape
  <1>5. \A c \in Taken(new) \cup Taken(alloc) : c \in Range4
    BY DEF Taken, Range4
  <1> QED
    BY <1>3, <1>4, <1>5
------------------------------------------------------------------------------
LEMMA MinIn ==
    ASSUME NEW S, S \subseteq Nat, S # {}
    PROVE  Min(S) \in S
  <1>1. IsWellFoundedOn(OpToRel(<, Nat), Nat)
    BY NatLessThanWellFounded
  <1>2. PICK x \in S : \A y \in S : ~(<<y, x>> \in OpToRel(<, Nat))
    BY <1>1, WFMin
  <1>3. ASSUME NEW y \in S PROVE x <= y
    <2>1. x \in Nat /\ y \in Nat
      OBVIOUS
    <2>2. ~(<<y, x>> \in OpToRel(<, Nat))
      BY <1>2
    <2>3. ~(y < x)
      BY <2>1, <2>2, SMT DEF OpToRel
    <2> QED
      BY <2>1, <2>3
  <1> QED
    BY <1>3 DEF Min

(* The free bit alloc_free_bit finds is that of an address of the pool     *)
(* nobody has (alloc_address).                                             *)
THEOREM FreeIsFree ==
    ASSUME NEW alloc, Shape(alloc), HasFree(alloc)
    PROVE  FreeAddress(alloc) \in Range4 \ Taken(alloc)
  <1> DEFINE w == Min(OpenWords(alloc))
             b == Min(Bits \ Word(alloc, w))
  <1>1. Cardinality(DOMAIN alloc) - 1 = (PoolSize - 1) \div WordBits
    <2>1. PoolSize - 1 \in Nat
      BY PoolAssumption
    <2>2. (PoolSize - 1) \div WordBits \in Nat
      BY <2>1, Divided
    <2>3. Cardinality(Words) = (PoolSize - 1) \div WordBits + 1
      BY <2>2, FS_Interval DEF Words
    <2> QED
      BY <2>2, <2>3 DEF Shape
  <1> HIDE DEF w, b
  <1>2. OpenWords(alloc) = {v \in Words : alloc[v] # Bits}
    BY <1>1 DEF OpenWords, Word, Shape, Words
  <1>3. w \in Words /\ alloc[w] # Bits
    <2>1. OpenWords(alloc) \subseteq Nat
      BY <1>2 DEF Words
    <2> QED
      BY <1>2, <2>1, MinIn DEF HasFree, w
  <1>4. b \in Bits /\ b \notin alloc[w]
    <2>1. alloc[w] \in SUBSET Bits /\ Word(alloc, w) = alloc[w]
      BY <1>3 DEF Shape, Word
    <2>2. Bits \ Word(alloc, w) # {}
      BY <1>3, <2>1
    <2>3. Bits \ Word(alloc, w) \subseteq Nat
      BY PoolAssumption DEF Bits
    <2>4. Min(Bits \ Word(alloc, w)) \in Bits \ Word(alloc, w)
      BY <2>2, <2>3, MinIn
    <2> QED
      BY <2>1, <2>4 DEF b
  <1>5. ~(w * WordBits + b >= PoolSize)
    BY <1>3, <1>4 DEF Shape
  <1>6. /\ w * WordBits + b \in Nat
        /\ (w * WordBits + b) \div WordBits = w /\ (w * WordBits + b) % WordBits = b
    BY <1>3, <1>4, Composed DEF Words
  <1>7. w * WordBits + b \in Range4
    BY <1>5, <1>6, PoolAssumption DEF Range4
  <1>8. w * WordBits + b \notin Taken(alloc)
    BY <1>3, <1>4, <1>6 DEF Taken, Word, Shape
  <1>9. FreeAddress(alloc) = w * WordBits + b
    BY DEF FreeAddress, w, b
  <1> QED
    BY <1>7, <1>8, <1>9
==============================================================================
