--------------------------- MODULE VbnvTools_proofs ---------------------------
(***************************************************************************)
(* Proofs about the bytes of the VBNV block, for any bytes: the CRC, the     *)
(* edits as edits of the fields, writes that power cuts short, and commands  *)
(* that run one after the other.                                             *)
(***************************************************************************)
EXTENDS VbnvTools, WellFoundedInduction, TLAPS

\* What the proofs about the loop of the CRC use in place of an induction.
LEMMA LeastNumber ==
  ASSUME NEW T, T \subseteq Nat, T # {}
  PROVE  \E n \in T : \A m \in T : n <= m
<1>1. IsWellFoundedOn(OpToRel(<, Nat), Nat)
  BY NatLessThanWellFounded
<1>2. PICK n \in T : \A m \in T : ~(<<m, n>> \in OpToRel(<, Nat))
  BY <1>1, WFMin
<1>3. \A m \in T : m \in Nat /\ ~(m < n)
  BY <1>2 DEF OpToRel
<1> QED BY <1>3

-----------------------------------------------------------------------------
(* Numbers                                                                   *)

LEMMA Powers == 2^0 = 1 /\ 2^1 = 2 /\ 2^2 = 4 /\ 2^3 = 8
OBVIOUS

LEMMA BitsInjective ==
  ASSUME NEW m \in 0 .. 15, NEW n \in 0 .. 15, Bits(m) = Bits(n)
  PROVE  m = n
<1>1. \A i \in 0 .. 3 : ((m \div 2^i) % 2 = 1) <=> ((n \div 2^i) % 2 = 1)
  BY DEF Bits, BootTryCount
<1>2. /\ ((m \div 1) % 2 = 1) <=> ((n \div 1) % 2 = 1)
      /\ ((m \div 2) % 2 = 1) <=> ((n \div 2) % 2 = 1)
      /\ ((m \div 4) % 2 = 1) <=> ((n \div 4) % 2 = 1)
      /\ ((m \div 8) % 2 = 1) <=> ((n \div 8) % 2 = 1)
  BY <1>1, Powers
<1> QED BY <1>2

LEMMA NumOfBits ==
  ASSUME NEW n \in 0 .. 15
  PROVE  Num(Bits(n)) = n
<1>1. \A m \in 0 .. 15 : Bits(m) = Bits(n) <=> m = n
  BY BitsInjective
<1> QED BY <1>1 DEF Num

-----------------------------------------------------------------------------
(* One step of the CRC                                                       *)

Up(b) == {i + 8 : i \in b}

\* What a shift of the register does to its high half.
Turn(b) ==
  LET s == {i + 1 : i \in b \ {7}}
  IN  IF 7 \in b THEN Xor(s, {0, 1, 2}) ELSE s

LEMMA TurnIsByte ==
  ASSUME NEW b \in Byte
  PROVE  Turn(b) \in Byte
<1>1. {i + 1 : i \in b \ {7}} \subseteq 0 .. 7
  BY DEF Byte
<1> QED BY <1>1 DEF Turn, Xor, Byte

LEMMA ShiftTurns ==
  ASSUME NEW b \in Byte
  PROVE  Shift(Up(b)) = Up(Turn(b))
<1>1. 15 \in Up(b) <=> 7 \in b
  BY DEF Up, Byte
<1>2. CASE 7 \in b
  <2>1. Shift(Up(b)) = {i + 1 : i \in Xor(Up(b), {15, 9, 8, 7}) \ {15}}
    BY <1>1, <1>2 DEF Shift
  <2>2. Turn(b) = Xor({i + 1 : i \in b \ {7}}, {0, 1, 2})
    BY <1>2 DEF Turn
  <2>3. ASSUME NEW x \in Shift(Up(b)) PROVE x \in Up(Turn(b))
    <3>1. PICK i \in Xor(Up(b), {15, 9, 8, 7}) \ {15} : x = i + 1
      BY <2>1
    <3>2. i - 7 \in Turn(b)
      BY <2>2, <3>1 DEF Up, Xor, Byte
    <3>3. i \in Int
      BY <3>1 DEF Up, Xor, Byte
    <3> QED BY <3>1, <3>2, <3>3 DEF Up
  <2>4. ASSUME NEW x \in Up(Turn(b)) PROVE x \in Shift(Up(b))
    <3>1. PICK j \in Turn(b) : x = j + 8
      BY DEF Up
    <3>2. j \in 0 .. 7
      BY TurnIsByte DEF Byte
    <3>3. j + 7 \in Xor(Up(b), {15, 9, 8, 7}) \ {15}
      BY <2>2, <3>1, <3>2 DEF Up, Xor, Byte
    <3> QED BY <2>1, <3>1, <3>2, <3>3
  <2> QED BY <2>3, <2>4
<1>3. CASE 7 \notin b
  <2>1. Shift(Up(b)) = {i + 1 : i \in Up(b)}
    BY <1>1, <1>3 DEF Shift
  <2>2. Turn(b) = {i + 1 : i \in b}
    BY <1>3 DEF Turn
  <2>3. ASSUME NEW x \in Shift(Up(b)) PROVE x \in Up(Turn(b))
    <3>1. PICK j \in b : x = (j + 8) + 1
      BY <2>1 DEF Up
    <3>2. j \in 0 .. 7
      BY DEF Byte
    <3>3. j + 1 \in Turn(b) /\ x = (j + 1) + 8
      BY <2>2, <3>1, <3>2
    <3> QED BY <3>3 DEF Up
  <2>4. ASSUME NEW x \in Up(Turn(b)) PROVE x \in Shift(Up(b))
    <3>1. PICK j \in b : x = (j + 1) + 8
      BY <2>2 DEF Up
    <3>2. j \in 0 .. 7
      BY DEF Byte
    <3>3. j + 8 \in Up(b) /\ x = (j + 8) + 1
      BY <3>1, <3>2 DEF Up
    <3> QED BY <2>1, <3>3
  <2> QED BY <2>3, <2>4
<1> QED BY <1>2, <1>3

LEMMA TurnInjective ==
  ASSUME NEW a \in Byte, NEW b \in Byte, Turn(a) = Turn(b)
  PROVE  a = b
<1> DEFINE s(c) == {i + 1 : i \in c \ {7}}
<1>1. \A c \in Byte : 0 \in Turn(c) <=> 7 \in c
  BY DEF Turn, Xor, Byte
<1>2. 7 \in a <=> 7 \in b
  BY <1>1
<1>3. s(a) = s(b)
  BY <1>2 DEF Turn, Xor
<1>4. \A c \in Byte : \A i \in 0 .. 6 : i \in c <=> i + 1 \in s(c)
  BY DEF Byte
<1> HIDE DEF s
<1>5. \A i \in 0 .. 6 : i \in a <=> i \in b
  BY <1>3, <1>4
<1>6. \A i \in 0 .. 7 : i \in a <=> i \in b
  BY <1>2, <1>5
<1>7. a \subseteq 0 .. 7 /\ b \subseteq 0 .. 7
  BY DEF Byte
<1> QED BY <1>6, <1>7

\* The eight shifts are a permutation of the bytes.
LEMMA EightShiftsPermute ==
  /\ \A b \in Byte : EightShifts[b] \in Byte
  /\ \A a, b \in Byte : EightShifts[a] = EightShifts[b] => a = b
<1> DEFINE T2(b) == Turn(Turn(b))
           T4(b) == T2(T2(b))
           S2(c) == Shift(Shift(c))
           S4(c) == S2(S2(c))
<1>1. \A b \in Byte : T2(b) \in Byte /\ S2(Up(b)) = Up(T2(b))
  BY TurnIsByte, ShiftTurns
<1>2. \A a, b \in Byte : T2(a) = T2(b) => a = b
  BY TurnIsByte, TurnInjective
<1>3. \A b \in Byte : EightShifts[b] = {i - 8 : i \in S4(S4(Up(b)))}
  BY DEF EightShifts, Up
<1> HIDE DEF T2, S2
<1>4. \A b \in Byte : T4(b) \in Byte /\ S4(Up(b)) = Up(T4(b))
  BY <1>1
<1>5. \A a, b \in Byte : T4(a) = T4(b) => a = b
  BY <1>1, <1>2
<1> HIDE DEF T4, S4
<1>6. ASSUME NEW b \in Byte PROVE {i - 8 : i \in Up(b)} = b
  <2>1. \A j \in b : j \in Int /\ (j + 8) - 8 = j
    BY DEF Byte
  <2>2. \A x : x \in Up(b) <=> \E j \in b : x = j + 8
    BY DEF Up
  <2>3. ASSUME NEW x \in {i - 8 : i \in Up(b)} PROVE x \in b
    <3>1. PICK i \in Up(b) : x = i - 8
      OBVIOUS
    <3> QED BY <2>1, <2>2, <3>1
  <2>4. ASSUME NEW x \in b PROVE x \in {i - 8 : i \in Up(b)}
    BY <2>1, <2>2
  <2> QED BY <2>3, <2>4
<1>7. ASSUME NEW b \in Byte PROVE EightShifts[b] = T4(T4(b))
  <2>1. S4(Up(b)) = Up(T4(b)) /\ T4(b) \in Byte
    BY <1>4
  <2>2. S4(Up(T4(b))) = Up(T4(T4(b))) /\ T4(T4(b)) \in Byte
    BY <1>4, <2>1
  <2>3. EightShifts[b] = {i - 8 : i \in S4(S4(Up(b)))}
    BY <1>3
  <2>4. {i - 8 : i \in Up(T4(T4(b)))} = T4(T4(b))
    BY <1>6, <2>2
  <2> QED BY <2>1, <2>2, <2>3, <2>4
<1> QED BY <1>4, <1>5, <1>7

LEMMA AddByteIs ==
  ASSUME NEW crc \in Byte, NEW byte \in Byte
  PROVE  /\ AddByte(crc, byte) \in Byte
         /\ \A c \in Byte : AddByte(c, byte) = AddByte(crc, byte) => c = crc
         /\ \A b \in Byte : AddByte(crc, b) = AddByte(crc, byte) => b = byte
<1>1. \A a, b \in Byte : Xor(a, b) \in Byte
  BY DEF Xor, Byte
<1>2. \A a, b, c : Xor(a, b) = Xor(a, c) => b = c
  BY DEF Xor
<1>3. \A a, b, c : Xor(b, a) = Xor(c, a) => b = c
  BY DEF Xor
<1> QED BY <1>1, <1>2, <1>3, EightShiftsPermute DEF AddByte

-----------------------------------------------------------------------------
(* The register after each byte                                              *)

CrcOf(blk, f, n) ==
  f = [k \in 0 .. n |-> IF k = 0 THEN {} ELSE AddByte(f[k - 1], blk[k - 1])]

LEMMA CrcExists ==
  ASSUME NEW blk
  PROVE  \E f : CrcOf(blk, f, 15)
<1> DEFINE T == {n \in 0 .. 15 : ~ \E f : CrcOf(blk, f, n)}
<1>1. SUFFICES ASSUME T # {} PROVE FALSE
  OBVIOUS
<1> T \subseteq Nat
  OBVIOUS
<1> HIDE DEF T
<1>2. PICK n \in T : \A m \in T : n <= m
  BY <1>1, LeastNumber
<1> USE DEF T
<1>3. CASE n = 0
  <2> DEFINE f == [k \in 0 .. n |-> {}]
  <2>1. CrcOf(blk, f, n)
    BY <1>3 DEF CrcOf
  <2> QED BY <1>2, <2>1
<1>4. CASE n # 0
  <2>1. n \in 1 .. 15 /\ n - 1 \in 0 .. 15 /\ ~(n <= n - 1)
    BY <1>2, <1>4
  <2>2. PICK f : CrcOf(blk, f, n - 1)
    BY <1>2, <2>1
  <2> DEFINE g == [k \in 0 .. n |-> IF k = 0 THEN {}
                                     ELSE AddByte(f[k - 1], blk[k - 1])]
  <2>3. \A k \in 0 .. (n - 1) : f[k] = g[k]
    <3>1. \A k \in 0 .. (n - 1) :
            f[k] = IF k = 0 THEN {} ELSE AddByte(f[k - 1], blk[k - 1])
      BY <2>2 DEF CrcOf
    <3>2. 0 .. (n - 1) \subseteq 0 .. n
      BY <2>1
    <3>3. \A k \in 0 .. n :
            g[k] = IF k = 0 THEN {} ELSE AddByte(f[k - 1], blk[k - 1])
      OBVIOUS
    <3> QED BY <3>1, <3>2, <3>3
  <2>4. ASSUME NEW k \in 0 .. n, k # 0 PROVE g[k - 1] = f[k - 1]
    <3>1. k - 1 \in 0 .. (n - 1)
      BY <2>1, <2>4
    <3> HIDE DEF g
    <3> QED BY <2>3, <3>1
  <2>5. \A k \in 0 .. n :
          g[k] = IF k = 0 THEN {} ELSE AddByte(g[k - 1], blk[k - 1])
    BY <2>4
  <2>6. CrcOf(blk, g, n)
    BY <2>5 DEF CrcOf
  <2> QED BY <1>2, <2>6
<1> QED BY <1>3, <1>4

Register(blk, r) ==
  /\ r[0] = {}
  /\ \A k \in 1 .. 15 : r[k] = AddByte(r[k - 1], blk[k - 1])
  /\ Crc8(blk) = r[15]

LEMMA RegisterExists ==
  ASSUME NEW blk
  PROVE  \E r : Register(blk, r)
<1> DEFINE r == CHOOSE f : CrcOf(blk, f, 15)
<1>1. CrcOf(blk, r, 15)
  BY CrcExists
<1>2. Crc8(blk) = r[15]
  BY Zenon DEF Crc8, HighHalf, CrcOf, OffsCrc
<1> HIDE DEF r
<1>3. \A k \in 0 .. 15 :
        r[k] = IF k = 0 THEN {} ELSE AddByte(r[k - 1], blk[k - 1])
  BY <1>1 DEF CrcOf
<1>4. r[0] = {} /\ \A k \in 1 .. 15 : r[k] = AddByte(r[k - 1], blk[k - 1])
  BY <1>3
<1> QED BY <1>2, <1>4 DEF Register

\* A statement about every step of the register, from the first one on.
LEMMA RegisterBytes ==
  ASSUME NEW blk \in Bytes, NEW r, Register(blk, r)
  PROVE  \A k \in 0 .. 15 : r[k] \in Byte
<1> DEFINE T == {k \in 0 .. 15 : r[k] \notin Byte}
<1>1. SUFFICES ASSUME T # {} PROVE FALSE
  OBVIOUS
<1>2. PICK n \in T : \A m \in T : n <= m
  BY <1>1, LeastNumber
<1>3. n # 0
  BY <1>2 DEF Register, Byte
<1>4. n \in 1 .. 15 /\ n - 1 \in 0 .. 15 /\ ~(n <= n - 1)
  BY <1>2, <1>3
<1>5. r[n - 1] \in Byte /\ blk[n - 1] \in Byte
  BY <1>2, <1>4 DEF Bytes
<1>6. r[n] = AddByte(r[n - 1], blk[n - 1])
  BY <1>4 DEF Register
<1> QED BY <1>2, <1>5, <1>6, AddByteIs

LEMMA Crc8IsByte ==
  ASSUME NEW blk \in Bytes
  PROVE  Crc8(blk) \in Byte
BY RegisterExists, RegisterBytes DEF Register

LEMMA RegistersAgree ==
  ASSUME NEW a, NEW b, NEW r, NEW s, Register(a, r), Register(b, s),
         NEW n \in 0 .. 15, \A k \in 0 .. 14 : k < n => a[k] = b[k]
  PROVE  r[n] = s[n]
<1> DEFINE T == {k \in 0 .. n : r[k] # s[k]}
<1>1. SUFFICES ASSUME T # {} PROVE FALSE
  OBVIOUS
<1>2. PICK m \in T : \A k \in T : m <= k
  BY <1>1, LeastNumber
<1>3. m # 0
  BY <1>2 DEF Register
<1>4. m \in 1 .. 15 /\ m - 1 \in 0 .. n /\ m - 1 \in 0 .. 14 /\ m - 1 < n
      /\ ~(m <= m - 1)
  BY <1>2, <1>3
<1>5. r[m - 1] = s[m - 1] /\ a[m - 1] = b[m - 1]
  BY <1>2, <1>4
<1> QED BY <1>2, <1>4, <1>5 DEF Register

\* The CRC covers the bytes before it, and nothing else.
LEMMA CrcCovers ==
  ASSUME NEW a, NEW b, \A k \in 0 .. 14 : a[k] = b[k]
  PROVE  Crc8(a) = Crc8(b)
<1>1. PICK r : Register(a, r)
  BY RegisterExists
<1>2. PICK s : Register(b, s)
  BY RegisterExists
<1>3. r[15] = s[15]
  BY <1>1, <1>2, RegistersAgree
<1> QED BY <1>1, <1>2, <1>3 DEF Register

\* Two blocks that differ in one of the bytes the CRC covers have different
\* CRCs: a write torn inside one byte's difference never verifies
\* (scripts/vbnv.py crc8(), Crc8() of patches/edk2/0003).
THEOREM OneByteIsCaught ==
  ASSUME NEW a \in Bytes, NEW b \in Bytes, NEW i \in 0 .. 14, a[i] # b[i],
         \A k \in 0 .. 14 : k # i => a[k] = b[k]
  PROVE  Crc8(a) # Crc8(b)
<1>1. PICK r : Register(a, r)
  BY RegisterExists
<1>2. PICK s : Register(b, s)
  BY RegisterExists
<1>3. \A k \in 0 .. 15 : r[k] \in Byte /\ s[k] \in Byte
  BY <1>1, <1>2, RegisterBytes
<1> DEFINE T == {k \in (i + 1) .. 15 : r[k] = s[k]}
<1>4. SUFFICES ASSUME T # {} PROVE FALSE
  BY <1>1, <1>2 DEF Register
<1>5. PICK n \in T : \A m \in T : n <= m
  BY <1>4, LeastNumber
<1>6. n \in 1 .. 15 /\ n - 1 \in 0 .. 14 /\ n - 1 \in 0 .. 15
      /\ ~(n <= n - 1)
  BY <1>5
<1>7. /\ r[n] = AddByte(r[n - 1], a[n - 1])
      /\ s[n] = AddByte(s[n - 1], b[n - 1])
  BY <1>1, <1>2, <1>6 DEF Register
<1>8. a[n - 1] \in Byte /\ b[n - 1] \in Byte
  BY <1>6 DEF Bytes
<1>9. CASE n = i + 1
  <2>1. r[i] = s[i]
    BY <1>1, <1>2, RegistersAgree
  <2>2. n - 1 = i
    BY <1>9
  <2>3. AddByte(r[i], a[i]) = AddByte(r[i], b[i])
    BY <1>5, <1>7, <2>1, <2>2
  <2> QED BY <1>3, <1>6, <1>8, <2>2, <2>3, AddByteIs
<1>10. CASE n # i + 1
  <2>1. n - 1 \in (i + 1) .. 15 /\ n - 1 # i
    BY <1>5, <1>10
  <2>2. r[n - 1] # s[n - 1]
    BY <1>5, <1>6, <2>1
  <2>3. a[n - 1] = b[n - 1]
    BY <1>6, <2>1
  <2>4. AddByte(r[n - 1], a[n - 1]) = AddByte(s[n - 1], a[n - 1])
    BY <1>5, <1>7, <2>3
  <2> QED BY <1>3, <1>6, <1>8, <2>2, <2>4, AddByteIs
<1> QED BY <1>9, <1>10

-----------------------------------------------------------------------------
(* Edits of the bytes are edits of the fields                                *)

ResultOf(bits) == CHOOSE r \in Results : ResultBits[r] = bits

Fields(v, x, c, t, r, q) ==
  [valid |-> v, tryNext |-> x, tryCount |-> c, tried |-> t, result |-> r,
   recovery |-> q]

LEMMA ResultEdited ==
  ASSUME NEW b, NEW v, NEW x, NEW c, NEW t, NEW r, NEW q, NEW r1,
         b = Fields(v, x, c, t, r, q)
  PROVE  [b EXCEPT !.result = r1]
           = Fields(v, x, c, t, r1, q)
BY DEF Fields

LEMMA NextEdited ==
  ASSUME NEW b, NEW v, NEW x, NEW c, NEW t, NEW r, NEW q, NEW x1,
         b = Fields(v, x, c, t, r, q)
  PROVE  [b EXCEPT !.tryNext = x1]
           = Fields(v, x1, c, t, r, q)
BY DEF Fields

LEMMA CountEdited ==
  ASSUME NEW b, NEW v, NEW x, NEW c, NEW t, NEW r, NEW q, NEW c1,
         b = Fields(v, x, c, t, r, q)
  PROVE  [b EXCEPT !.tryCount = c1]
           = Fields(v, x, c1, t, r, q)
BY DEF Fields

LEMMA DecodeFields ==
  ASSUME NEW blk
  PROVE  Decode(blk) = Fields(BlockOk(blk), SlotBit(blk, 3),
                              Num(blk[1] \cap (0 .. 3)), SlotBit(blk, 2),
                              ResultOf(blk[7] \cap {0, 1}), blk[2] # {})
BY Zenon DEF Decode, Fields, ResultOf, Boot2TryNext, Boot2Tried, Boot2Result,
   BootTryCount, OffsBoot, OffsBoot2, OffsRecovery

\* Both blocks hold: their validity is the same value.
LEMMA DecodeEdited ==
  ASSUME NEW blk, NEW new, BlockOk(blk), BlockOk(new), new[2] = blk[2],
         SlotBit(new, 2) = SlotBit(blk, 2)
  PROVE  Decode(new) = Fields(BlockOk(blk), SlotBit(new, 3),
                              Num(new[1] \cap (0 .. 3)), SlotBit(blk, 2),
                              ResultOf(new[7] \cap {0, 1}), blk[2] # {})
<1>1. BlockOk(new) = BlockOk(blk)
  BY Zenon DEF BlockOk
<1>2. (new[2] # {}) = (blk[2] # {})
  OBVIOUS
<1> QED BY <1>1, <1>2, DecodeFields, Zenon

LEMMA SuccessBits == ResultBits.success = {1} /\ ResultOf({1}) = "success"
<1>1. /\ ResultBits["unknown"] = {}
      /\ ResultBits["trying"] = {0}
      /\ ResultBits["success"] = {1}
      /\ ResultBits["failure"] = {0, 1}
  BY DEF ResultBits
<1>2. \A r \in Results : ResultBits[r] = {1} <=> r = "success"
  BY <1>1 DEF Results
<1>3. "success" \in Results
  BY DEF Results
<1>4. ResultBits.success = {1}
  BY DEF ResultBits
<1> QED BY <1>2, <1>3, <1>4 DEF ResultOf

LEMMA HeaderKept ==
  ASSUME NEW a, NEW b, a[0] = b[0], a[15] = Crc8(a), BlockOk(b)
  PROVE  BlockOk(a)
BY DEF BlockOk, OffsHeader, OffsCrc

LEMMA SealedIs ==
  ASSUME NEW blk \in Bytes
  PROVE  /\ Sealed(blk) \in Bytes
         /\ \A k \in 0 .. 14 : Sealed(blk)[k] = blk[k]
         /\ Sealed(blk)[15] = Crc8(Sealed(blk))
<1>1. /\ Sealed(blk) = [blk EXCEPT ![15] = Crc8(blk)]
      /\ Crc8(blk) \in Byte
  BY Crc8IsByte DEF Sealed, OffsCrc
<1>2. \A k \in 0 .. 14 : Sealed(blk)[k] = blk[k]
  BY <1>1 DEF Bytes
<1>3. Sealed(blk)[15] = Crc8(blk)
  BY <1>1 DEF Bytes
<1>4. Crc8(Sealed(blk)) = Crc8(blk)
  BY <1>2, CrcCovers
<1>5. Sealed(blk) \in Bytes
  BY <1>1 DEF Bytes
<1> QED BY <1>2, <1>3, <1>4, <1>5

LEMMA BitsAreBits ==
  ASSUME NEW n
  PROVE  Bits(n) \subseteq 0 .. 3
BY DEF Bits, BootTryCount

\* What PutTryNext and PutTryCount leave, byte by byte.
LEMMA PutTryNextIs ==
  ASSUME NEW blk \in Bytes, NEW s
  PROVE  /\ PutTryNext(blk, s) \in Bytes
         /\ PutTryNext(blk, s)[7] = IF s = "B" THEN blk[7] \cup {3}
                                               ELSE blk[7] \ {3}
         /\ \A k \in 0 .. 15 : k # 7 => PutTryNext(blk, s)[k] = blk[k]
<1> DEFINE byte == IF s = "B" THEN blk[7] \cup {3} ELSE blk[7] \ {3}
<1>1. byte \in Byte
  BY DEF Bytes, Byte
<1>2. PutTryNext(blk, s) = [blk EXCEPT ![7] = byte]
  BY DEF PutTryNext, OffsBoot2, Boot2TryNext
<1> HIDE DEF byte
<1>3. PutTryNext(blk, s) \in Bytes
  BY <1>1, <1>2 DEF Bytes
<1>4. PutTryNext(blk, s)[7] = byte
      /\ \A k \in 0 .. 15 : k # 7 => PutTryNext(blk, s)[k] = blk[k]
  BY <1>2 DEF Bytes
<1> QED BY <1>3, <1>4 DEF byte

LEMMA PutTryCountIs ==
  ASSUME NEW blk \in Bytes, NEW n
  PROVE  /\ PutTryCount(blk, n) \in Bytes
         /\ PutTryCount(blk, n)[1] = (blk[1] \ (0 .. 3)) \cup Bits(n)
         /\ \A k \in 0 .. 15 : k # 1 => PutTryCount(blk, n)[k] = blk[k]
<1> DEFINE byte == (blk[1] \ (0 .. 3)) \cup Bits(n)
<1>1. byte \in Byte
  BY BitsAreBits DEF Bytes, Byte
<1>2. PutTryCount(blk, n) = [blk EXCEPT ![1] = byte]
  BY DEF PutTryCount, OffsBoot, BootTryCount
<1> HIDE DEF byte
<1>3. PutTryCount(blk, n) \in Bytes
  BY <1>1, <1>2 DEF Bytes
<1>4. PutTryCount(blk, n)[1] = byte
      /\ \A k \in 0 .. 15 : k # 1 => PutTryCount(blk, n)[k] = blk[k]
  BY <1>2 DEF Bytes
<1> QED BY <1>3, <1>4 DEF byte

LEMMA BootOkIs ==
  ASSUME NEW blk \in Bytes, BlockOk(blk)
  PROVE  /\ BootOkBytes(blk) \in Bytes
         /\ Decode(BootOkBytes(blk)) = MarkSuccess(Decode(blk))
<1> DEFINE mid == [blk EXCEPT ![7] = (blk[7] \ {0, 1}) \cup {1}]
           new == BootOkBytes(blk)
<1>1. new = Sealed(mid)
  BY SuccessBits DEF BootOkBytes, OffsBoot2, Boot2Result
<1>2. blk[7] \in Byte
  BY DEF Bytes
<1>3. (blk[7] \ {0, 1}) \cup {1} \in Byte
  BY <1>2 DEF Byte
<1>4. mid \in Bytes
  BY <1>3 DEF Bytes
<1>5. /\ mid[0] = blk[0] /\ mid[1] = blk[1] /\ mid[2] = blk[2]
      /\ mid[7] = (blk[7] \ {0, 1}) \cup {1}
  BY DEF Bytes
<1> HIDE DEF mid, new
<1>6. /\ new \in Bytes /\ new[15] = Crc8(new)
      /\ new[0] = blk[0] /\ new[1] = blk[1] /\ new[2] = blk[2]
      /\ new[7] = (blk[7] \ {0, 1}) \cup {1}
  BY <1>1, <1>4, <1>5, SealedIs
<1>7. BlockOk(new)
  BY <1>6, HeaderKept
<1>8. /\ SlotBit(new, 3) = SlotBit(blk, 3)
      /\ SlotBit(new, 2) = SlotBit(blk, 2)
  BY <1>6 DEF SlotBit, OffsBoot2
<1>9. new[7] \cap {0, 1} = {1}
  BY <1>6
<1>10. Decode(new) = [Decode(blk) EXCEPT !.result = "success"]
  <2>1. Decode(new) = Fields(BlockOk(blk), SlotBit(new, 3),
                             Num(new[1] \cap (0 .. 3)), SlotBit(blk, 2),
                             ResultOf(new[7] \cap {0, 1}), blk[2] # {})
    BY <1>6, <1>7, <1>8, DecodeEdited
  <2>2. Decode(new) =
          Fields(BlockOk(blk), SlotBit(blk, 3), Num(blk[1] \cap (0 .. 3)),
             SlotBit(blk, 2), "success", blk[2] # {})
    BY <2>1, <1>6, <1>8, <1>9, SuccessBits, Zenon
  <2>3. [Decode(blk) EXCEPT !.result = "success"] =
          Fields(BlockOk(blk), SlotBit(blk, 3), Num(blk[1] \cap (0 .. 3)),
             SlotBit(blk, 2), "success", blk[2] # {})
    <3> DEFINE v == BlockOk(blk)
               x == SlotBit(blk, 3)
               c == Num(blk[1] \cap (0 .. 3))
               t == SlotBit(blk, 2)
               r == ResultOf(blk[7] \cap {0, 1})
               q == blk[2] # {}
               b == Decode(blk)
    <3>1. b = Fields(v, x, c, t, r, q)
      BY DecodeFields
    <3> HIDE DEF v, x, c, t, r, q, b
    <3>2. [b EXCEPT !.result = "success"] = Fields(v, x, c, t, "success", q)
      BY <3>1, ResultEdited
    <3> QED BY <3>2 DEF v, x, c, t, r, q, b
  <2> QED BY <2>2, <2>3
<1> QED BY <1>6, <1>10 DEF MarkSuccess, new

LEMMA TryNextIs ==
  ASSUME NEW blk \in Bytes, BlockOk(blk), NEW s \in Slots
  PROVE  /\ TryNextBytes(blk, s) \in Bytes
         /\ Decode(TryNextBytes(blk, s)) = SelectNext(Decode(blk), s)
<1> DEFINE mid == PutTryNext(blk, s)
           new == TryNextBytes(blk, s)
<1>1. new = Sealed(mid)
  BY DEF TryNextBytes
<1>2. /\ mid \in Bytes
      /\ mid[0] = blk[0] /\ mid[1] = blk[1] /\ mid[2] = blk[2]
      /\ mid[7] = IF s = "B" THEN blk[7] \cup {3} ELSE blk[7] \ {3}
  BY PutTryNextIs
<1> HIDE DEF mid, new
<1>3. /\ new \in Bytes /\ new[15] = Crc8(new)
      /\ new[0] = blk[0] /\ new[1] = blk[1] /\ new[2] = blk[2]
      /\ new[7] = IF s = "B" THEN blk[7] \cup {3} ELSE blk[7] \ {3}
  BY <1>1, <1>2, SealedIs
<1>4. BlockOk(new)
  BY <1>3, HeaderKept
<1>5. /\ SlotBit(new, 3) = s
      /\ SlotBit(new, 2) = SlotBit(blk, 2)
  BY <1>3 DEF SlotBit, OffsBoot2, Slots
<1>6. new[7] \cap {0, 1} = blk[7] \cap {0, 1}
  BY <1>3
<1>7. Decode(new) = [Decode(blk) EXCEPT !.tryNext = s]
  <2>1. Decode(new) = Fields(BlockOk(blk), SlotBit(new, 3),
                             Num(new[1] \cap (0 .. 3)), SlotBit(blk, 2),
                             ResultOf(new[7] \cap {0, 1}), blk[2] # {})
    BY <1>3, <1>4, <1>5, DecodeEdited
  <2>2. Decode(new) =
          Fields(BlockOk(blk), s, Num(blk[1] \cap (0 .. 3)),
             SlotBit(blk, 2), ResultOf(blk[7] \cap {0, 1}), blk[2] # {})
    BY <2>1, <1>3, <1>5, <1>6, Zenon
  <2>3. [Decode(blk) EXCEPT !.tryNext = s] =
          Fields(BlockOk(blk), s, Num(blk[1] \cap (0 .. 3)),
             SlotBit(blk, 2), ResultOf(blk[7] \cap {0, 1}), blk[2] # {})
    <3> DEFINE v == BlockOk(blk)
               x == SlotBit(blk, 3)
               c == Num(blk[1] \cap (0 .. 3))
               t == SlotBit(blk, 2)
               r == ResultOf(blk[7] \cap {0, 1})
               q == blk[2] # {}
               b == Decode(blk)
    <3>1. b = Fields(v, x, c, t, r, q)
      BY DecodeFields
    <3> HIDE DEF v, x, c, t, r, q, b
    <3>2. [b EXCEPT !.tryNext = s] = Fields(v, s, c, t, r, q)
      BY <3>1, NextEdited
    <3> QED BY <3>2 DEF v, x, c, t, r, q, b
  <2> QED BY <2>2, <2>3
<1> QED BY <1>3, <1>7 DEF SelectNext, new

LEMMA ArmUpdateIs ==
  ASSUME NEW blk \in Bytes, BlockOk(blk), NEW s \in Slots, NEW n \in 0 .. 15
  PROVE  /\ ArmUpdateBytes(blk, s, n) \in Bytes
         /\ \A k \in 0 .. 14 : k \notin {1, 7} =>
              ArmUpdateBytes(blk, s, n)[k] = blk[k]
         /\ BlockOk(ArmUpdateBytes(blk, s, n))
         /\ Decode(ArmUpdateBytes(blk, s, n)) = ArmUpdate(Decode(blk), s, n)
<1> DEFINE fst == PutTryNext(blk, s)
           mid == PutTryCount(fst, n)
           new == ArmUpdateBytes(blk, s, n)
<1>1. new = Sealed(mid)
  BY DEF ArmUpdateBytes
<1>2. /\ fst \in Bytes
      /\ \A k \in 0 .. 15 : k # 7 => fst[k] = blk[k]
      /\ fst[7] = IF s = "B" THEN blk[7] \cup {3} ELSE blk[7] \ {3}
  BY PutTryNextIs
<1> HIDE DEF fst
<1>3. /\ mid \in Bytes
      /\ \A k \in 0 .. 15 : k # 1 => mid[k] = fst[k]
      /\ mid[1] = (fst[1] \ (0 .. 3)) \cup Bits(n)
  BY <1>2, PutTryCountIs
<1> HIDE DEF mid, new
<1>4. /\ new \in Bytes /\ new[15] = Crc8(new)
      /\ \A k \in 0 .. 14 : new[k] = mid[k]
  BY <1>1, <1>3, SealedIs
<1>5. \A k \in 0 .. 14 : k \notin {1, 7} => new[k] = blk[k]
  BY <1>2, <1>3, <1>4
<1>6. /\ new[0] = blk[0] /\ new[2] = blk[2]
      /\ new[1] = (blk[1] \ (0 .. 3)) \cup Bits(n)
      /\ new[7] = IF s = "B" THEN blk[7] \cup {3} ELSE blk[7] \ {3}
  BY <1>2, <1>3, <1>4
<1>7. BlockOk(new)
  BY <1>4, <1>6, HeaderKept
<1>8. /\ SlotBit(new, 3) = s
      /\ SlotBit(new, 2) = SlotBit(blk, 2)
  BY <1>6 DEF SlotBit, OffsBoot2, Slots
<1>9. new[7] \cap {0, 1} = blk[7] \cap {0, 1}
  BY <1>6
<1>10. new[1] \cap (0 .. 3) = Bits(n)
  BY <1>6, BitsAreBits
<1>11. Num(new[1] \cap (0 .. 3)) = n
  BY <1>10, NumOfBits
<1>12. Decode(new) = [Decode(blk) EXCEPT !.tryNext = s, !.tryCount = n]
  <2>1. Decode(new) = Fields(BlockOk(blk), SlotBit(new, 3),
                             Num(new[1] \cap (0 .. 3)), SlotBit(blk, 2),
                             ResultOf(new[7] \cap {0, 1}), blk[2] # {})
    BY <1>6, <1>7, <1>8, DecodeEdited
  <2>2. Decode(new) =
          Fields(BlockOk(blk), s, n,
             SlotBit(blk, 2), ResultOf(blk[7] \cap {0, 1}), blk[2] # {})
    BY <2>1, <1>8, <1>9, <1>11, Zenon
  <2>3. [Decode(blk) EXCEPT !.tryNext = s, !.tryCount = n] =
          Fields(BlockOk(blk), s, n,
             SlotBit(blk, 2), ResultOf(blk[7] \cap {0, 1}), blk[2] # {})
    <3> DEFINE v == BlockOk(blk)
               x == SlotBit(blk, 3)
               c == Num(blk[1] \cap (0 .. 3))
               t == SlotBit(blk, 2)
               r == ResultOf(blk[7] \cap {0, 1})
               q == blk[2] # {}
               b == Decode(blk)
    <3>1. b = Fields(v, x, c, t, r, q)
      BY DecodeFields
    <3> HIDE DEF v, x, c, t, r, q, b
    <3> DEFINE b1 == [b EXCEPT !.tryNext = s]
    <3>2. [b EXCEPT !.tryNext = s, !.tryCount = n] = [b1 EXCEPT !.tryCount = n]
      BY Zenon
    <3>3. b1 = Fields(v, s, c, t, r, q)
      BY <3>1, NextEdited
    <3> HIDE DEF b1
    <3>4. [b1 EXCEPT !.tryCount = n] = Fields(v, s, n, t, r, q)
      BY <3>3, CountEdited
    <3>5. [b EXCEPT !.tryNext = s, !.tryCount = n] = Fields(v, s, n, t, r, q)
      BY <3>2, <3>4
    <3> QED BY <3>5 DEF v, x, c, t, r, q, b
  <2> QED BY <2>2, <2>3
<1> QED BY <1>4, <1>5, <1>7, <1>12 DEF ArmUpdate, new

LEMMA ArmTrialBootIs ==
  ASSUME NEW blk \in Bytes, BlockOk(blk), NEW s \in Slots
  PROVE  /\ ArmTrialBootBytes(blk, s) \in Bytes
         /\ \A k \in 0 .. 14 : k \notin {1, 7} =>
              ArmTrialBootBytes(blk, s)[k] = blk[k]
         /\ Decode(ArmTrialBootBytes(blk, s)) = ArmTrialBoot(Decode(blk), s)
         /\ BlockOk(ArmTrialBootBytes(blk, s))
<1>1. ArmTrialBootBytes(blk, s) = ArmUpdateBytes(blk, s, 1)
  BY DEF ArmTrialBootBytes, ArmUpdateBytes
<1>2. ArmTrialBoot(Decode(blk), s) = ArmUpdate(Decode(blk), s, 1)
  BY DEF ArmTrialBoot, ArmUpdate
<1>3. 1 \in 0 .. 15
  OBVIOUS
<1> DEFINE new == ArmUpdateBytes(blk, s, 1)
<1>4. /\ new \in Bytes
      /\ \A k \in 0 .. 14 : k \notin {1, 7} => new[k] = blk[k]
      /\ BlockOk(new)
      /\ Decode(new) = ArmUpdate(Decode(blk), s, 1)
  BY <1>3, ArmUpdateIs
<1> QED BY <1>1, <1>2, <1>4

\* What each edit of the fields leaves of the fields that others rely on.
LEMMA EditsKeep ==
  ASSUME NEW blk, NEW s, NEW n
  PROVE  LET b == Decode(blk)
         IN  /\ MarkSuccess(b).valid = b.valid
             /\ MarkSuccess(b).tryNext = b.tryNext
             /\ MarkSuccess(b).tryCount = b.tryCount
             /\ MarkSuccess(b).result = "success"
             /\ ArmUpdate(b, s, n).valid = b.valid
             /\ ArmUpdate(b, s, n).tryNext = s
             /\ ArmUpdate(b, s, n).tryCount = n
             /\ ArmUpdate(b, s, n).result = b.result
             /\ SelectNext(b, s).result = b.result
<1> DEFINE v == BlockOk(blk)
           x == SlotBit(blk, 3)
           c == Num(blk[1] \cap (0 .. 3))
           t == SlotBit(blk, 2)
           r == ResultOf(blk[7] \cap {0, 1})
           q == blk[2] # {}
           b == Decode(blk)
<1>1. b = Fields(v, x, c, t, r, q)
  BY DecodeFields
<1> HIDE DEF v, x, c, t, r, q, b
<1>2. /\ MarkSuccess(b).valid = b.valid
      /\ MarkSuccess(b).tryNext = b.tryNext
      /\ MarkSuccess(b).tryCount = b.tryCount
      /\ MarkSuccess(b).result = "success"
  BY <1>1 DEF Fields, MarkSuccess
<1>3. /\ ArmUpdate(b, s, n).valid = b.valid
      /\ ArmUpdate(b, s, n).tryNext = s
      /\ ArmUpdate(b, s, n).tryCount = n
      /\ ArmUpdate(b, s, n).result = b.result
  BY <1>1 DEF Fields, ArmUpdate
<1>4. SelectNext(b, s).result = b.result
  BY <1>1 DEF Fields, SelectNext
<1> QED BY <1>2, <1>3, <1>4 DEF b

LEMMA DecodeValid ==
  ASSUME NEW blk
  PROVE  Decode(blk).valid <=> BlockOk(blk)
BY DEF Decode, BlockOk

LEMMA CommandIs ==
  ASSUME NEW c \in Commands
  PROVE  /\ c.op \in {"boot-ok", "arm-update", "try-next", "fix-checksum"}
         /\ c.slot \in Slots
         /\ c.tries \in 1 .. MaxTries
         /\ c.tries \in 1 .. 15
BY VbnvToolsAssumption, MaxTriesAssumption

\* The edit of a command in the bytes and in the fields.
LEMMA EditedIs ==
  ASSUME NEW blk \in Bytes, BlockOk(blk), NEW c \in Commands,
         c.op # "fix-checksum"
  PROVE  /\ Edited(c, blk) \in Bytes
         /\ c.op = "boot-ok" =>
              Decode(Edited(c, blk)) = MarkSuccess(Decode(blk))
         /\ c.op = "arm-update" =>
              Decode(Edited(c, blk)) = ArmUpdate(Decode(blk), c.slot, c.tries)
         /\ c.op = "try-next" =>
              Decode(Edited(c, blk)) = SelectNext(Decode(blk), c.slot)
<1>1. CASE c.op = "boot-ok"
  <2>1. Edited(c, blk) = BootOkBytes(blk)
    BY <1>1 DEF Edited
  <2> QED BY <1>1, <2>1, BootOkIs
<1>2. CASE c.op = "arm-update"
  <2>1. Edited(c, blk) = ArmUpdateBytes(blk, c.slot, c.tries)
    BY <1>2 DEF Edited
  <2>2. c.slot \in Slots /\ c.tries \in 0 .. 15
    BY CommandIs
  <2> DEFINE new == ArmUpdateBytes(blk, c.slot, c.tries)
  <2>3. /\ new \in Bytes
        /\ Decode(new) = ArmUpdate(Decode(blk), c.slot, c.tries)
    BY <2>2, ArmUpdateIs
  <2> QED BY <1>2, <2>1, <2>3
<1>3. CASE c.op = "try-next"
  <2>1. Edited(c, blk) = TryNextBytes(blk, c.slot)
    BY <1>3 DEF Edited
  <2>2. c.slot \in Slots
    BY CommandIs
  <2> QED BY <1>3, <2>1, <2>2, TryNextIs
<1> QED BY <1>1, <1>2, <1>3, CommandIs

-----------------------------------------------------------------------------
(* Types                                                                     *)

LEMMA InitType == Init => TypeOK
<1> SUFFICES ASSUME Init PROVE TypeOK
  OBVIOUS
<1>1. (CHOOSE c \in Commands : TRUE) \in Commands
  BY VbnvToolsAssumption
<1>2. cmos \in Bytes
  BY VbnvToolsAssumption DEF Init
<1>3. NoPromise \in [slot : Slots, tries : 0 .. MaxTries]
  BY MaxTriesAssumption DEF NoPromise, Slots
<1>4. /\ pc \in [Procs -> {"idle", "read", "write", "verify", "done"}]
      /\ cmd \in [Procs -> Commands]
      /\ buf \in [Procs -> Bytes]
      /\ said \in [Procs -> Messages]
  BY <1>1, <1>2 DEF Init, Messages
<1>5. target \in Slots /\ index \in 0 .. 16
  BY DEF Init, Slots
<1> QED BY <1>2, <1>3, <1>4, <1>5 DEF Init, TypeOK

LEMMA FirmwareType ==
  ASSUME TypeOK,
         (\E s \in Slots : FwRead(s)) \/ FwWriteByte \/ FwVerify \/ PowerCut
           \/ BootOs
  PROVE  TypeOK'
<1>1. ASSUME NEW s \in Slots, FwRead(s) PROVE TypeOK'
  <2>1. intent' \in Bytes
    BY <1>1, ArmTrialBootIs DEF FwRead, TypeOK
  <2> QED BY <1>1, <2>1 DEF FwRead, TypeOK
<1>2. CASE FwWriteByte
  <2>1. index \in 0 .. 15 /\ intent[index] \in Byte
    BY <1>2 DEF FwWriteByte, TypeOK, Bytes
  <2>2. cmos' \in Bytes
    BY <1>2, <2>1 DEF FwWriteByte, TypeOK, Bytes
  <2> QED BY <1>2, <2>1, <2>2 DEF FwWriteByte, TypeOK
<1>3. CASE FwVerify
  BY <1>3 DEF FwVerify, TypeOK
<1>4. CASE PowerCut
  BY <1>4 DEF PowerCut, TypeOK
<1>5. CASE BootOs
  BY <1>5 DEF BootOs, TypeOK
<1> QED BY <1>1, <1>2, <1>3, <1>4, <1>5

LEMMA StartType ==
  ASSUME TypeOK, NEW p \in Procs, NEW c \in Commands, Start(p, c)
  PROVE  TypeOK'
BY DEF Start, fwVars, TypeOK

LEMMA StopType ==
  ASSUME TypeOK, NEW p \in Procs, NEW m \in Messages, Stop(p, m)
  PROVE  /\ pc' \in [Procs -> {"idle", "read", "write", "verify", "done"}]
         /\ said' \in [Procs -> Messages]
BY DEF Stop, TypeOK

LEMMA ReadBlockType ==
  ASSUME TypeOK, NEW p \in Procs, ReadBlock(p)
  PROVE  TypeOK'
<1>1. marked' \in BOOLEAN /\ UNCHANGED <<cmos, sum, fwVars, cmd, promise>>
  BY DEF ReadBlock, TypeOK
<1>2. \A m \in {"io_error", "refused", "already"} : m \in Messages
  BY DEF Messages
<1>3. CASE UNCHANGED buf /\ \E m \in Messages : Stop(p, m)
  BY <1>1, <1>3, StopType DEF TypeOK, fwVars
<1>4. CASE /\ BlockOk(cmos)
           /\ buf' = [buf EXCEPT ![p] = Edited(cmd[p], cmos)]
           /\ pc' = [pc EXCEPT ![p] = "write"]
           /\ UNCHANGED said
  <2>1. Edited(cmd[p], cmos) \in Bytes
    BY <1>4, EditedIs DEF ReadBlock, TypeOK
  <2> QED BY <1>1, <1>4, <2>1 DEF TypeOK, fwVars
<1> QED BY <1>2, <1>3, <1>4 DEF ReadBlock

LEMMA WriteBlockType ==
  ASSUME TypeOK, NEW p \in Procs, WriteBlock(p)
  PROVE  TypeOK'
<1>1. NoPromise \in [slot : Slots, tries : 0 .. MaxTries]
  BY MaxTriesAssumption DEF NoPromise, Slots
<1> QED BY <1>1 DEF WriteBlock, fwVars, TypeOK

LEMMA ReadBackType ==
  ASSUME TypeOK, NEW p \in Procs, ReadBack(p)
  PROVE  TypeOK'
<1>1. \E m \in Messages : Stop(p, m)
  BY DEF ReadBack, Messages
<1>2. promise' \in [slot : Slots, tries : 0 .. MaxTries]
  <2>1. cmd[p] \in Commands
    BY DEF TypeOK
  <2>2. [slot |-> cmd[p].slot, tries |-> cmd[p].tries]
          \in [slot : Slots, tries : 0 .. MaxTries]
    BY <2>1, CommandIs, MaxTriesAssumption
  <2> QED BY <2>2 DEF ReadBack, TypeOK
<1>3. marked' \in BOOLEAN /\ UNCHANGED <<cmos, sum, fwVars, cmd, buf>>
  BY DEF ReadBack, TypeOK
<1> QED BY <1>1, <1>2, <1>3, StopType DEF TypeOK, fwVars

LEMMA FixChecksumType ==
  ASSUME TypeOK, NEW p \in Procs, FixChecksum(p)
  PROVE  TypeOK'
<1>1. \E m \in Messages : Stop(p, m)
  BY DEF FixChecksum, Messages
<1> QED BY <1>1, StopType DEF FixChecksum, fwVars, TypeOK

LEMMA NextType == TypeOK /\ [Next]_vars => TypeOK'
<1> SUFFICES ASSUME TypeOK, [Next]_vars PROVE TypeOK'
  OBVIOUS
<1>1. CASE (\E s \in Slots : FwRead(s)) \/ FwWriteByte \/ FwVerify \/ PowerCut
             \/ BootOs
  BY <1>1, FirmwareType
<1>2. CASE Tool
  BY <1>2, StartType, ReadBlockType, WriteBlockType, ReadBackType,
     FixChecksumType DEF Tool
<1>3. CASE UNCHANGED vars
  BY <1>3 DEF vars, TypeOK
<1> QED BY <1>1, <1>2, <1>3 DEF Next

\* The block stays sixteen bytes and every process keeps to its messages,
\* whatever blocks the boot finds and however the commands overlap.
THEOREM TypeCorrect == Spec => []TypeOK
BY InitType, NextType, PTL DEF Spec

-----------------------------------------------------------------------------
(* A write cut short                                                         *)

\* The first n bytes of one block and the rest of another.
Mixture(new, old, n) == [k \in 0 .. 15 |-> IF k < n THEN new[k] ELSE old[k]]

TornInv ==
  /\ phase # "os" => \A p \in Procs : pc[p] = "idle"
  /\ phase = "payload" => cmos = first /\ index = 0
  /\ phase \in {"arming", "reset"} =>
       /\ BlockOk(first)
       /\ intent = ArmTrialBootBytes(first, target)
       /\ cmos = Mixture(intent, first, index)

LEMMA InitTorn == Init => TornInv
BY DEF Init, TornInv

LEMMA FwReadTorn ==
  ASSUME TypeOK, TornInv, NEW s \in Slots, FwRead(s)
  PROVE  TornInv'
<1>1. /\ cmos' = first' /\ index' = 0 /\ phase' = "arming"
      /\ target' = s /\ pc' = pc
  BY DEF FwRead, TornInv
<1>2. BlockOk(first') /\ intent' = ArmTrialBootBytes(first', target')
  BY DEF FwRead, TornInv
<1>3. first' \in Bytes
  BY DEF FwRead, TypeOK
<1>4. first' = Mixture(intent', first', 0)
  BY <1>3 DEF Mixture, Bytes
<1> QED BY <1>1, <1>2, <1>4 DEF TornInv, FwRead

LEMMA FwWriteByteTorn ==
  ASSUME TypeOK, TornInv, FwWriteByte
  PROVE  TornInv'
<1>1. /\ index \in 0 .. 15 /\ index' = index + 1 /\ phase' = "arming"
      /\ cmos = Mixture(intent, first, index)
      /\ cmos' = [cmos EXCEPT ![index] = intent[index]]
      /\ UNCHANGED <<intent, first, target, pc>>
  BY DEF FwWriteByte, TornInv, TypeOK
<1>2. \A k \in 0 .. 15 :
        cmos'[k] = IF k < index + 1 THEN intent[k] ELSE first[k]
  BY <1>1 DEF Mixture
<1>3. cmos' = [k \in 0 .. 15 |-> cmos'[k]]
  BY <1>1 DEF TypeOK, Bytes
<1>4. cmos' = Mixture(intent, first, index + 1)
  BY <1>2, <1>3 DEF Mixture
<1> QED BY <1>1, <1>4 DEF TornInv, FwWriteByte

LEMMA NextTorn == TypeOK /\ TornInv /\ [Next]_vars => TornInv'
<1> SUFFICES ASSUME TypeOK, TornInv, [Next]_vars PROVE TornInv'
  OBVIOUS
<1>1. ASSUME NEW s \in Slots, FwRead(s) PROVE TornInv'
  BY <1>1, FwReadTorn
<1>2. CASE FwWriteByte
  BY <1>2, FwWriteByteTorn
<1>3. CASE FwVerify
  BY <1>3 DEF FwVerify, TornInv
<1>4. CASE PowerCut
  BY <1>4 DEF PowerCut, TornInv
<1>5. CASE BootOs
  BY <1>5 DEF BootOs, TornInv
<1>6. CASE Tool
  <2>1. phase = "os" /\ UNCHANGED fwVars
    BY <1>6 DEF Tool, Start, ReadBlock, WriteBlock, ReadBack, FixChecksum,
                TornInv
  <2> QED BY <2>1 DEF TornInv, fwVars
<1>7. CASE UNCHANGED vars
  BY <1>7 DEF vars, TornInv
<1> QED BY <1>1, <1>2, <1>3, <1>4, <1>5, <1>6, <1>7 DEF Next

\* Two blocks agree on every byte.
LEMMA SameBytes ==
  ASSUME NEW a \in Bytes, NEW b \in Bytes, \A k \in 0 .. 14 : a[k] = b[k],
         a[15] = b[15]
  PROVE  a = b
<1>1. \A k \in 0 .. 15 : a[k] = b[k]
  OBVIOUS
<1> QED BY <1>1 DEF Bytes

\* A mixture of a block and the block armed over it, if it verifies at all,
\* is one of the two.
LEMMA MixtureIsCaught ==
  ASSUME NEW old \in Bytes, NEW new \in Bytes, NEW n \in 0 .. 16,
         BlockOk(old), BlockOk(new),
         \A k \in 0 .. 14 : k \notin {1, 7} => new[k] = old[k],
         BlockOk(Mixture(new, old, n))
  PROVE  Mixture(new, old, n) \in {old, new}
<1> DEFINE mix == Mixture(new, old, n)
<1>1. mix \in Bytes
  BY DEF Mixture, Bytes
<1>2. \A k \in 0 .. 15 : mix[k] = IF k < n THEN new[k] ELSE old[k]
  BY DEF Mixture
<1>3. mix[15] = Crc8(mix) /\ old[15] = Crc8(old) /\ new[15] = Crc8(new)
  BY DEF BlockOk, OffsCrc
<1> HIDE DEF mix
<1>4. CASE n <= 7
  <2>1. \A k \in 0 .. 14 : k # 1 => mix[k] = old[k]
    BY <1>2, <1>4
  <2>2. mix[15] = old[15]
    BY <1>2, <1>4
  <2>3. mix[1] = old[1]
    <3>1. Crc8(mix) = Crc8(old) /\ 1 \in 0 .. 14
      BY <1>3, <2>2
    <3> QED BY <1>1, <2>1, <3>1, OneByteIsCaught
  <2>4. \A k \in 0 .. 14 : mix[k] = old[k]
    BY <2>1, <2>3
  <2> QED BY <1>1, <2>2, <2>4, SameBytes DEF mix
<1>5. CASE ~(n <= 7)
  <2>1. \A k \in 0 .. 14 : mix[k] = new[k]
    BY <1>2, <1>5
  <2>2. mix[15] = new[15]
    BY <1>3, <2>1, CrcCovers
  <2> QED BY <1>1, <2>1, <2>2, SameBytes DEF mix
<1> QED BY <1>4, <1>5

LEMMA TornIsCaught == TypeOK /\ TornInv => TornCaught
<1> SUFFICES ASSUME TypeOK, TornInv, phase \in {"arming", "reset"},
                    Decode(cmos).valid
             PROVE  Decode(cmos) \in {Decode(first),
                                      ArmTrialBoot(Decode(first), target)}
  BY DEF TornCaught
<1>1. /\ BlockOk(first) /\ intent = ArmTrialBootBytes(first, target)
      /\ cmos = Mixture(intent, first, index) /\ BlockOk(cmos)
  BY DecodeValid DEF TornInv
<1>2. /\ first \in Bytes /\ intent \in Bytes /\ index \in 0 .. 16
      /\ target \in Slots
  BY DEF TypeOK
<1>3. /\ \A k \in 0 .. 14 : k \notin {1, 7} => intent[k] = first[k]
      /\ BlockOk(intent)
      /\ Decode(intent) = ArmTrialBoot(Decode(first), target)
  BY <1>1, <1>2, ArmTrialBootIs
<1>4. cmos \in {first, intent}
  BY <1>1, <1>2, <1>3, MixtureIsCaught
<1> QED BY <1>3, <1>4

\* However far ArmTrialBoot() has come when power fails, whatever block it
\* armed over, the block that is left is the old one, the armed one, or one
\* that no reader takes for valid: the CRC catches every torn write.
THEOREM TornAlwaysCaught == Spec => []TornCaught
<1>1. Spec => [](TypeOK /\ TornInv)
  BY InitType, NextType, InitTorn, NextTorn, PTL DEF Spec
<1> QED BY <1>1, TornIsCaught, PTL

-----------------------------------------------------------------------------
(* Commands one after the other                                              *)

\* What is true of the block between the steps of a command that no other
\* command runs beside.
CommandInv(p) ==
  /\ pc[p] = "write" =>
       /\ cmd[p].op # "fix-checksum"
       /\ BlockOk(cmos)
       /\ buf[p] = Edited(cmd[p], cmos)
  /\ pc[p] = "verify" =>
       LET b == Decode(cmos)
       IN  cmd[p].op = "arm-update" =>
             b.valid /\ b.tryNext = cmd[p].slot /\ b.tryCount = cmd[p].tries

Alone == \A p, q \in Procs : Running(p) /\ Running(q) => p = q

SeqInv ==
  /\ phase # "os" => ~marked /\ promise.tries = 0
  /\ Alone
  /\ \A p \in Procs : CommandInv(p)
  /\ ReportKept
  /\ PromiseKept

LEMMA InitSeq == Init => SeqInv
BY DEF Init, SeqInv, Alone, Running, CommandInv, ReportKept, PromiseKept,
       NoPromise

\* Before the OS no command has started, so that nothing is promised.
LEMMA FirmwareSeq ==
  ASSUME TypeOK, TornInv, SeqInv,
         (\E s \in Slots : FwRead(s)) \/ FwWriteByte \/ FwVerify \/ PowerCut
           \/ BootOs
  PROVE  SeqInv'
<1>1. /\ phase # "os"
      /\ UNCHANGED <<pc, cmd, buf, marked, promise>>
  BY DEF FwRead, FwWriteByte, FwVerify, PowerCut, BootOs
<1>2. ~marked' /\ promise'.tries = 0 /\ \A p \in Procs : pc'[p] = "idle"
  BY <1>1 DEF SeqInv, TornInv
<1>3. ~(promise'.tries > 0)
  BY <1>2
<1> QED BY <1>2, <1>3 DEF SeqInv, Alone, Running, CommandInv, ReportKept,
                          PromiseKept

LEMMA StartSeq ==
  ASSUME TypeOK, SeqInv, ~Overlap, NEW p \in Procs, NEW c \in Commands,
         Start(p, c)
  PROVE  SeqInv'
<1>1. /\ \A q \in Procs : ~Running(q)
      /\ pc' = [pc EXCEPT ![p] = "read"]
      /\ UNCHANGED <<cmos, phase, marked, promise>>
  BY DEF Start, fwVars
<1>2. \A q \in Procs : pc'[q] # "write" /\ pc'[q] # "verify"
                       /\ (pc'[q] = "read" => q = p)
  BY <1>1 DEF TypeOK, Running
<1>3. Alone'
  BY <1>2 DEF Alone, Running
<1>4. ReportKept' /\ PromiseKept'
  BY <1>1 DEF SeqInv, ReportKept, PromiseKept
<1> QED BY <1>1, <1>2, <1>3, <1>4 DEF SeqInv, CommandInv

\* The commands that are not running have nothing to say of the block.
LEMMA OthersIdle ==
  ASSUME TypeOK, SeqInv, NEW p \in Procs, Running(p), NEW x,
         pc' = [pc EXCEPT ![p] = x]
  PROVE  /\ Alone'
         /\ \A q \in Procs : q # p => CommandInv(q)'
         /\ pc'[p] = x
<1>1. \A q \in Procs : q # p => ~Running(q) /\ pc'[q] = pc[q]
  BY DEF SeqInv, Alone, TypeOK
<1>2. Alone'
  BY <1>1 DEF Alone, Running
<1>3. pc'[p] = x
  BY DEF TypeOK
<1> QED BY <1>1, <1>2, <1>3 DEF CommandInv, Running

LEMMA ReadBlockSeq ==
  ASSUME TypeOK, TornInv, SeqInv, NEW p \in Procs, ReadBlock(p)
  PROVE  SeqInv'
<1>1. /\ Running(p) /\ cmd[p].op # "fix-checksum"
      /\ UNCHANGED <<cmos, sum, fwVars, cmd, promise>>
  BY DEF ReadBlock, Running
<1>2. \E x \in {"write", "done"} : pc' = [pc EXCEPT ![p] = x]
  BY DEF ReadBlock, Stop
<1>3. Alone' /\ \A q \in Procs : q # p => CommandInv(q)'
  BY <1>1, <1>2, OthersIdle
<1>4. CommandInv(p)'
  <2>1. pc'[p] \in {"write", "done"}
    BY <1>2 DEF TypeOK
  <2>2. pc'[p] = "write" => BlockOk(cmos) /\ buf'[p] = Edited(cmd[p], cmos)
    BY DEF ReadBlock, Stop, TypeOK
  <2> QED BY <1>1, <2>1, <2>2 DEF CommandInv
<1>5. marked' => marked \/ Decode(cmos).result = "success"
  <2>1. said'[p] = "already" /\ pc'[p] = "done" /\ cmd[p].op = "boot-ok"
          => NothingToDo(cmd[p], cmos)
    BY DEF ReadBlock, Stop, TypeOK
  <2> QED BY <2>1 DEF ReadBlock, NothingToDo
<1>6. ReportKept' /\ PromiseKept'
  BY <1>1, <1>5 DEF SeqInv, ReportKept, PromiseKept
<1>7. phase' = "os"
  BY <1>1 DEF ReadBlock, TornInv, fwVars
<1> QED BY <1>1, <1>3, <1>4, <1>6, <1>7 DEF SeqInv

LEMMA WriteBlockSeq ==
  ASSUME TypeOK, SeqInv, NEW p \in Procs, WriteBlock(p)
  PROVE  SeqInv'
<1> DEFINE c == cmd[p]
<1>1. /\ c.op # "fix-checksum" /\ BlockOk(cmos) /\ cmos' = Edited(c, cmos)
      /\ UNCHANGED <<sum, fwVars, cmd, buf, said, marked>>
  BY DEF WriteBlock, SeqInv, CommandInv
<1>2. Alone' /\ (\A q \in Procs : q # p => CommandInv(q)') /\ pc'[p] = "verify"
  BY OthersIdle DEF WriteBlock, Running
<1>3. c \in Commands /\ cmos \in Bytes
  BY DEF TypeOK
<1>4. \/ c.op = "boot-ok" /\ Decode(cmos') = MarkSuccess(Decode(cmos))
      \/ c.op = "arm-update"
           /\ Decode(cmos') = ArmUpdate(Decode(cmos), c.slot, c.tries)
      \/ c.op = "try-next" /\ Decode(cmos') = SelectNext(Decode(cmos), c.slot)
  BY <1>1, <1>3, EditedIs, CommandIs
<1>5. Decode(cmos).valid
  BY <1>1, DecodeValid
<1>6. CommandInv(p)'
  BY <1>1, <1>2, <1>4, <1>5, EditsKeep DEF CommandInv
<1>7. ReportKept'
  <2>1. Decode(cmos).result = "success" => Decode(cmos').result = "success"
    BY <1>4, EditsKeep
  <2> QED BY <1>1, <2>1 DEF SeqInv, ReportKept
<1>8. PromiseKept'
  <2>1. promise' = IF c.op = "boot-ok" THEN promise ELSE NoPromise
    BY DEF WriteBlock
  <2>2. CASE c.op = "boot-ok"
    BY <1>4, <2>1, <2>2, EditsKeep DEF SeqInv, PromiseKept
  <2>3. CASE c.op # "boot-ok"
    BY <2>1, <2>3 DEF PromiseKept, NoPromise
  <2> QED BY <2>2, <2>3
<1> QED BY <1>1, <1>2, <1>6, <1>7, <1>8 DEF SeqInv, fwVars, WriteBlock,
                                           NoPromise

LEMMA ReadBackSeq ==
  ASSUME TypeOK, TornInv, SeqInv, NEW p \in Procs, ReadBack(p)
  PROVE  SeqInv'
<1>1. /\ pc[p] = "verify" /\ UNCHANGED <<cmos, sum, fwVars, cmd, buf>>
      /\ pc' = [pc EXCEPT ![p] = "done"]
  BY DEF ReadBack, Stop
<1>2. Alone' /\ (\A q \in Procs : q # p => CommandInv(q)') /\ pc'[p] = "done"
  BY <1>1, OthersIdle DEF Running
<1>3. CommandInv(p)'
  BY <1>2 DEF CommandInv
<1>4. ReportKept'
  <2>1. marked' => marked \/ Decode(cmos).result = "success"
    BY DEF ReadBack, Took
  <2> QED BY <1>1, <2>1 DEF SeqInv, ReportKept
<1>5. PromiseKept'
  <2>1. CASE promise' = promise
    BY <1>1, <2>1 DEF SeqInv, PromiseKept
  <2>2. CASE /\ cmd[p].op = "arm-update"
             /\ promise' = [slot |-> cmd[p].slot, tries |-> cmd[p].tries]
    BY <1>1, <2>2 DEF SeqInv, CommandInv, PromiseKept
  <2> QED BY <2>1, <2>2 DEF ReadBack
<1>6. phase = "os"
  BY <1>1 DEF TornInv
<1> QED BY <1>1, <1>2, <1>3, <1>4, <1>5, <1>6 DEF SeqInv, fwVars

LEMMA FixChecksumSeq ==
  ASSUME TypeOK, SeqInv, NEW p \in Procs, FixChecksum(p)
  PROVE  SeqInv'
<1>1. /\ pc[p] = "read" /\ pc' = [pc EXCEPT ![p] = "done"]
      /\ UNCHANGED <<cmos, fwVars, cmd, buf, marked, promise>>
  BY DEF FixChecksum, Stop
<1>2. Alone' /\ (\A q \in Procs : q # p => CommandInv(q)') /\ pc'[p] = "done"
  BY <1>1, OthersIdle DEF Running
<1> QED BY <1>1, <1>2 DEF SeqInv, CommandInv, ReportKept, PromiseKept, fwVars

LEMMA NextSeq ==
  ASSUME ~Overlap
  PROVE  TypeOK /\ TornInv /\ SeqInv /\ [Next]_vars => SeqInv'
<1> SUFFICES ASSUME TypeOK, TornInv, SeqInv, [Next]_vars PROVE SeqInv'
  OBVIOUS
<1>1. CASE (\E s \in Slots : FwRead(s)) \/ FwWriteByte \/ FwVerify \/ PowerCut
             \/ BootOs
  BY <1>1, FirmwareSeq
<1>2. CASE Tool
  BY <1>2, StartSeq, ReadBlockSeq, WriteBlockSeq, ReadBackSeq, FixChecksumSeq
     DEF Tool
<1>3. CASE UNCHANGED vars
  BY <1>3 DEF vars, SeqInv, Alone, Running, CommandInv, ReportKept, PromiseKept
<1> QED BY <1>1, <1>2, <1>3 DEF Next

LEMMA SeqEdits == TypeOK /\ SeqInv => EditsAsFields
<1> SUFFICES ASSUME TypeOK, SeqInv, NEW p \in Procs, pc[p] = "write"
             PROVE  LET b == Decode(cmos)
                        c == cmd[p]
                    IN  Decode(buf[p]) =
                          CASE c.op = "boot-ok"    -> MarkSuccess(b)
                            [] c.op = "arm-update" -> ArmUpdate(b, c.slot, c.tries)
                            [] c.op = "try-next"   -> SelectNext(b, c.slot)
  BY DEF EditsAsFields
<1>1. /\ cmd[p].op # "fix-checksum" /\ BlockOk(cmos)
      /\ buf[p] = Edited(cmd[p], cmos)
      /\ cmd[p] \in Commands /\ cmos \in Bytes
  BY DEF SeqInv, CommandInv, TypeOK
<1>2. cmd[p].op \in {"boot-ok", "arm-update", "try-next"}
  BY <1>1, CommandIs
<1> QED BY <1>1, <1>2, EditedIs

\* With one command at a time, for any blocks the boot may find and any number
\* of commands, an edit of the bytes is the edit of the fields Vbnv states
\* and changes no other field.
THEOREM EditsAlwaysFields == ~Overlap /\ Spec => []EditsAsFields
<1> SUFFICES ASSUME ~Overlap PROVE Spec => []EditsAsFields
  OBVIOUS
<1>1. Spec => [](TypeOK /\ TornInv /\ SeqInv)
  BY InitType, NextType, InitTorn, NextTorn, InitSeq, NextSeq, PTL DEF Spec
<1> QED BY <1>1, SeqEdits, PTL

\* With one command at a time the report of boot-ok stays in the block until
\* the next boot: no arm-update or try-next takes it back.
THEOREM ReportAlwaysKept == ~Overlap /\ Spec => []ReportKept
<1> SUFFICES ASSUME ~Overlap PROVE Spec => []ReportKept
  OBVIOUS
<1>1. Spec => [](TypeOK /\ TornInv /\ SeqInv)
  BY InitType, NextType, InitTorn, NextTorn, InitSeq, NextSeq, PTL DEF Spec
<1>2. SeqInv => ReportKept
  BY DEF SeqInv
<1> QED BY <1>1, <1>2, PTL

\* With one command at a time, what arm-update said of the next boot is true
\* of the block until another arm-update or try-next writes it; the run
\* "overlap" shows that two commands at once break this.
THEOREM PromiseAlwaysKept == ~Overlap /\ Spec => []PromiseKept
<1> SUFFICES ASSUME ~Overlap PROVE Spec => []PromiseKept
  OBVIOUS
<1>1. Spec => [](TypeOK /\ TornInv /\ SeqInv)
  BY InitType, NextType, InitTorn, NextTorn, InitSeq, NextSeq, PTL DEF Spec
<1>2. SeqInv => PromiseKept
  BY DEF SeqInv
<1> QED BY <1>1, <1>2, PTL
=============================================================================
