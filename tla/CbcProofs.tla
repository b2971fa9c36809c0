------------------------------ MODULE CbcProofs ------------------------------
(***************************************************************************)
(* What decrypt_model gets back of a package damaged in one block, for     *)
(* every block size, model, initialisation vector and block cipher.        *)
(***************************************************************************)
EXTENDS CbcPackage, SequenceTheorems, TLAPS

-----------------------------------------------------------------------------
(* Arithmetic of block sizes.                                              *)

LEMMA DivMod ==
    ASSUME NEW b \in Nat \ {0}, NEW a \in Nat
    PROVE  a = b * (a \div b) + (a % b) /\ a % b \in 0..(b - 1) /\ a \div b \in Nat
  OBVIOUS

LEMMA ModUnique ==
    ASSUME NEW b \in Nat \ {0}, NEW k \in Int, NEW r \in 0..(b - 1),
           NEW a \in Nat, a = b * k + r
    PROVE  a % b = r
  OBVIOUS

LEMMA PadLengthFills ==
    ASSUME NEW n \in Nat
    PROVE  PadLength(n) \in 1..BlockSize /\ (n + PadLength(n)) % BlockSize = 0
<1>1. BlockSize \in Nat \ {0}
  BY PackageConstants
<1>2. n = BlockSize * (n \div BlockSize) + (n % BlockSize) /\ n % BlockSize \in 0..(BlockSize - 1)
      /\ n \div BlockSize \in Nat
  BY <1>1, DivMod
<1>3. PadLength(n) \in 1..BlockSize
  BY <1>1, <1>2 DEF PadLength
<1>4. n + PadLength(n) = BlockSize * ((n \div BlockSize) + 1) + 0
  BY <1>1, <1>2 DEF PadLength
<1> QED BY <1>1, <1>2, <1>3, <1>4, ModUnique

-----------------------------------------------------------------------------
(* Blocks.                                                                 *)

\* Byte i of block n of l bytes is one of the l bytes.
LEMMA ByteOfBlock ==
    ASSUME NEW b \in Nat \ {0}, NEW l \in Nat, NEW n \in 1..(l \div b), NEW i \in 1..b
    PROVE  (n - 1) * b + i \in 1..l
<1>1. /\ l = b * (l \div b) + (l % b) /\ l % b \in 0..(b - 1) /\ l \div b \in Nat
  BY DivMod
<1>2. PICK q \in Nat, r \in Nat : q = l \div b /\ l = b * q + r /\ n <= q
  BY <1>1
<1>3. n - 1 \in Nat /\ (n - 1) * b \in Nat /\ q - n \in Nat /\ b * (q - n) \in Nat
  BY <1>2
<1>4. l = (n - 1) * b + b + b * (q - n) + r
  BY <1>2, <1>3
<1> QED BY <1>2, <1>3, <1>4

\* A padded model is a whole number of blocks of bytes.
LEMMA PlainBlockIsBlock ==
    ASSUME plainModel \in Seq(Byte), NEW n \in 1..BlockCount
    PROVE  PlainBlock(n) \in Block
<1> DEFINE pad == PadLength(Len(plainModel))
           pads == [i \in 1..pad |-> pad]
<1>1. BlockSize \in Nat \ {0} /\ pad \in 1..BlockSize /\ pad \in Byte
  <2>1. Len(plainModel) \in Nat
    OBVIOUS
  <2>2. pad \in 1..BlockSize
    BY <2>1, PadLengthFills
  <2> QED BY <2>2, PackageConstants DEF Byte
<1>2. pads \in Seq(Byte) /\ Len(pads) = pad
  BY <1>1
<1>3. Pkcs7Pad(plainModel) = plainModel \o pads
  BY DEF Pkcs7Pad
<1> HIDE DEF pad, pads
<1>4. Pkcs7Pad(plainModel) \in Seq(Byte)
  BY <1>2, <1>3, ConcatProperties
<1>5. Len(Pkcs7Pad(plainModel)) \in Nat /\ n \in 1..(Len(Pkcs7Pad(plainModel)) \div BlockSize)
  BY <1>4 DEF BlockCount
<1>6. \A i \in 1..BlockSize : (n - 1) * BlockSize + i \in 1..Len(Pkcs7Pad(plainModel))
  BY <1>1, <1>5, ByteOfBlock
<1> QED BY <1>4, <1>6 DEF PlainBlock, Block

\* Chaining a block twice with the same one gives it back.
LEMMA XorBlockInverse ==
    ASSUME NEW a \in Block, NEW b \in Block
    PROVE  XorBlock(a, b) \in Block /\ XorBlock(XorBlock(a, b), b) = a
<1>1. \A x \in Byte, y \in Byte : XorByte[x][y] \in Byte /\ XorByte[XorByte[x][y]][y] = x
  BY CipherConstants
<1>2. \A i \in 1..BlockSize : a[i] \in Byte /\ b[i] \in Byte
  BY DEF Block
<1>3. /\ XorBlock(a, b) \in Block
      /\ \A i \in 1..BlockSize : XorBlock(a, b)[i] = XorByte[a[i]][b[i]]
  BY <1>1, <1>2 DEF XorBlock, Block
<1>4. /\ XorBlock(XorBlock(a, b), b) \in Block
      /\ \A i \in 1..BlockSize : XorBlock(XorBlock(a, b), b)[i] = a[i]
  BY <1>1, <1>2, <1>3 DEF XorBlock, Block
<1>5. ASSUME NEW c \in Block, \A i \in 1..BlockSize : c[i] = a[i] PROVE c = a
  <2>1. c = [i \in 1..BlockSize |-> c[i]] /\ a = [i \in 1..BlockSize |-> a[i]]
    BY DEF Block
  <2> QED BY <1>5, <2>1, Zenon
<1> QED BY <1>3, <1>4, <1>5

-----------------------------------------------------------------------------
\* The blocks of the ciphertext are chained, what is stored is the ciphertext
\* but for the damaged block, and what is decrypted so far is what is stored,
\* unchained.
CipherChained ==
    \A n \in 1..Len(cipher) : cipher[n] = Enc[cipherKey][XorBlock(PlainBlock(n), Previous(cipher, n))]

StoredMatches ==
    /\ phase = "encrypt" => stored = <<>> /\ damaged = 0 /\ Len(cipher) <= BlockCount
    /\ phase # "encrypt" =>
          /\ Len(cipher) = BlockCount /\ Len(stored) = BlockCount
          /\ \A n \in 1..BlockCount : n # damaged => stored[n] = cipher[n]

PlainUnchained ==
    /\ phase \in {"encrypt", "stored"} => plain = <<>>
    /\ Len(plain) <= Len(stored)
    /\ \A n \in 1..Len(plain) : plain[n] = XorBlock(Dec[dkey][stored[n]], Previous(stored, n))

IInv == TypeOK /\ CipherChained /\ StoredMatches /\ PlainUnchained

LEMMA BlockCountNat == ASSUME plainModel \in Seq(Byte) PROVE BlockCount \in Nat
<1>1. /\ Pkcs7Pad(plainModel) \in Seq(Byte) /\ BlockSize \in Nat \ {0}
  <2>1. Len(plainModel) \in Nat
    OBVIOUS
  <2>2. PadLength(Len(plainModel)) \in 1..BlockSize
    BY <2>1, PadLengthFills
  <2>3. [i \in 1..PadLength(Len(plainModel)) |-> PadLength(Len(plainModel))] \in Seq(Byte)
    BY <2>2, PackageConstants DEF Byte
  <2> QED BY <2>3, ConcatProperties, PackageConstants DEF Pkcs7Pad
<1>2. Len(Pkcs7Pad(plainModel)) \in Nat
  BY <1>1
<1> QED BY <1>1, <1>2, DivMod DEF BlockCount

\* A decrypted block whose block and predecessor were not damaged is the
\* model's: the block cipher and the chaining are undone.
LEMMA UndamagedBlock ==
    ASSUME IInv, dkey = cipherKey, NEW n \in 1..Len(plain), n # damaged, damaged = 0 \/ n # damaged + 1
    PROVE  plain[n] = PlainBlock(n)
<1>1. /\ plainModel \in Seq(Byte) /\ cipherKey \in Keys /\ iv \in Block
      /\ cipher \in Seq(Block) /\ stored \in Seq(Block) /\ plain \in Seq(Block)
      /\ damaged \in Nat
  BY CipherConstants DEF IInv, TypeOK
<1>2. BlockCount \in Nat
  BY <1>1, BlockCountNat
<1>3. /\ Len(cipher) = BlockCount /\ Len(stored) = BlockCount /\ n \in 1..BlockCount
      /\ \A k \in 1..BlockCount : k # damaged => stored[k] = cipher[k]
  BY <1>1, <1>2 DEF IInv, StoredMatches, PlainUnchained
<1>4. Previous(stored, n) = Previous(cipher, n) /\ Previous(cipher, n) \in Block
  BY <1>1, <1>2, <1>3 DEF Previous
<1> DEFINE prev == Previous(cipher, n)
           x == XorBlock(PlainBlock(n), prev)
<1>5. PlainBlock(n) \in Block
  BY <1>1, <1>3, PlainBlockIsBlock
<1>6. x \in Block /\ XorBlock(x, prev) = PlainBlock(n)
  BY <1>4, <1>5, XorBlockInverse
<1>7. stored[n] = Enc[cipherKey][x]
  BY <1>2, <1>3 DEF IInv, CipherChained
<1>8. plain[n] = XorBlock(Dec[cipherKey][stored[n]], prev)
  BY <1>4 DEF IInv, PlainUnchained
<1>9. Dec[cipherKey][Enc[cipherKey][x]] = x
  BY <1>1, <1>6, CipherConstants
<1> QED BY <1>6, <1>7, <1>8, <1>9

-----------------------------------------------------------------------------
\* The invariant holds when the encryptor starts.
LEMMA InitChained == CbcInit => IInv
<1>1. SUFFICES ASSUME CbcInit PROVE IInv
  OBVIOUS
<1>2. plainModel \in Seq(Byte)
  BY <1>1, CipherConstants DEF CbcInit
<1>3. BlockCount \in Nat
  BY <1>2, BlockCountNat
<1>4. TypeOK
  <2>1. <<>> \in Seq(Block) /\ 0 \in 0..Len(<<>>)
    OBVIOUS
  <2> QED BY <1>1, <2>1, Zenon DEF CbcInit, TypeOK
<1> QED BY <1>1, <1>3, <1>4 DEF CbcInit, IInv, CipherChained, StoredMatches, PlainUnchained

\* The operators of the chain depend on the variables the steps leave alone.
LEMMA SameModel ==
    ASSUME UNCHANGED <<plainModel, iv>>
    PROVE  /\ BlockCount' = BlockCount
           /\ \A n : PlainBlock(n)' = PlainBlock(n)
           /\ \A b, n : Previous(b, n)' = Previous(b, n)
  BY DEF BlockCount, PlainBlock, Previous

LEMMA SameCipher ==
    ASSUME CipherChained, UNCHANGED <<cipher, cipherKey, plainModel, iv>>
    PROVE  CipherChained'
  BY DEF CipherChained, PlainBlock, Previous, XorBlock

LEMMA SamePlain ==
    ASSUME plain = <<>>, UNCHANGED plain, Len(stored') \in Nat
    PROVE  PlainUnchained'
  BY DEF PlainUnchained

\* Every step of the encryptor, the storage and decrypt_model keeps it.
LEMMA StepChained == IInv /\ [CbcNext]_cbcVars => IInv'
<1> SUFFICES ASSUME IInv, [CbcNext]_cbcVars PROVE IInv'
  OBVIOUS
<1>1. /\ plainModel \in Seq(Byte) /\ cipherKey \in Keys /\ dkey \in Keys /\ iv \in Block
      /\ cipher \in Seq(Block) /\ stored \in Seq(Block) /\ plain \in Seq(Block)
      /\ damaged \in 0..Len(stored) /\ TypeOK
  BY CipherConstants DEF IInv, TypeOK
<1>2. BlockCount \in Nat
  BY <1>1, BlockCountNat
<1>3. CASE EncryptBlock
  <2> DEFINE n == Len(cipher) + 1
  <2>1. UNCHANGED <<phase, plainModel, cipherKey, iv, stored, damaged, dkey, plain, accepted>>
    BY <1>3 DEF EncryptBlock
  <2>2. /\ BlockCount' = BlockCount
        /\ \A k : PlainBlock(k)' = PlainBlock(k)
        /\ \A b, k : Previous(b, k)' = Previous(b, k)
    BY <2>1, SameModel
  <2>3. phase = "encrypt" /\ n \in 1..BlockCount /\ cipher' = Append(cipher, Chained(n))
    BY <1>1, <1>2, <1>3 DEF EncryptBlock
  <2>4. Chained(n) \in Block
    <3>1. Previous(cipher, n) \in Block
      BY <1>1 DEF Previous
    <3>2. XorBlock(PlainBlock(n), Previous(cipher, n)) \in Block
      BY <1>1, <2>3, <3>1, PlainBlockIsBlock, XorBlockInverse
    <3> QED BY <1>1, <3>2, CipherConstants DEF Chained
  <2>5. /\ cipher' \in Seq(Block) /\ Len(cipher') = n
        /\ cipher'[n] = Chained(n) /\ \A k \in 1..Len(cipher) : cipher'[k] = cipher[k]
    BY <1>1, <2>3, <2>4
  <2>6. TypeOK'
    BY <1>1, <2>1, <2>5 DEF TypeOK
  <2>7. CipherChained'
    <3>1. ASSUME NEW k \in 1..n PROVE Previous(cipher', k) = Previous(cipher, k)
      <4>1. k = 1 \/ k - 1 \in 1..Len(cipher)
        BY <1>1
      <4> QED BY <2>5, <4>1 DEF Previous
    <3>2. \A k \in 1..Len(cipher) : cipher[k] = Enc[cipherKey][XorBlock(PlainBlock(k), Previous(cipher, k))]
      BY DEF IInv, CipherChained
    <3>3. SUFFICES ASSUME NEW k \in 1..n
                   PROVE  cipher'[k] = Enc[cipherKey][XorBlock(PlainBlock(k), Previous(cipher', k))]
      <4>1. \A k \in 1..n : Previous(cipher, k)' = Previous(cipher', k)
        BY <2>1 DEF Previous
      <4> QED BY <2>1, <2>2, <2>5, <3>3, <4>1 DEF CipherChained, XorBlock
    <3>4. CASE k = n
      BY <2>5, <3>1, <3>4 DEF Chained
    <3>5. CASE k \in 1..Len(cipher)
      BY <2>5, <3>1, <3>2, <3>5
    <3> QED BY <1>1, <3>4, <3>5
  <2>8. StoredMatches' /\ PlainUnchained'
    BY <1>1, <2>1, <2>2, <2>3, <2>5 DEF IInv, StoredMatches, PlainUnchained, Previous, XorBlock
  <2> QED BY <2>6, <2>7, <2>8 DEF IInv
<1>4. CASE Store
  <2>1. /\ UNCHANGED <<plainModel, cipherKey, iv, cipher, damaged, dkey, plain, accepted>>
        /\ phase = "encrypt" /\ phase' = "stored" /\ stored' = cipher /\ Len(cipher) = BlockCount
    BY <1>4 DEF Store
  <2>2. BlockCount' = BlockCount
    BY <2>1, SameModel
  <2>3. stored = <<>> /\ plain = <<>> /\ damaged = 0
    BY <2>1 DEF IInv, StoredMatches, PlainUnchained
  <2>4. TypeOK'
    BY <1>1, <2>1, <2>3 DEF TypeOK
  <2>5. CipherChained'
    BY <2>1, SameCipher DEF IInv
  <2>6. StoredMatches'
    BY <2>1, <2>2 DEF StoredMatches
  <2>7. PlainUnchained'
    BY <1>1, <2>1, <2>3, SamePlain
  <2> QED BY <2>4, <2>5, <2>6, <2>7 DEF IInv
<1>5. ASSUME NEW n \in 1..Len(stored), NEW b \in Block, Damage(n, b) PROVE IInv'
  <2>1. /\ UNCHANGED <<phase, plainModel, cipherKey, iv, cipher, dkey, plain, accepted>>
        /\ phase = "stored" /\ damaged = 0 /\ damaged' = n
        /\ stored' = [stored EXCEPT ![n] = b]
    BY <1>5 DEF Damage
  <2>2. BlockCount' = BlockCount
    BY <2>1, SameModel
  <2>3. /\ stored' \in Seq(Block) /\ Len(stored') = Len(stored)
        /\ \A k \in 1..Len(stored) : k # n => stored'[k] = stored[k]
    BY <1>1, <2>1
  <2>4. TypeOK'
    BY <1>1, <2>1, <2>3 DEF TypeOK
  <2>5. CipherChained'
    BY <2>1, SameCipher DEF IInv
  <2>6. StoredMatches'
    BY <1>2, <2>1, <2>2, <2>3 DEF IInv, StoredMatches
  <2>7. PlainUnchained'
    BY <1>1, <2>1, <2>3, SamePlain DEF IInv, PlainUnchained
  <2> QED BY <2>4, <2>5, <2>6, <2>7 DEF IInv
<1>6. CASE StartDecrypt
  <2>1. /\ UNCHANGED <<plainModel, cipherKey, iv, cipher, stored, damaged, dkey, plain, accepted>>
        /\ phase = "stored" /\ phase' = "decrypt"
    BY <1>6 DEF StartDecrypt
  <2>2. BlockCount' = BlockCount
    BY <2>1, SameModel
  <2>3. TypeOK'
    BY <1>1, <2>1 DEF TypeOK
  <2>4. CipherChained'
    BY <2>1, SameCipher DEF IInv
  <2>5. StoredMatches'
    BY <2>1, <2>2 DEF IInv, StoredMatches
  <2>6. PlainUnchained'
    BY <1>1, <2>1, SamePlain DEF IInv, PlainUnchained
  <2> QED BY <2>3, <2>4, <2>5, <2>6 DEF IInv
<1>7. CASE DecryptBlock
  <2> DEFINE n == Len(plain) + 1
  <2>1. /\ UNCHANGED <<phase, plainModel, cipherKey, iv, cipher, stored, damaged, dkey, accepted>>
        /\ phase = "decrypt" /\ Len(plain) < Len(stored) /\ plain' = Append(plain, Unchained(n))
    BY <1>7 DEF DecryptBlock
  <2>2. n \in 1..Len(stored)
    BY <1>1, <2>1
  <2>3. Unchained(n) \in Block
    <3>1. Previous(stored, n) \in Block /\ Dec[dkey][stored[n]] \in Block
      BY <1>1, <2>2, CipherConstants DEF Previous
    <3> QED BY <3>1, XorBlockInverse DEF Unchained
  <2>4. /\ plain' \in Seq(Block) /\ Len(plain') = n
        /\ plain'[n] = Unchained(n) /\ \A k \in 1..Len(plain) : plain'[k] = plain[k]
    BY <1>1, <2>1, <2>3
  <2>5. BlockCount' = BlockCount
    BY <2>1, SameModel
  <2>6. TypeOK'
    BY <1>1, <2>1, <2>4 DEF TypeOK
  <2>7. CipherChained'
    BY <2>1, SameCipher DEF IInv
  <2>8. StoredMatches'
    BY <2>1, <2>5 DEF IInv, StoredMatches
  <2>9. PlainUnchained'
    <3>1. \A k \in 1..n : plain'[k] = XorBlock(Dec[dkey][stored[k]], Previous(stored, k))
      <4> TAKE k \in 1..n
      <4>1. CASE k = n
        BY <2>4, <4>1 DEF Unchained
      <4>2. CASE k \in 1..Len(plain)
        BY <2>4, <4>2 DEF IInv, PlainUnchained
      <4> QED BY <1>1, <4>1, <4>2
    <3>2. \A k : XorBlock(Dec[dkey][stored[k]], Previous(stored, k))'
                    = XorBlock(Dec[dkey][stored[k]], Previous(stored, k))
      BY <2>1 DEF Previous, XorBlock
    <3>3. \A k \in 1..Len(plain') : plain'[k] = XorBlock(Dec[dkey][stored[k]], Previous(stored, k))'
      BY <2>4, <3>1, <3>2
    <3>4. Len(plain') <= Len(stored') /\ phase' = "decrypt"
      BY <2>1, <2>2, <2>4
    <3> QED BY <3>3, <3>4 DEF PlainUnchained
  <2> QED BY <2>6, <2>7, <2>8, <2>9 DEF IInv
<1>8. CASE Check
  <2>1. /\ UNCHANGED <<plainModel, cipherKey, iv, cipher, stored, damaged, dkey, plain>>
        /\ phase = "decrypt" /\ phase' = "checked"
    BY <1>8 DEF Check
  <2>2. accepted' \in BOOLEAN
    BY <1>8, Zenon DEF Check, Checks, PaddingValid, ContentValid
  <2>3. BlockCount' = BlockCount
    BY <2>1, SameModel
  <2>4. TypeOK'
    BY <1>1, <2>1, <2>2 DEF TypeOK
  <2>5. CipherChained'
    BY <2>1, SameCipher DEF IInv
  <2>6. StoredMatches'
    BY <2>1, <2>3 DEF IInv, StoredMatches
  <2>7. PlainUnchained'
    BY <2>1 DEF IInv, PlainUnchained, Previous, XorBlock
  <2> QED BY <2>4, <2>5, <2>6, <2>7 DEF IInv
<1>9. CASE UNCHANGED cbcVars
  BY <1>9 DEF cbcVars, IInv, TypeOK, CipherChained, StoredMatches, PlainUnchained,
     BlockCount, PlainBlock, Previous, XorBlock
<1> QED BY <1>3, <1>4, <1>5, <1>6, <1>7, <1>8, <1>9 DEF CbcNext

\* Every variable of the encryptor's and decrypt_model's blocks keeps its type,
\* for every cipher that inverts itself.
THEOREM CbcTypes == CbcSpec => []TypeOK
<1>1. IInv => TypeOK
  BY DEF IInv
<1> QED BY <1>1, InitChained, StepChained, PTL DEF CbcSpec

\* Whatever one damaged block of a package holds, decrypt_model under the
\* encryptor's key gets every other block of the padded model but the next.
THEOREM DamageLocal == CbcSpec => []DamageIsLocal
<1>1. IInv => DamageIsLocal
  <2> SUFFICES ASSUME IInv, dkey = cipherKey, NEW n \in 1..Len(plain),
                      damaged = 0 \/ n \notin {damaged, damaged + 1}
               PROVE  plain[n] = PlainBlock(n)
    BY DEF DamageIsLocal
  <2>1. damaged \in Nat /\ n # 0 /\ plain \in Seq(Block)
    BY DEF IInv, TypeOK
  <2> QED BY <2>1, UndamagedBlock
<1> QED BY <1>1, InitChained, StepChained, PTL DEF CbcSpec

-----------------------------------------------------------------------------
(* The way there and back.                                                 *)

\* The padded model: the model, then as many bytes as each of them says.
LEMMA PaddedModel ==
    ASSUME NEW m \in Seq(Byte)
    PROVE  LET pad == PadLength(Len(m))  s == Pkcs7Pad(m)
           IN  /\ pad \in 1..BlockSize
               /\ s \in Seq(Byte) /\ Len(s) = Len(m) + pad /\ Len(s) % BlockSize = 0
               /\ \A i \in 1..Len(m) : s[i] = m[i]
               /\ \A i \in (Len(m) + 1)..Len(s) : s[i] = pad
<1> DEFINE pad == PadLength(Len(m))
           pads == [i \in 1..pad |-> pad]
<1>1. Len(m) \in Nat /\ pad \in 1..BlockSize /\ (Len(m) + pad) % BlockSize = 0
  BY PadLengthFills
<1>2. pads \in Seq(Byte) /\ Len(pads) = pad /\ \A i \in 1..pad : pads[i] = pad
  BY <1>1, PackageConstants DEF Byte
<1>3. Pkcs7Pad(m) = m \o pads
  BY DEF Pkcs7Pad
<1> HIDE DEF pads, pad
<1>4. /\ m \o pads \in Seq(Byte) /\ Len(m \o pads) = Len(m) + Len(pads)
      /\ \A i \in 1..(Len(m) + Len(pads)) : (m \o pads)[i] = IF i <= Len(m) THEN m[i] ELSE pads[i - Len(m)]
  BY <1>2, ConcatProperties
<1>5. /\ \A i \in 1..Len(m) : (m \o pads)[i] = m[i]
      /\ \A i \in (Len(m) + 1)..(Len(m) + pad) : (m \o pads)[i] = pad
  BY <1>1, <1>2, <1>4, PackageConstants
<1>6. /\ pad \in 1..BlockSize
      /\ m \o pads \in Seq(Byte) /\ Len(m \o pads) = Len(m) + pad
      /\ (Len(m) + pad) % BlockSize = 0
  BY <1>1, <1>2, <1>4
<1> QED BY <1>3, <1>5, <1>6 DEF pad

\* Byte j of l bytes in blocks of b is in one of the blocks.
LEMMA BlockOfByte ==
    ASSUME NEW b \in Nat \ {0}, NEW q \in Nat, NEW j \in 1..(b * q)
    PROVE  /\ ((j - 1) \div b) + 1 \in 1..q
           /\ ((j - 1) % b) + 1 \in 1..b
           /\ ((j - 1) \div b) * b + ((j - 1) % b) + 1 = j
<1>1. PICK d \in Nat, r \in 0..(b - 1) :
         j - 1 = b * d + r /\ d = (j - 1) \div b /\ r = (j - 1) % b
  <2>1. j - 1 \in Nat
    <3>1. b * q \in Nat
      OBVIOUS
    <3> QED BY <3>1
  <2> QED BY <2>1, DivMod
<1>2. d < q
  <2>1. CASE d >= q
    <3>1. PICK e \in Nat : d = q + e
      BY <2>1
    <3>2. b * d = b * q + b * e /\ b * e \in Nat /\ b * q \in Nat
      BY <3>1
    <3> QED BY <1>1, <3>2
  <2> QED BY <2>1
<1>3. d * b = b * d
  OBVIOUS
<1>4. /\ d + 1 \in 1..q /\ r + 1 \in 1..b
      /\ d * b + r + 1 = j
  BY <1>1, <1>2, <1>3
<1> QED BY <1>1, <1>4

\* All blocks undamaged and all decrypted: the bytes are the padded model.
LEMMA BytesBack ==
    ASSUME IInv, dkey = cipherKey, damaged = 0, phase # "encrypt", Len(plain) = Len(stored)
    PROVE  Bytes(plain) = Pkcs7Pad(plainModel)
<1> DEFINE s == Pkcs7Pad(plainModel)
           L == Len(s)
<1>1. plainModel \in Seq(Byte) /\ BlockSize \in Nat \ {0}
  BY CipherConstants, PackageConstants DEF IInv, TypeOK
<1>2. s \in Seq(Byte) /\ L % BlockSize = 0
  BY <1>1, PaddedModel
<1>3. BlockCount \in Nat /\ Len(plain) = BlockCount
  BY <1>1, BlockCountNat DEF IInv, StoredMatches
<1>4. L = BlockSize * BlockCount
  <2>1. L \in Nat
    BY <1>2
  <2>2. L = BlockSize * (L \div BlockSize) + (L % BlockSize) /\ L \div BlockSize \in Nat
    BY <1>1, <2>1, DivMod
  <2> QED BY <1>1, <1>2, <2>2 DEF BlockCount
<1>5. \A n \in 1..BlockCount : plain[n] = PlainBlock(n)
  BY <1>3, UndamagedBlock
<1>6. ASSUME NEW j \in 1..(BlockSize * BlockCount)
      PROVE  plain[((j - 1) \div BlockSize) + 1][((j - 1) % BlockSize) + 1] = s[j]
  <2> DEFINE n == ((j - 1) \div BlockSize) + 1
             i == ((j - 1) % BlockSize) + 1
  <2>1. n \in 1..BlockCount /\ i \in 1..BlockSize /\ (n - 1) * BlockSize + i = j
    <3>1. /\ n \in 1..BlockCount /\ i \in 1..BlockSize
          /\ ((j - 1) \div BlockSize) * BlockSize + ((j - 1) % BlockSize) + 1 = j
      BY <1>1, <1>3, BlockOfByte
    <3>2. (j - 1) \div BlockSize \in Int /\ (j - 1) % BlockSize \in Int
      BY <1>1
    <3>3. \A d, r \in Int : (d + 1 - 1) * BlockSize + (r + 1) = d * BlockSize + r + 1
      <4> TAKE d, r \in Int
      <4>1. d + 1 - 1 = d /\ d * BlockSize \in Int
        BY <1>1
      <4> QED BY <4>1
    <3>4. (n - 1) * BlockSize + i = ((j - 1) \div BlockSize) * BlockSize + ((j - 1) % BlockSize) + 1
      BY <3>2, <3>3
    <3> QED BY <3>1, <3>4
  <2> HIDE DEF n, i, s
  <2>2. plain[n] = [k \in 1..BlockSize |-> s[(n - 1) * BlockSize + k]]
    BY <1>5, <2>1 DEF PlainBlock, s
  <2>3. plain[n][i] = s[j]
    BY <2>1, <2>2
  <2> QED BY <2>3 DEF n, i
<1>7. Bytes(plain) = [j \in 1..L |-> s[j]]
  BY <1>3, <1>4, <1>6 DEF Bytes
<1> QED BY <1>2, <1>7

\* What the checks and the removal of the padding make of the padded model.
LEMMA ChecksBack ==
    ASSUME plainModel \in Seq(Byte)
    PROVE  LET s == Pkcs7Pad(plainModel)
           IN  /\ Checks(s, Len(s)) <=> (Len(plainModel) >= Len(MaixMagic) => HasMagic(plainModel))
               /\ SubSeq(s, 1, UnpaddedSize(s, Len(s))) = plainModel
<1> DEFINE s == Pkcs7Pad(plainModel)
           pad == PadLength(Len(plainModel))
<1>1. /\ pad \in 1..BlockSize /\ s \in Seq(Byte) /\ Len(s) = Len(plainModel) + pad
      /\ \A i \in 1..Len(plainModel) : s[i] = plainModel[i]
      /\ \A i \in (Len(plainModel) + 1)..Len(s) : s[i] = pad
  BY PaddedModel
<1>2. Len(plainModel) \in Nat /\ BlockSize \in Nat \ {0} /\ Len(MaixMagic) \in Nat
  BY PackageConstants
<1> HIDE DEF s, pad
<1>3. s[Len(s)] = pad /\ Len(s) \in Nat /\ Len(s) > 0
  BY <1>1, <1>2
<1>4. PaddingValid(s, Len(s)) /\ UnpaddedSize(s, Len(s)) = Len(plainModel)
  BY <1>1, <1>2, <1>3 DEF PaddingValid, UnpaddedSize
<1>5. Len(plainModel) >= Len(MaixMagic) => (HasMagic(s) <=> HasMagic(plainModel))
  BY <1>1, <1>2 DEF HasMagic
<1>6. Checks(s, Len(s)) <=> (Len(plainModel) >= Len(MaixMagic) => HasMagic(plainModel))
  BY <1>4, <1>5 DEF Checks, ContentValid
<1>7. SubSeq(s, 1, Len(plainModel)) = plainModel
  <2>1. /\ SubSeq(s, 1, Len(plainModel)) \in Seq(Byte) /\ Len(SubSeq(s, 1, Len(plainModel))) = Len(plainModel)
        /\ \A i \in 1..Len(plainModel) : SubSeq(s, 1, Len(plainModel))[i] = s[i]
    BY <1>1, <1>2, <1>3
  <2> QED BY <1>1, <2>1, SeqEqual
<1> QED BY <1>4, <1>6, <1>7 DEF s

\* The checks are made on all of the plaintext.
CheckedInv == phase = "checked" => /\ Len(plain) = Len(stored)
                                   /\ accepted <=> Checks(Bytes(plain), Len(Bytes(plain)))

LEMMA StepChecked == CheckedInv /\ [CbcNext]_cbcVars => CheckedInv'
<1> SUFFICES ASSUME CheckedInv, [CbcNext]_cbcVars PROVE CheckedInv'
  OBVIOUS
<1>1. CASE Check
  <2>1. UNCHANGED <<plain, stored>> /\ Len(plain) = Len(stored)
    BY <1>1 DEF Check
  <2>2. Bytes(plain)' = Bytes(plain)
    BY <2>1 DEF Bytes
  <2>3. Checks(Bytes(plain), Len(Bytes(plain)))' <=> Checks(Bytes(plain), Len(Bytes(plain)))
    BY <1>1, <2>2 DEF Checks, Check, ContentValid
  <2>4. accepted' <=> Checks(Bytes(plain), Len(Bytes(plain)))
    BY <1>1, Zenon DEF Check
  <2> QED BY <2>1, <2>3, <2>4, Zenon DEF CheckedInv
<1>2. CASE phase' # "checked"
  BY <1>2 DEF CheckedInv
<1>3. CASE UNCHANGED cbcVars
  BY <1>3 DEF CheckedInv, cbcVars, Bytes, Checks, ContentValid
<1>4. CbcNext => Check \/ phase' # "checked"
  BY DEF CbcNext, EncryptBlock, Store, StartDecrypt, DecryptBlock, Damage
<1> QED BY <1>1, <1>2, <1>3, <1>4

\* Encrypting, storing undamaged and decrypting under the same key gives the
\* model back, whatever its length, and the checks accept it exactly when they
\* would accept the model's own first bytes.
THEOREM ModelBack == CbcSpec => []RoundTrip
<1>1. CbcInit => CheckedInv
  BY DEF CbcInit, CheckedInv
<1>2. IInv /\ CheckedInv => RoundTrip
  <2> SUFFICES ASSUME IInv, CheckedInv, phase = "checked", dkey = cipherKey, damaged = 0
               PROVE  /\ Bytes(plain) = Pkcs7Pad(plainModel)
                      /\ accepted <=> (Len(plainModel) >= Len(MaixMagic) => HasMagic(plainModel))
                      /\ SubSeq(Bytes(plain), 1, UnpaddedSize(Bytes(plain), Len(Bytes(plain)))) = plainModel
    BY DEF RoundTrip
  <2>1. Bytes(plain) = Pkcs7Pad(plainModel)
    BY BytesBack DEF CheckedInv
  <2>2. plainModel \in Seq(Byte)
    BY CipherConstants DEF IInv, TypeOK
  <2>3. accepted <=> Checks(Pkcs7Pad(plainModel), Len(Pkcs7Pad(plainModel)))
    BY <2>1 DEF CheckedInv
  <2> QED BY <2>1, <2>2, <2>3, ChecksBack
<1> QED BY <1>1, <1>2, InitChained, StepChained, StepChecked, PTL DEF CbcSpec
=============================================================================
