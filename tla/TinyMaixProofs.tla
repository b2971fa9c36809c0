--------------------------- MODULE TinyMaixProofs ---------------------------
(***************************************************************************)
(* Proofs about the package format and TinyMaixSystem, for every number of *)
(* clients, connections, packages, block and buffer sizes: what the checks *)
(* of decrypt_model and tm_load accept; types, pools, key, buffer,         *)
(* messages and connections; and that the system implements                *)
(* InferenceContract.                                                      *)
(***************************************************************************)
EXTENDS TinyMaixSystem, SequenceTheorems, FiniteSetTheorems, TLAPS

-----------------------------------------------------------------------------
(* Arithmetic of block sizes.                                              *)

LEMMA DivMod ==
    ASSUME NEW b \in Nat \ {0}, NEW a \in Nat
    PROVE  a = b * (a \div b) + (a % b) /\ a % b \in 0..(b - 1) /\ a \div b \in Nat
  OBVIOUS

LEMMA ModUnique ==
    ASSUME NEW b \in Nat \ {0}, NEW k \in Int, NEW r \in 0..(b - 1),
           NEW a \in Nat, a = b * k + r
    PROVE  a % b = r
  OBVIOUS

LEMMA LessThanOneBlock ==
    ASSUME NEW b \in Nat \ {0}, NEW d \in Int, b * d \in 0..(b - 1)
    PROVE  d = 0
<1>1. CASE d >= 1
  BY <1>1
<1>2. CASE d <= -1
  BY <1>2
<1> QED BY <1>1, <1>2

\* Two whole numbers of blocks that differ by less than a block are equal.
LEMMA NoPartialBlock ==
    ASSUME NEW b \in Nat \ {0}, NEW x \in Nat, NEW y \in Nat,
           x % b = 0, y % b = 0, x - y \in 0..(b - 1)
    PROVE  x = y
<1>1. /\ x = b * (x \div b) /\ y = b * (y \div b)
      /\ x \div b \in Nat /\ y \div b \in Nat
  BY DivMod
<1>2. b * ((x \div b) - (y \div b)) \in 0..(b - 1)
  BY <1>1
<1>3. (x \div b) - (y \div b) = 0
  BY <1>1, <1>2, LessThanOneBlock
<1> QED BY <1>1, <1>3

\* The padding length is the only one in 1..BlockSize that fills the block.
LEMMA PadLengthUnique ==
    ASSUME NEW n \in Nat, NEW pad \in 1..BlockSize, (n + pad) % BlockSize = 0
    PROVE  PadLength(n) = pad
<1>1. BlockSize \in Nat \ {0}
  BY PackageConstants
<1>2. PICK q \in Nat : n + pad = BlockSize * q
  BY <1>1, DivMod
<1>3. CASE pad = BlockSize
  <2>1. n = BlockSize * (q - 1) + 0
    BY <1>1, <1>2, <1>3
  <2>2. n % BlockSize = 0
    BY <1>1, <1>2, <2>1, ModUnique
  <2> QED BY <1>1, <1>3, <2>2 DEF PadLength
<1>4. CASE pad # BlockSize
  <2>1. PICK k \in Int, r \in 0..(BlockSize - 1) : r = BlockSize - pad /\ k = q - 1
    BY <1>1, <1>2, <1>4
  <2>2. n = BlockSize * k + r
    BY <1>1, <1>2, <2>1
  <2>3. n % BlockSize = r
    BY <1>1, <2>2, ModUnique
  <2> QED BY <1>1, <2>1, <2>3 DEF PadLength
<1> QED BY <1>3, <1>4

LEMMA PadLengthFills ==
    ASSUME NEW n \in Nat
    PROVE  PadLength(n) \in 1..BlockSize /\ (n + PadLength(n)) % BlockSize = 0
<1>1. BlockSize \in Nat \ {0}
  BY PackageConstants
<1>2. n = BlockSize * (n \div BlockSize) + (n % BlockSize) /\ n % BlockSize \in 0..(BlockSize - 1)
      /\ n \div BlockSize \in Nat
  BY <1>1, DivMod
<1>3. PadLength(n) \in 1..BlockSize
  BY <1>1, <1>2 DEF PadLength
<1>4. n + PadLength(n) = BlockSize * ((n \div BlockSize) + 1) + 0
  BY <1>1, <1>2 DEF PadLength
<1> QED BY <1>1, <1>2, <1>3, <1>4, ModUnique

-----------------------------------------------------------------------------
\* Padding what is left when the padding is taken off gives the bytes back.
LEMMA PaddedBack ==
    ASSUME NEW s \in Seq(Byte), NEW n \in Nat, NEW pad \in 1..BlockSize,
           Len(s) = n + pad, Len(s) % BlockSize = 0,
           \A i \in (n + 1)..Len(s) : s[i] = pad,
           NEW m \in Seq(Byte), Len(m) = n, \A i \in 1..n : m[i] = s[i]
    PROVE  Pkcs7Pad(m) = s
<1> DEFINE pads == [i \in 1..pad |-> pad]
<1>1. BlockSize \in Nat \ {0} /\ pad \in Byte
  BY PackageConstants DEF Byte
<1>2. Pkcs7Pad(m) = m \o pads
  BY PadLengthUnique DEF Pkcs7Pad
<1>3. pads \in Seq(Byte) /\ Len(pads) = pad /\ \A i \in 1..pad : pads[i] = pad
  BY <1>1
<1> HIDE DEF pads
<1>4. /\ m \o pads \in Seq(Byte) /\ Len(m \o pads) = Len(s)
      /\ \A i \in 1..Len(s) : (m \o pads)[i] = IF i <= n THEN m[i] ELSE pads[i - n]
  BY <1>3, ConcatProperties
<1>5. \A i \in 1..Len(s) : (m \o pads)[i] = s[i]
  BY <1>1, <1>3, <1>4
<1> QED BY <1>2, <1>4, <1>5, SeqEqual

\* The engine's header checks speak of the model itself as far as it goes:
\* what follows it is padding, and no padding byte is 0, the model type or a
\* byte of "MAIX".
LEMMA LoadableModel ==
    ASSUME NEW buf \in Buffer, TmLoad(buf) = "TM_OK",
           NEW m \in Seq(Byte), NEW pad \in 1..BlockSize,
           Len(m) + pad <= MaxModelSize, Len(Pkcs7Pad(m)) = Len(m) + pad,
           \A i \in 1..Len(m) : m[i] = buf[i],
           \A i \in (Len(m) + 1)..(Len(m) + pad) : buf[i] = pad
    PROVE  ModelLoadable(m)
<1>1. /\ Len(m) \in Nat /\ Len(MaixMagic) \in Nat
      /\ BlockSize \in Nat \ {0} /\ MaxModelSize \in Nat
  BY PackageConstants
<1>2. HasMagic(buf) /\ MdlType(buf) = ModelInt8 /\ ~NeedsSubBuffer(buf)
  BY DEF TmLoad
<1>3. Len(m) >= Len(MaixMagic)
  <2>1. SUFFICES ASSUME Len(m) < Len(MaixMagic) PROVE FALSE
    BY <1>1
  <2>2. Len(m) + 1 \in (Len(m) + 1)..(Len(m) + pad) /\ Len(m) + 1 \in 1..Len(MaixMagic)
    BY <1>1, <2>1
  <2>3. buf[Len(m) + 1] = pad /\ MaixMagic[Len(m) + 1] > BlockSize
    BY <2>2, PackageConstants
  <2>4. MaixMagic[Len(m) + 1] = pad
    BY <1>2, <2>2, <2>3 DEF HasMagic
  <2> QED BY <1>1, <2>3, <2>4
<1>4. Len(m) # Len(MaixMagic)
  <2>1. SUFFICES ASSUME Len(m) = Len(MaixMagic) PROVE FALSE
    OBVIOUS
  <2>2. Len(m) + 1 \in (Len(m) + 1)..(Len(m) + pad)
    BY <1>1
  <2>3. buf[Len(MaixMagic) + 1] = pad
    BY <2>1, <2>2
  <2> QED BY <1>2, <2>3, PackageConstants DEF MdlType
<1>5. Len(m) > Len(MaixMagic)
  BY <1>1, <1>3, <1>4
<1>6. HasMagic(m)
  BY <1>1, <1>2, <1>5 DEF HasMagic
<1>7. MdlType(m) = ModelInt8
  BY <1>1, <1>2, <1>5 DEF MdlType
<1>8. ASSUME NEW i \in SubSizeAt, i <= Len(Pkcs7Pad(m)) PROVE i <= Len(m) /\ m[i] = 0
  <2>1. i \in Nat \ {0} /\ i \in 1..MaxModelSize /\ i <= Len(m) + pad
    BY <1>1, <1>8, PackageConstants
  <2>2. buf[i] = 0
    BY <1>2, <2>1 DEF NeedsSubBuffer, Buffer, Byte
  <2>3. i <= Len(m)
    <3>1. SUFFICES ASSUME ~(i <= Len(m)) PROVE FALSE
      OBVIOUS
    <3>2. buf[i] = pad
      BY <1>1, <2>1, <3>1
    <3> QED BY <1>1, <2>2, <3>2
  <2> QED BY <1>1, <2>1, <2>2, <2>3
<1> QED BY <1>5, <1>6, <1>7, <1>8 DEF ModelLoadable

\* Soundness of the checks of decrypt_model and tm_load: a package whose
\* header, padding, size, magic and engine header are all accepted is one
\* the encryptor made of a model that has magic and type of its own and no
\* sub-buffer as far as it goes, whatever the buffer holds beyond its
\* padding.  It need not have a whole header: what tm_load reads beyond the
\* padding is the buffer's, and the theorem says nothing of it.
THEOREM AcceptedIsGenuine ==
    ASSUME NEW p \in Package, WellFormed(p), HeaderStatus(p) = "PSA_SUCCESS",
           (p.size - HeaderSize) % BlockSize = 0,
           NEW buf \in Buffer, Len(p.plain) <= MaxModelSize,
           \A i \in 1..Len(p.plain) : buf[i] = p.plain[i],
           PaddingValid(buf, Len(p.plain)),
           ContentValid(buf, UnpaddedSize(buf, Len(p.plain)), p.original_size),
           TmLoad(buf) = "TM_OK"
    PROVE  Genuine(p)
<1>1. /\ p.size \in Nat /\ p.version \in Nat /\ p.original_size \in Nat
      /\ p.plain \in Seq(Byte) /\ Len(p.plain) \in Nat
      /\ BlockSize \in Nat \ {0} /\ HeaderSize \in Nat /\ MaxModelSize \in Nat
  BY PackageConstants DEF Package
<1>2. /\ p.size >= HeaderSize /\ p.size <= MaxModelSize
      /\ p.magic = TRUE /\ p.version = PackageVersion
  BY <1>1 DEF HeaderStatus, Package
<1>3. PICK len \in Nat : len = Len(p.plain)
  BY <1>1
<1>4. len = p.size - HeaderSize
  <2>1. PICK sz \in Nat : sz = p.size - HeaderSize
    BY <1>1, <1>2
  <2>2. len % BlockSize = 0 /\ sz % BlockSize = 0 /\ sz - len \in 0..(BlockSize - 1)
    BY <1>2, <1>3, <2>1 DEF WellFormed
  <2>3. sz = len
    BY <1>1, <2>2, NoPartialBlock
  <2> QED BY <2>1, <2>3
<1>5. PICK pad : pad = buf[len]
  OBVIOUS
<1>6. len >= 1 /\ pad \in 1..BlockSize /\ pad <= len /\ p.original_size = len - pad
  BY <1>1, <1>3, <1>5 DEF PaddingValid, ContentValid, UnpaddedSize
<1>7. PICK n \in Nat : n = p.original_size
  BY <1>1
<1>8. PICK m : m = SubSeq(p.plain, 1, n)
  OBVIOUS
<1>9. m \in Seq(Byte) /\ Len(m) = n /\ \A i \in 1..n : m[i] = p.plain[i]
  <2>1. n \in 0..Len(p.plain)
    BY <1>3, <1>6, <1>7
  <2> QED BY <1>1, <1>8, <2>1
<1>10. \A i \in (n + 1)..len : p.plain[i] = pad
  <2>1. ASSUME NEW i \in (n + 1)..len PROVE p.plain[i] = pad
    <3>1. PICK j \in 0..(pad - 1) : len - j = i
      <4>1. len - i \in 0..(pad - 1) /\ len - (len - i) = i
        BY <1>6, <1>7
      <4> QED BY <4>1
    <3>2. buf[len - j] = pad
      BY <1>3, <1>5, <3>1 DEF PaddingValid
    <3>3. i \in 1..len
      BY <1>7
    <3> QED BY <1>3, <3>1, <3>2, <3>3
  <2> QED BY <2>1
<1>11. Pkcs7Pad(m) = p.plain
  <2>1. Len(p.plain) = n + pad /\ Len(p.plain) % BlockSize = 0
    BY <1>3, <1>6, <1>7 DEF WellFormed
  <2> QED BY <1>1, <1>3, <1>6, <1>9, <1>10, <2>1, PaddedBack
<1>12. p = PackageOf(m)
  <2>1. p = [size |-> p.size, magic |-> p.magic, version |-> p.version,
             original_size |-> p.original_size, plain |-> p.plain]
    BY DEF Package
  <2>2. p.size = HeaderSize + Len(p.plain)
    BY <1>1, <1>3, <1>4
  <2> QED BY <1>2, <1>7, <1>9, <1>11, <2>1, <2>2 DEF PackageOf
<1>13. ModelLoadable(m)
  <2>1. n + pad = len /\ len <= MaxModelSize /\ Len(Pkcs7Pad(m)) = n + pad
    BY <1>3, <1>6, <1>7, <1>11
  <2>2. \A i \in (n + 1)..(n + pad) : buf[i] = pad
    BY <1>3, <1>6, <1>7, <1>10, <2>1
  <2>3. \A i \in 1..n : m[i] = buf[i]
    BY <1>3, <1>6, <1>7, <1>9
  <2> QED BY <1>6, <1>9, <2>1, <2>2, <2>3, LoadableModel
<1> QED BY <1>1, <1>2, <1>3, <1>6, <1>7, <1>8, <1>12, <1>13 DEF Genuine

-----------------------------------------------------------------------------
\* Completeness of the checks: a package the encryptor made of a loadable
\* model passes every one of them, padding of a whole block included, so a
\* genuine build always loads.  When the model is so short that sub_size lies
\* beyond its padding, that is because the static buffer is still 0 there.
THEOREM GenuineIsAccepted ==
    ASSUME NEW p \in Package, Genuine(p),
           NEW buf \in Buffer, \A i \in 1..Len(p.plain) : buf[i] = p.plain[i],
           \A i \in SubSizeAt : i > Len(p.plain) => buf[i] = 0
    PROVE  /\ WellFormed(p)
           /\ HeaderStatus(p) = "PSA_SUCCESS"
           /\ (p.size - HeaderSize) % BlockSize = 0
           /\ PaddingValid(buf, Len(p.plain))
           /\ ContentValid(buf, UnpaddedSize(buf, Len(p.plain)), p.original_size)
           /\ TmLoad(buf) = "TM_OK"
<1>1. /\ p.plain \in Seq(Byte) /\ Len(p.plain) \in Nat /\ p.original_size \in Nat
      /\ BlockSize \in Nat \ {0} /\ HeaderSize \in Nat \ {0} /\ MaxModelSize \in Nat
      /\ Len(MaixMagic) \in Nat
  BY PackageConstants DEF Package
<1>2. PICK m : m = SubSeq(p.plain, 1, p.original_size)
  OBVIOUS
<1>3. /\ p.size <= MaxModelSize /\ p.original_size <= Len(p.plain)
      /\ p = PackageOf(m) /\ ModelLoadable(m)
  BY <1>2 DEF Genuine
<1>4. m \in Seq(Byte) /\ Len(m) = p.original_size
  BY <1>1, <1>2, <1>3
<1>5. PICK n \in Nat : n = Len(m)
  BY <1>1, <1>4
<1>6. PICK pad : pad = PadLength(n)
  OBVIOUS
<1>7. pad \in 1..BlockSize /\ (n + pad) % BlockSize = 0
  BY <1>6, PadLengthFills
<1>8. /\ p.size = HeaderSize + Len(Pkcs7Pad(m)) /\ p.magic /\ p.version = PackageVersion
      /\ p.plain = Pkcs7Pad(m)
  BY <1>3 DEF PackageOf
<1>9. /\ Len(p.plain) = n + pad
      /\ \A i \in 1..n : p.plain[i] = m[i]
      /\ \A i \in (n + 1)..(n + pad) : p.plain[i] = pad
  <2> DEFINE pads == [i \in 1..pad |-> pad]
  <2>1. pads \in Seq(Byte) /\ Len(pads) = pad /\ \A i \in 1..pad : pads[i] = pad
    BY <1>1, <1>7, PackageConstants DEF Byte
  <2>2. p.plain = m \o pads
    BY <1>5, <1>6, <1>8 DEF Pkcs7Pad
  <2> HIDE DEF pads
  <2>3. /\ Len(m \o pads) = n + pad
        /\ \A i \in 1..(n + pad) : (m \o pads)[i] = IF i <= n THEN m[i] ELSE pads[i - n]
    <3>1. m \in Seq(Byte) /\ Len(m) = n /\ pads \in Seq(Byte) /\ Len(pads) = pad
      BY <1>4, <1>5, <2>1
    <3> QED BY <3>1, ConcatProperties
  <2>4. \A i \in 1..n : (m \o pads)[i] = m[i]
    BY <1>1, <1>7, <2>3
  <2>5. ASSUME NEW i \in (n + 1)..(n + pad) PROVE (m \o pads)[i] = pad
    <3>1. i \in 1..(n + pad) /\ ~(i <= n) /\ i - n \in 1..pad
      BY <1>7
    <3> QED BY <2>1, <2>3, <3>1
  <2> QED BY <2>2, <2>3, <2>4, <2>5
<1>10. p.size = HeaderSize + n + pad /\ n + pad <= MaxModelSize
  BY <1>1, <1>3, <1>7, <1>8, <1>9
<1>11. WellFormed(p) /\ (p.size - HeaderSize) % BlockSize = 0
  <2>1. p.size - HeaderSize = n + pad
    BY <1>1, <1>7, <1>10
  <2>2. ~(p.size < HeaderSize) /\ p.size - HeaderSize - Len(p.plain) = 0
    BY <1>1, <1>7, <1>9, <1>10
  <2>3. 0 \in 0..(BlockSize - 1) /\ Len(p.plain) % BlockSize = 0
    BY <1>1, <1>7, <1>9
  <2> QED BY <1>7, <2>1, <2>2, <2>3 DEF WellFormed
<1>12. HeaderStatus(p) = "PSA_SUCCESS"
  <2>1. /\ ~(p.size > MaxModelSize) /\ ~(p.size < HeaderSize) /\ p.size # HeaderSize
        /\ ~(p.original_size > MaxModelSize)
    <3>1. p.size <= MaxModelSize /\ p.original_size = n /\ n \in Nat /\ pad \in Nat \ {0}
      BY <1>1, <1>3, <1>4, <1>5, <1>7
    <3> QED BY <1>1, <1>10, <3>1
  <2>2. p.magic = TRUE /\ p.version = PackageVersion
    BY <1>3 DEF PackageOf
  <2> QED BY <2>1, <2>2 DEF HeaderStatus
<1>13. /\ buf[n + pad] = pad
       /\ \A i \in 0..(pad - 1) : buf[n + pad - i] = pad
  <2>1. ASSUME NEW i \in (n + 1)..(n + pad) PROVE buf[i] = pad
    <3>1. i \in 1..(n + pad)
      BY <1>7
    <3>2. i \in 1..Len(p.plain) /\ p.plain[i] = pad
      BY <1>9, <3>1
    <3> QED BY <3>2
  <2>2. \A i \in 0..(pad - 1) : n + pad - i \in (n + 1)..(n + pad)
    BY <1>7
  <2>3. n + pad \in (n + 1)..(n + pad)
    BY <1>7
  <2> QED BY <2>1, <2>2, <2>3
<1>14. PaddingValid(buf, Len(p.plain))
  <2>1. n + pad > 0 /\ pad <= n + pad
    BY <1>1, <1>7
  <2>2. PaddingValid(buf, n + pad)
    BY <1>7, <1>13, <2>1 DEF PaddingValid
  <2> QED BY <1>9, <2>2
<1>15. UnpaddedSize(buf, Len(p.plain)) = p.original_size
  BY <1>1, <1>4, <1>5, <1>7, <1>9, <1>13 DEF UnpaddedSize
<1>16. /\ n > Len(MaixMagic) /\ HasMagic(m) /\ MdlType(m) = ModelInt8
       /\ \A i \in SubSizeAt : i <= n + pad => i <= n /\ m[i] = 0
  BY <1>3, <1>5, <1>8, <1>9 DEF ModelLoadable
<1>17. ASSUME NEW i \in 1..n PROVE buf[i] = m[i]
  <2>1. i \in 1..Len(p.plain)
    BY <1>7, <1>9
  <2> QED BY <1>9, <2>1
<1>18. HasMagic(buf) /\ MdlType(buf) = ModelInt8 /\ ~NeedsSubBuffer(buf)
  <2>1. HasMagic(buf) /\ MdlType(buf) = ModelInt8
    BY <1>1, <1>16, <1>17 DEF HasMagic, MdlType
  <2>2. ASSUME NEW i \in SubSizeAt PROVE buf[i] = 0
    <3>1. i \in Nat \ {0}
      BY <1>1, PackageConstants
    <3>2. CASE i <= n + pad
      BY <1>16, <1>17, <3>1, <3>2
    <3>3. CASE ~(i <= n + pad)
      BY <1>1, <1>7, <1>9, <3>1, <3>3
    <3> QED BY <3>2, <3>3
  <2> QED BY <2>1, <2>2 DEF NeedsSubBuffer
<1>19. ContentValid(buf, UnpaddedSize(buf, Len(p.plain)), p.original_size)
  BY <1>15, <1>18 DEF ContentValid
<1>20. TmLoad(buf) = "TM_OK"
  BY <1>18 DEF TmLoad
<1> QED BY <1>11, <1>12, <1>14, <1>19, <1>20

-----------------------------------------------------------------------------
(* What each PSA call does to OneAnswer and HandlesBalanced, for a service *)
(* with any messages and replies.                                          *)

\* The handles are finitely many, so that they can be counted.
IpcInv == OneAnswer /\ HandlesBalanced /\ IsFiniteSet(handles)

\* The service has no message in hand.
Free == serving = NoClient

\* Every message is some client's.
FromClients(M) == \A m \in M : m.client \in Clients

LEMMA IpcInitInv == IpcInit => IpcInv
<1> SUFFICES ASSUME IpcInit PROVE IpcInv
  OBVIOUS
<1>1. IsFiniteSet({}) /\ Cardinality({}) = 0
  BY FS_EmptySet
<1>2. OneAnswer
  BY IpcConstants DEF IpcInit, OneAnswer, Queued
<1>3. handles = {c \in Clients : phase[c] # "idle"}
  BY DEF IpcInit
<1>4. HandlesBalanced
  BY <1>1, <1>3, IpcConstants DEF IpcInit, HandlesBalanced
<1> QED BY <1>1, <1>2, <1>4 DEF IpcInv, IpcInit

LEMMA IpcUnchanged == ASSUME IpcInv, UNCHANGED ipcVars PROVE IpcInv'
BY DEF IpcInv, OneAnswer, HandlesBalanced, Queued, ipcVars

\* A message at the end of the queue: whose messages are waiting.
LEMMA QueuedAppend ==
    ASSUME NEW M, queue \in Seq(M), NEW m, queue' = Append(queue, m)
    PROVE  \A c : Queued(c)' <=> (Queued(c) \/ m.client = c)
<1>1. Len(queue') = Len(queue) + 1 /\ Len(queue) \in Nat /\ queue'[Len(queue) + 1] = m
  OBVIOUS
<1>2. \A i \in 1..Len(queue) : queue'[i] = queue[i]
  OBVIOUS
<1> SUFFICES ASSUME NEW c PROVE Queued(c)' <=> (Queued(c) \/ m.client = c)
  OBVIOUS
<1>3. Queued(c)' => Queued(c) \/ m.client = c
  <2> SUFFICES ASSUME NEW i \in 1..Len(queue'), queue'[i].client = c
               PROVE  Queued(c) \/ m.client = c
    BY DEF Queued
  <2>1. i \in 1..Len(queue) \/ i = Len(queue) + 1
    BY <1>1
  <2> QED BY <1>1, <1>2, <2>1 DEF Queued
<1>4. Queued(c) => Queued(c)'
  BY <1>1, <1>2 DEF Queued
<1>5. m.client = c => Queued(c)'
  BY <1>1 DEF Queued
<1> QED BY <1>3, <1>4, <1>5

\* A client without a message in the queue may put one there.
LEMMA OnceAppend ==
    ASSUME NEW M, queue \in Seq(M), OneAnswer, NEW m, queue' = Append(queue, m),
           ~Queued(m.client)
    PROVE  \A i, j \in 1..Len(queue') : queue'[i].client = queue'[j].client => i = j
<1>1. Len(queue') = Len(queue) + 1 /\ Len(queue) \in Nat /\ queue'[Len(queue) + 1] = m
  OBVIOUS
<1>2. \A i \in 1..Len(queue) : queue'[i] = queue[i] /\ queue[i].client # m.client
  BY DEF Queued
<1>3. \A i \in 1..Len(queue') : i \in 1..Len(queue) \/ i = Len(queue) + 1
  BY <1>1
<1> QED BY <1>1, <1>2, <1>3 DEF OneAnswer

LEMMA ConnectKeepsIpc ==
    ASSUME NEW M, NEW R, IpcTypeOK(M, R), IpcInv, NEW c \in Clients, PsaConnect(c)
    PROVE  IpcInv'
<1> USE DEF PsaConnect
<1>1. queue \in Seq(M) /\ phase \in [Clients -> Phases]
  BY DEF IpcTypeOK
<1>2. Bare(c, "PSA_IPC_CONNECT").client = c
  BY DEF Bare
<1>3. ~Queued(c) /\ serving # c /\ reply[c] = NoReply
  BY DEF IpcInv, OneAnswer
<1>4. OneAnswer'
  <2>1. \A i, j \in 1..Len(queue') : queue'[i].client = queue'[j].client => i = j
    BY <1>1, <1>2, <1>3, OnceAppend DEF IpcInv
  <2>2. \A d : Queued(d)' <=> (Queued(d) \/ d = c)
    BY <1>1, <1>2, QueuedAppend
  <2> QED BY <1>1, <1>3, <2>1, <2>2 DEF IpcInv, OneAnswer, Phases
<1>5. c \notin handles
  BY DEF IpcInv, HandlesBalanced
<1>6. IsFiniteSet(handles') /\ Cardinality(handles') = Cardinality(handles) + 1
  BY <1>5, FS_AddElement DEF IpcInv
<1>7. Cardinality(handles) \in Nat
  BY FS_CardinalityType DEF IpcInv
<1>8. HandlesBalanced'
  <2>1. handles' = {d \in Clients : phase'[d] # "idle"}
    BY <1>1 DEF IpcInv, HandlesBalanced
  <2>2. Cardinality(handles') <= MaxHandles
    BY <1>6, <1>7, IpcConstants
  <2> QED BY <2>1, <2>2 DEF HandlesBalanced
<1> QED BY <1>4, <1>6, <1>8 DEF IpcInv

\* Issuing the next call: the answer of the one before is consumed.
LEMMA NextCallKeepsIpc ==
    ASSUME NEW M, NEW R, IpcTypeOK(M, R), IpcInv, NEW c \in Clients, NEW m, m.client = c,
           NEW p \in {"call", "close"},
           phase[c] # "idle", reply[c] # NoReply,
           phase' = [phase EXCEPT ![c] = p], reply' = [reply EXCEPT ![c] = NoReply],
           queue' = Append(queue, m), UNCHANGED <<handles, serving>>
    PROVE  IpcInv'
<1>1. queue \in Seq(M) /\ phase \in [Clients -> Phases] /\ reply \in [Clients -> R \cup {NoReply}]
  BY DEF IpcTypeOK
<1>2. ~Queued(c) /\ serving # c
  BY DEF IpcInv, OneAnswer
<1>3. OneAnswer'
  <2>1. \A i, j \in 1..Len(queue') : queue'[i].client = queue'[j].client => i = j
    BY <1>1, <1>2, OnceAppend DEF IpcInv
  <2>2. \A d : Queued(d)' <=> (Queued(d) \/ d = c)
    BY <1>1, QueuedAppend
  <2> QED BY <1>1, <1>2, <2>1, <2>2 DEF IpcInv, OneAnswer
<1>4. HandlesBalanced'
  BY <1>1 DEF IpcInv, HandlesBalanced
<1> QED BY <1>3, <1>4 DEF IpcInv

LEMMA CallKeepsIpc ==
    ASSUME NEW M, NEW R, IpcTypeOK(M, R), IpcInv, NEW c \in Clients,
           NEW type, NEW in_vec, NEW out_size, PsaCall(c, type, in_vec, out_size)
    PROVE  IpcInv'
BY NextCallKeepsIpc DEF PsaCall

LEMMA CloseKeepsIpc ==
    ASSUME NEW M, NEW R, IpcTypeOK(M, R), IpcInv, NEW c \in Clients, PsaClose(c)
    PROVE  IpcInv'
BY NextCallKeepsIpc DEF PsaClose, Bare

LEMMA ClosedKeepsIpc ==
    ASSUME NEW M, NEW R, IpcTypeOK(M, R), IpcInv, NEW c \in Clients, PsaClosed(c)
    PROVE  IpcInv'
<1> USE DEF PsaClosed
<1>1. phase \in [Clients -> Phases] /\ reply \in [Clients -> R \cup {NoReply}]
  BY DEF IpcTypeOK
<1>2. ~Queued(c) /\ serving # c
  BY DEF IpcInv, OneAnswer
<1>3. \A d : Queued(d)' <=> Queued(d)
  BY DEF Queued
<1>4. OneAnswer'
  BY <1>1, <1>2, <1>3 DEF IpcInv, OneAnswer
<1>5. c \in handles
  BY DEF IpcInv, HandlesBalanced
<1>6. IsFiniteSet(handles') /\ Cardinality(handles') = Cardinality(handles) - 1
  BY <1>5, FS_RemoveElement DEF IpcInv
<1>7. Cardinality(handles) \in Nat
  BY FS_CardinalityType DEF IpcInv
<1>8. HandlesBalanced'
  <2>1. handles' = {d \in Clients : phase'[d] # "idle"}
    BY <1>1 DEF IpcInv, HandlesBalanced
  <2>2. Cardinality(handles') <= MaxHandles
    BY <1>6, <1>7, IpcConstants DEF IpcInv, HandlesBalanced
  <2> QED BY <2>1, <2>2 DEF HandlesBalanced
<1> QED BY <1>4, <1>6, <1>8 DEF IpcInv

\* The service takes a message when it has none: its client waits no longer in
\* the queue.
LEMMA GetKeepsIpc ==
    ASSUME NEW M, NEW R, IpcTypeOK(M, R), FromClients(M), IpcInv, Free, PsaGet
    PROVE  IpcInv' /\ serving' \in Clients
<1> USE DEF PsaGet, Free
<1>1. queue \in Seq(M) /\ queue # <<>> /\ Head(queue) \in M
  BY DEF IpcTypeOK
<1>2. PICK h \in Clients : h = Head(queue).client /\ serving' = h
  BY <1>1 DEF FromClients
<1>3. /\ Len(queue') = Len(queue) - 1 /\ Len(queue) \in Nat \ {0}
      /\ \A i \in 1..Len(queue') : i + 1 \in 1..Len(queue) /\ queue'[i] = queue[i + 1]
      /\ queue[1].client = h
  BY <1>1, <1>2
<1>4. \A i, j \in 1..Len(queue') : queue'[i].client = queue'[j].client => i = j
  BY <1>3 DEF IpcInv, OneAnswer
<1>5. Queued(h)
  BY <1>3 DEF Queued
<1>6. ~Queued(h)'
  <2> SUFFICES ASSUME NEW i \in 1..Len(queue'), queue'[i].client = h PROVE FALSE
    BY DEF Queued
  <2>1. 1 \in 1..Len(queue) /\ i + 1 \in 1..Len(queue) /\ queue[i + 1].client = queue[1].client
    BY <1>3
  <2>2. i + 1 = 1
    BY <2>1 DEF IpcInv, OneAnswer
  <2> QED BY <2>2
<1>7. \A d : d # h => (Queued(d)' <=> Queued(d))
  <2> SUFFICES ASSUME NEW d, d # h PROVE Queued(d)' <=> Queued(d)
    OBVIOUS
  <2>1. Queued(d)' => Queued(d)
    BY <1>3 DEF Queued
  <2>2. ASSUME NEW i \in 1..Len(queue), queue[i].client = d PROVE Queued(d)'
    <3>1. i # 1 /\ i - 1 \in 1..Len(queue')
      BY <1>3, <2>2
    <3>2. queue'[i - 1] = queue[i]
      BY <1>3, <3>1
    <3> QED BY <2>2, <3>1, <3>2 DEF Queued
  <2> QED BY <2>1, <2>2 DEF Queued
<1>8. \A d \in Clients : serving # d
  BY IpcConstants
<1>9. OneAnswer'
  BY <1>2, <1>4, <1>5, <1>6, <1>7, <1>8 DEF IpcInv, OneAnswer
<1>10. HandlesBalanced' /\ IsFiniteSet(handles')
  BY DEF IpcInv, HandlesBalanced
<1> QED BY <1>2, <1>9, <1>10 DEF IpcInv

\* The service answers the message it has in hand.
LEMMA ReplyKeepsIpc ==
    ASSUME NEW M, NEW R, IpcTypeOK(M, R), IpcInv,
           NEW st, NEW out, [status |-> st, out |-> out] # NoReply,
           serving \in Clients, PsaReply(serving, st, out)
    PROVE  IpcInv' /\ Free'
<1> USE DEF PsaReply
<1>1. reply \in [Clients -> R \cup {NoReply}]
  BY DEF IpcTypeOK
<1>2. \A d : Queued(d)' <=> Queued(d)
  BY DEF Queued
<1>3. reply'[serving] # NoReply /\ ~Queued(serving) /\ phase[serving] # "idle"
  BY <1>1 DEF IpcInv, OneAnswer
<1>4. \A d \in Clients : d # serving => reply'[d] = reply[d]
  BY <1>1
<1>5. \A d \in Clients : serving' # d
  BY IpcConstants
<1>6. OneAnswer'
  BY <1>2, <1>3, <1>4, <1>5 DEF IpcInv, OneAnswer
<1>7. HandlesBalanced' /\ IsFiniteSet(handles')
  BY DEF IpcInv, HandlesBalanced
<1> QED BY <1>6, <1>7 DEF IpcInv, Free

-----------------------------------------------------------------------------
(* The inductive invariant of the system.                                  *)

\* Where the partition holds what.
KdfHeld == {"kdf_salt", "kdf_secret", "kdf_info", "kdf_output", "kdf_abort"}

ResInv ==
    /\ kdf_ops = IF spc \in KdfHeld THEN 1 ELSE 0
    /\ keys = IF spc \in CipherSteps THEN 1 ELSE 0
    /\ cipher_ops = IF operation = "active" THEN 1 ELSE 0
    /\ operation = "active" => spc \in {"set_iv", "update", "finish", "cipher_abort"}
    /\ spc \in {"set_iv", "update", "finish"} => operation = "active"

\* What is known of the message in service and of the package.
MsgInv ==
    /\ pkg \in Packages
    /\ spc # "wait" => msg \in Messages
    /\ spc \in LoadSteps => msg.type \in {LOAD, KEY}
    /\ spc \in LoadSteps \ KdfSteps => msg.type = LOAD
    /\ spc \in LoadSteps /\ msg.type = LOAD => HeaderStatus(pkg) = "PSA_SUCCESS"

\* A client inside a function has a call, and its result once it closes.
ApiInv ==
    \A c \in Clients :
        /\ phase[c] # "idle" => call[c] \in Calls
        /\ phase[c] = "close" => result[c] \in Replies

IInv == TypeOK /\ ResInv /\ MsgInv /\ ApiInv

-----------------------------------------------------------------------------
(* Types of the operators.                                                 *)

LEMMA StatusNotNone == "none" \notin Statuses
  BY DEF Statuses, Errors, CryptoErrors

LEMMA NoReplyNotReply == NoReply \notin Replies
  BY StatusNotNone DEF Replies, NoReply

LEMMA HeaderStatusType == ASSUME NEW p PROVE HeaderStatus(p) \in Statuses
  BY DEF HeaderStatus, Statuses, Errors, CryptoErrors

\* A package that gets past the header checks fits the buffer.
LEMMA AcceptedFits ==
    ASSUME NEW p \in Packages, HeaderStatus(p) = "PSA_SUCCESS"
    PROVE  /\ p \in Package
           /\ Len(p.plain) \in 0..MaxModelSize
           /\ p.size - HeaderSize \in Nat
<1>1. p \in Package /\ WellFormed(p)
  BY PartitionConstants
<1>2. p.size \in Nat /\ p.plain \in Seq(Byte) /\ Len(p.plain) \in Nat
  BY <1>1 DEF Package
<1>3. HeaderSize \in Nat /\ MaxModelSize \in Nat /\ BlockSize \in Nat \ {0}
  BY PackageConstants
<1>4. p.size >= HeaderSize /\ p.size <= MaxModelSize
  BY <1>2, <1>3 DEF HeaderStatus
<1>5. p.size - HeaderSize - Len(p.plain) \in 0..(BlockSize - 1)
  BY <1>1, <1>4 DEF WellFormed
<1> QED BY <1>1, <1>2, <1>3, <1>4, <1>5

LEMMA CallsType ==
    ASSUME NEW k \in Calls
    PROVE  /\ k.psa.type \in MessageTypes
           /\ k.psa.in_vec \in Seq(Pixel)
           /\ k.psa.out_size \in Nat
           /\ k.fn \in ApiFunctions \cup {"direct"}
<1>1. CASE \E f \in ApiFunctions : k = [fn |-> f, psa |-> ApiCall(f)]
  BY <1>1 DEF ApiFunctions, ApiCall, MessageTypes, LOAD, RUN, KEY, SIZEOF_INT, DERIVED_KEY_LEN
<1>2. CASE \E d \in DirectCalls : k = [fn |-> "direct", psa |-> d]
  BY <1>2, DirectConstants DEF MessageTypes, LOAD, RUN, KEY
<1> QED BY <1>1, <1>2 DEF Calls

LEMMA OutcomeType ==
    ASSUME NEW k \in Calls, NEW r \in Replies
    PROVE  Outcome(k.fn, r) \in Returns
<1>1. k.fn \in ApiFunctions \cup {"direct"}
  BY CallsType
<1>2. ApiFunctions \subseteq {"load_encrypted_model", "run_inference", "get_model_key"}
  BY DEF ApiFunctions
<1>3. r.status \in Statuses /\ r.out \in OutVecs /\ <<>> \in OutVecs
  BY DEF Replies, OutVecs
<1>4. CASE k.fn = "load_encrypted_model"
  BY <1>1, <1>3, <1>4 DEF Outcome, Returns, ReturnStatuses
<1>5. CASE k.fn = "run_inference"
  BY <1>1, <1>3, <1>5 DEF Outcome, Returns, ReturnStatuses
<1>6. CASE k.fn = "get_model_key"
  BY <1>1, <1>3, <1>6 DEF Outcome, Returns, ReturnStatuses
<1>7. CASE k.fn = "direct"
  BY <1>1, <1>3, <1>7 DEF Outcome, Returns, ReturnStatuses
<1> QED BY <1>1, <1>2, <1>4, <1>5, <1>6, <1>7

-----------------------------------------------------------------------------
(* The parts of the invariant, so that each action shows what it disturbs. *)

ApiTypeOK == /\ call \in [Clients -> Calls \cup {NoCall}]
             /\ result \in [Clients -> Replies \cup {NoReply}]
             /\ ret \in [Clients -> Returns \cup {NoReturn}]

IpcOK == IpcTypeOK(Messages, Replies)

\* A step of the partition that stays inside its handler leaves the clients'
\* side alone.
LEMMA GotoKeepsClients ==
    ASSUME IInv, NEW from, NEW to, Goto(from, to), UNCHANGED apiVars
    PROVE  IpcOK' /\ ApiTypeOK' /\ ApiInv'
<1>1. UNCHANGED ipcVars /\ UNCHANGED apiVars
  BY DEF Goto
<1>2. IpcOK'
  BY <1>1 DEF IInv, TypeOK, IpcOK, IpcTypeOK, ipcVars
<1>3. ApiTypeOK' /\ ApiInv'
  BY <1>1 DEF IInv, TypeOK, ApiTypeOK, ApiInv, ipcVars, apiVars
<1> QED BY <1>2, <1>3

\* psa_reply keeps the clients' side well typed.
LEMMA ReplyKeepsClients ==
    ASSUME IInv, NEW st \in Statuses, NEW out \in OutVecs, spc # "wait",
           Reply(st, out), UNCHANGED apiVars
    PROVE  IpcOK' /\ ApiTypeOK' /\ ApiInv'
<1>1. msg.client \in Clients
  BY DEF IInv, MsgInv, Messages
<1>2. [status |-> st, out |-> out] \in Replies
  BY DEF Replies
<1>3. phase' = phase /\ UNCHANGED apiVars
  BY DEF Reply, PsaReply
<1>4. IpcOK'
  BY <1>1, <1>2 DEF IInv, TypeOK, IpcOK, IpcTypeOK, Reply, PsaReply
<1>5. ApiTypeOK' /\ ApiInv'
  BY <1>3 DEF IInv, TypeOK, ApiTypeOK, ApiInv, apiVars
<1> QED BY <1>4, <1>5

\* After an answer the partition is back in psa_wait with its locals reset:
\* it remains to show that it holds nothing and that its globals are typed.
LEMMA ReplyKeepsInv ==
    ASSUME IInv, NEW st \in Statuses, NEW out \in OutVecs, spc # "wait",
           Reply(st, out), UNCHANGED apiVars,
           kdf_ops' = 0, cipher_ops' = 0, keys' = 0,
           g_model_loaded' \in BOOLEAN, g_decrypted_model' \in Buffer,
           g_decrypted_size' \in 0..MaxModelSize,
           encryption_key' \in {"zero", "derived", "unspecified"},
           mnist_pic' \in Pictures
    PROVE  IInv'
<1>1. IpcOK' /\ ApiTypeOK' /\ ApiInv'
  BY ReplyKeepsClients
<1>2. CryptoTypeOK'
  BY CryptoConstants DEF CryptoTypeOK
<1>3. PartTypeOK'
  BY PackageConstants DEF IInv, TypeOK, PartTypeOK, Reply, ServicePoints, NoMessage, Statuses
<1>4. ResInv'
  BY DEF ResInv, Reply, KdfHeld, CipherSteps
<1>5. MsgInv'
  BY DEF IInv, MsgInv, Reply, LoadSteps, KdfSteps, CipherSteps
<1> QED BY <1>1, <1>2, <1>3, <1>4, <1>5 DEF IInv, TypeOK, ApiTypeOK, IpcOK

\* A step inside the handler: what is left to show is where the resources
\* are and that the partition's own variables are typed.
LEMMA GotoKeepsInv ==
    ASSUME IInv, NEW from, NEW to \in LoadSteps, from # "wait", Goto(from, to),
           UNCHANGED apiVars,
           ResInv', CryptoTypeOK',
           status' \in Statuses, output_length' \in 0..MaxModelSize,
           operation' \in {"inactive", "active"},
           g_model_loaded' \in BOOLEAN, g_decrypted_model' \in Buffer,
           g_decrypted_size' \in 0..MaxModelSize,
           encryption_key' \in {"zero", "derived", "unspecified"},
           mnist_pic' \in Pictures,
           msg.type \in {LOAD, KEY}, to \notin KdfSteps => msg.type = LOAD,
           msg.type = LOAD => HeaderStatus(pkg) = "PSA_SUCCESS"
    PROVE  IInv'
<1>1. IpcOK' /\ ApiTypeOK' /\ ApiInv'
  BY GotoKeepsClients
<1>2. PartTypeOK'
  BY DEF IInv, TypeOK, PartTypeOK, Goto, ServicePoints
<1>3. MsgInv'
  BY DEF IInv, MsgInv, Goto
<1> QED BY <1>1, <1>2, <1>3 DEF IInv, TypeOK, ApiTypeOK, IpcOK

-----------------------------------------------------------------------------
(* The initial states.                                                     *)

LEMMA InitInv == ASSUME Init PROVE IInv
<1> USE DEF Init
<1>1. IpcOK
  BY DEF IpcOK, IpcTypeOK, IpcInit, Phases
<1>2. CryptoTypeOK
  BY CryptoConstants DEF CryptoInit, CryptoTypeOK
<1>3. PartTypeOK
  <2>1. g_decrypted_model \in Buffer
    BY PackageConstants DEF PartInit, Buffer, Byte
  <2>2. pkg \in Package /\ mnist_pic \in Pictures
    BY PartitionConstants DEF PartInit
  <2>3. spc \in ServicePoints /\ msg = NoMessage /\ status \in Statuses
    BY DEF PartInit, ServicePoints, Statuses
  <2>4. output_length \in 0..MaxModelSize /\ g_decrypted_size \in 0..MaxModelSize
    BY PackageConstants DEF PartInit
  <2> QED BY <2>1, <2>2, <2>3, <2>4 DEF PartInit, PartTypeOK
<1>4. ApiTypeOK
  BY DEF ApiTypeOK
<1>5. ResInv
  BY DEF PartInit, CryptoInit, ResInv, KdfHeld, CipherSteps
<1>6. MsgInv
  BY DEF PartInit, MsgInv, LoadSteps, KdfSteps, CipherSteps
<1>7. ApiInv
  BY DEF IpcInit, ApiInv
<1> QED BY <1>1, <1>2, <1>3, <1>4, <1>5, <1>6, <1>7 DEF IInv, TypeOK, ApiTypeOK, IpcOK

-----------------------------------------------------------------------------
(* The steps of the clients.                                               *)

LEMMA PartUnchanged ==
    ASSUME IInv, UNCHANGED <<partVars, cryptoVars>>
    PROVE  CryptoTypeOK' /\ PartTypeOK' /\ ResInv' /\ MsgInv'
<1> USE DEF partVars, cryptoVars, localVars, modelVars
<1>1. CryptoTypeOK' /\ PartTypeOK'
  BY DEF IInv, TypeOK, CryptoTypeOK, PartTypeOK
<1>2. ResInv'
  BY DEF IInv, ResInv
<1>3. MsgInv'
  BY DEF IInv, MsgInv
<1> QED BY <1>1, <1>2, <1>3

LEMMA BareType ==
    ASSUME NEW c \in Clients, NEW t \in {"PSA_IPC_CONNECT", "PSA_IPC_DISCONNECT"}
    PROVE  Bare(c, t) \in Messages
  BY DEF Bare, Messages, MessageTypes

LEMMA ClientKeepsInv ==
    ASSUME IInv, NEW c \in Clients, Client(c)
    PROVE  IInv'
<1> USE DEF IInv, TypeOK
<1>0. CryptoTypeOK' /\ PartTypeOK' /\ ResInv' /\ MsgInv'
  BY PartUnchanged DEF Client
<1>1. ASSUME Invoke(c) PROVE IpcOK' /\ ApiTypeOK' /\ ApiInv'
  <2>1. Bare(c, "PSA_IPC_CONNECT") \in Messages
    BY BareType
  <2>2. IpcOK'
    BY <1>1, <2>1 DEF Invoke, PsaConnect, IpcOK, IpcTypeOK, Phases
  <2>3. PICK k \in Calls : call' = [call EXCEPT ![c] = k]
    BY <1>1 DEF Invoke
  <2>4. ApiTypeOK'
    BY <1>1, <2>3 DEF Invoke, ApiTypeOK
  <2>5. ApiInv'
    BY <1>1, <2>3 DEF Invoke, PsaConnect, ApiInv, IpcTypeOK
  <2> QED BY <2>2, <2>4, <2>5
<1>2. ASSUME MakeCall(c) PROVE IpcOK' /\ ApiTypeOK' /\ ApiInv'
  <2>1. call[c] \in Calls
    BY <1>2 DEF MakeCall, PsaCall, ApiInv
  <2>2. [client |-> c, type |-> call[c].psa.type, in_vec |-> call[c].psa.in_vec,
         out_size |-> call[c].psa.out_size] \in Messages
    BY <2>1, CallsType DEF Messages
  <2>3. IpcOK'
    BY <1>2, <2>2 DEF MakeCall, PsaCall, IpcOK, IpcTypeOK, Phases
  <2>4. ApiTypeOK'
    BY <1>2 DEF MakeCall, apiVars, ApiTypeOK
  <2>5. ApiInv'
    BY <1>2, <2>1 DEF MakeCall, PsaCall, apiVars, ApiInv, IpcTypeOK
  <2> QED BY <2>3, <2>4, <2>5
<1>3. ASSUME Close(c) PROVE IpcOK' /\ ApiTypeOK' /\ ApiInv'
  <2>1. Bare(c, "PSA_IPC_DISCONNECT") \in Messages
    BY BareType
  <2>2. IpcOK'
    BY <1>3, <2>1 DEF Close, PsaClose, IpcOK, IpcTypeOK, Phases
  <2>3. reply[c] \in Replies /\ call[c] \in Calls
    BY <1>3 DEF Close, PsaClose, IpcTypeOK, ApiInv
  <2>4. ApiTypeOK'
    BY <1>3, <2>3 DEF Close, ApiTypeOK
  <2>5. ApiInv'
    BY <1>3, <2>3 DEF Close, PsaClose, ApiInv, IpcTypeOK
  <2> QED BY <2>2, <2>4, <2>5
<1>4. ASSUME Return(c) PROVE IpcOK' /\ ApiTypeOK' /\ ApiInv'
  <2>1. call[c] \in Calls /\ result[c] \in Replies
    BY <1>4 DEF Return, PsaClosed, ApiInv
  <2>2. Outcome(call[c].fn, result[c]) \in Returns
    BY <2>1, OutcomeType
  <2>3. IpcOK'
    BY <1>4 DEF Return, PsaClosed, IpcOK, IpcTypeOK, Phases
  <2>4. ApiTypeOK'
    BY <1>4, <2>2 DEF Return, ApiTypeOK
  <2>5. ApiInv'
    BY <1>4 DEF Return, PsaClosed, ApiInv, IpcTypeOK
  <2> QED BY <2>3, <2>4, <2>5
<1>5. ASSUME NEW fn \in ApiFunctions, InvokeBadParameter(c, fn)
      PROVE  IpcOK' /\ ApiTypeOK' /\ ApiInv'
  <2>1. [fn |-> fn, class |-> <<>>, status |-> "TINYMAIX_STATUS_ERROR_INVALID_PARAM"] \in Returns
    BY DEF Returns, ReturnStatuses, OutVecs
  <2>2. ApiTypeOK'
    BY <1>5, <2>1 DEF InvokeBadParameter, ApiTypeOK
  <2> QED BY <1>5, <2>2 DEF InvokeBadParameter, IpcOK, IpcTypeOK, ApiInv, ipcVars
<1>6. ASSUME NEW fn \in ApiFunctions \cup {"direct"}, InvokeRefused(c, fn)
      PROVE  IpcOK' /\ ApiTypeOK' /\ ApiInv'
  <2>1. PICK st \in ReturnStatuses : ret' = [ret EXCEPT ![c] = [fn |-> fn, class |-> <<>>, status |-> st]]
    BY <1>6 DEF InvokeRefused, ReturnStatuses
  <2>2. [fn |-> fn, class |-> <<>>, status |-> st] \in Returns
    BY <2>1 DEF Returns, OutVecs
  <2>3. ApiTypeOK'
    BY <1>6, <2>1, <2>2 DEF InvokeRefused, ApiTypeOK
  <2> QED BY <1>6, <2>3 DEF InvokeRefused, IpcOK, IpcTypeOK, ApiInv, ipcVars
<1>7. IpcOK' /\ ApiTypeOK' /\ ApiInv'
  BY <1>1, <1>2, <1>3, <1>4, <1>5, <1>6 DEF Client, ClientStep
<1> QED BY <1>0, <1>7 DEF ApiTypeOK, IpcOK
-----------------------------------------------------------------------------
(* The steps of the partition.                                             *)

\* The fields of IInv a step of the partition reads.
LEMMA PartTypes ==
    ASSUME IInv
    PROVE  /\ status \in Statuses
           /\ output_length \in 0..MaxModelSize
           /\ operation \in {"inactive", "active"}
           /\ g_model_loaded \in BOOLEAN
           /\ g_decrypted_model \in Buffer
           /\ g_decrypted_size \in 0..MaxModelSize
           /\ encryption_key \in {"zero", "derived", "unspecified"}
           /\ mnist_pic \in Pictures
           /\ kdf_ops \in Nat /\ cipher_ops \in Nat /\ keys \in Nat
           /\ CryptoTypeOK
  BY CryptoConstants DEF IInv, TypeOK, PartTypeOK, CryptoTypeOK

\* An answer that leaves the model and the picture alone.
LEMMA PlainReplyKeepsInv ==
    ASSUME IInv, NEW st \in Statuses, NEW out \in OutVecs, spc # "wait",
           Reply(st, out), UNCHANGED apiVars,
           kdf_ops' = 0, cipher_ops' = 0, keys' = 0,
           UNCHANGED <<modelVars, encryption_key, mnist_pic>>
    PROVE  IInv'
  BY PartTypes, ReplyKeepsInv DEF modelVars

\* The failure branch of the load handler.
LEMMA LoadFailsKeepsInv ==
    ASSUME IInv, NEW st \in Statuses, spc # "wait",
           LoadFails(st), UNCHANGED apiVars,
           kdf_ops' = 0, cipher_ops' = 0, keys' = 0, UNCHANGED encryption_key
    PROVE  IInv'
<1>1. <<>> \in OutVecs
  BY DEF OutVecs
<1> QED BY <1>1, PartTypes, ReplyKeepsInv DEF LoadFails

LEMMA GetMessageKeepsInv ==
    ASSUME IInv, GetMessage, UNCHANGED apiVars
    PROVE  IInv'
<1>1. queue \in Seq(Messages) /\ queue # <<>>
  BY DEF IInv, TypeOK, IpcTypeOK, GetMessage, PsaGet
<1>2. Head(queue) \in Messages /\ Tail(queue) \in Seq(Messages)
  BY <1>1
<1>3. Head(queue).client \in Clients
  BY <1>2 DEF Messages
<1>4. IpcOK'
  BY <1>2, <1>3 DEF IInv, TypeOK, IpcOK, IpcTypeOK, GetMessage, PsaGet
<1>5. ApiTypeOK' /\ ApiInv'
  BY DEF IInv, TypeOK, ApiTypeOK, ApiInv, GetMessage, PsaGet, apiVars
<1>6. PartTypeOK' /\ CryptoTypeOK'
  BY <1>2 DEF IInv, TypeOK, PartTypeOK, CryptoTypeOK, GetMessage, cryptoVars, modelVars, ServicePoints
<1>7. ResInv'
  BY DEF IInv, ResInv, GetMessage, cryptoVars, KdfHeld, CipherSteps
<1>8. MsgInv'
  BY <1>2 DEF IInv, MsgInv, GetMessage, LoadSteps, KdfSteps, CipherSteps
<1> QED BY <1>4, <1>5, <1>6, <1>7, <1>8 DEF IInv, TypeOK, ApiTypeOK, IpcOK

LEMMA ServeKeepsInv ==
    ASSUME IInv, ServeConnection \/ ServeUnsupported \/ KeyBufferTooSmall, UNCHANGED apiVars
    PROVE  IInv'
<1>1. spc = "dispatch" /\ UNCHANGED cryptoVars /\ UNCHANGED <<modelVars, encryption_key, mnist_pic>>
  BY DEF ServeConnection, ServeUnsupported, KeyBufferTooSmall, Dispatch
<1>2. kdf_ops' = 0 /\ cipher_ops' = 0 /\ keys' = 0
  BY <1>1 DEF IInv, ResInv, cryptoVars, KdfHeld, CipherSteps
<1>3. PICK st \in Statuses : Reply(st, <<>>)
  BY DEF ServeConnection, ServeUnsupported, KeyBufferTooSmall, Statuses, Errors
<1>4. <<>> \in OutVecs
  BY DEF OutVecs
<1> QED BY <1>1, <1>2, <1>3, <1>4, PlainReplyKeepsInv

\* A call of the crypto service from inside a handler, and what follows it
\* up to the next one.
LEMMA InnerKeepsInv ==
    ASSUME IInv, NEW from \in LoadSteps, NEW to \in LoadSteps, Goto(from, to),
           to \in KdfSteps \/ from \notin KdfSteps \/ msg.type = LOAD,
           UNCHANGED apiVars, UNCHANGED <<g_model_loaded, g_decrypted_size, mnist_pic>>,
           ResInv', CryptoTypeOK',
           status' \in Statuses, output_length' \in 0..MaxModelSize,
           operation' \in {"inactive", "active"}, g_decrypted_model' \in Buffer,
           encryption_key' \in {"zero", "derived", "unspecified"}
    PROVE  IInv'
<1>1. from # "wait" /\ spc = from
  BY DEF LoadSteps, KdfSteps, CipherSteps, Goto
<1>2. /\ msg.type \in {LOAD, KEY} /\ (to \notin KdfSteps => msg.type = LOAD)
      /\ msg.type = LOAD => HeaderStatus(pkg) = "PSA_SUCCESS"
  BY <1>1 DEF IInv, MsgInv
<1>3. /\ g_model_loaded' \in BOOLEAN /\ g_decrypted_size' \in 0..MaxModelSize
      /\ mnist_pic' \in Pictures
  BY PartTypes
<1> QED BY <1>1, <1>2, <1>3, GotoKeepsInv

LEMMA BeginKeepsInv ==
    ASSUME IInv, LoadBegin \/ KeyBegin, UNCHANGED apiVars
    PROVE  IInv'
<1> USE DEF Dispatch
<1>1. UNCHANGED <<status, output_length, operation, modelVars, encryption_key, mnist_pic, cryptoVars>>
  BY DEF LoadBegin, KeyBegin
<1>2. ResInv'
  BY <1>1 DEF IInv, ResInv, LoadBegin, KeyBegin, Goto, cryptoVars, KdfHeld, CipherSteps
<1>3. CryptoTypeOK'
  BY <1>1, PartTypes DEF CryptoTypeOK, cryptoVars
<1>4. CASE LoadBegin
  <2>1. Goto("dispatch", "crypto_init") /\ msg.type = LOAD /\ HeaderStatus(pkg) = "PSA_SUCCESS"
    BY <1>4 DEF LoadBegin
  <2> QED BY <1>1, <1>2, <1>3, <2>1, PartTypes, GotoKeepsInv
          DEF modelVars, LoadSteps, KdfSteps, CipherSteps
<1>5. CASE KeyBegin
  <2>1. Goto("dispatch", "kdf_setup") /\ msg.type = KEY
    BY <1>5 DEF KeyBegin
  <2> QED BY <1>1, <1>2, <1>3, <2>1, PartTypes, GotoKeepsInv
          DEF modelVars, LoadSteps, KdfSteps, CipherSteps, LOAD, KEY
<1> QED BY <1>4, <1>5

\* Steps of derive_key_from_huk before its abort.
LEMMA DeriveStepKeepsInv ==
    ASSUME IInv, UNCHANGED apiVars,
           \/ LoadCryptoInit \/ DeriveSetup \/ DeriveInput \/ DeriveOutput
           \/ \E err \in CryptoErrors : DeriveInputFails(err) \/ DeriveOutputFails(err)
    PROVE  IInv'
<1> USE DEF cryptoVars
<1>1. PICK from \in LoadSteps, to \in KdfSteps :
         Goto(from, to) /\ (to = "kdf_setup" <=> from = "crypto_init")
                        /\ (to = "kdf_salt" <=> from = "kdf_setup")
                        /\ (from \in KdfHeld <=> to \in KdfHeld \ {"kdf_salt"})
  BY DEF LoadCryptoInit, DeriveSetup, DeriveInput, DeriveOutput, DeriveInputFails,
         DeriveOutputFails, KdfNext, LoadSteps, KdfSteps, CipherSteps, KdfHeld
<1>2. spc = from /\ spc' = to
  BY <1>1 DEF Goto
<1>3. UNCHANGED <<operation, output_length, modelVars, mnist_pic, cipher_ops, keys>>
  BY DEF LoadCryptoInit, DeriveSetup, DeriveInput, DeriveOutput, DeriveInputFails,
         DeriveOutputFails, KdfSetup
<1>4. kdf_ops' = IF from = "kdf_setup" THEN kdf_ops + 1 ELSE kdf_ops
  BY <1>2 DEF LoadCryptoInit, DeriveSetup, DeriveInput, DeriveOutput, DeriveInputFails,
         DeriveOutputFails, KdfSetup, Goto, KdfNext
<1>5. kdf_ops' \in 0..OperMax
  BY <1>2, <1>4, PartTypes, CryptoConstants
     DEF LoadCryptoInit, DeriveSetup, DeriveInput, DeriveOutput, DeriveInputFails,
         DeriveOutputFails, KdfSetup, Goto, KdfNext, OperFree, CryptoTypeOK
<1>6. CryptoTypeOK'
  BY <1>3, <1>5, PartTypes DEF CryptoTypeOK
<1>7. ResInv'
  BY <1>1, <1>2, <1>3, <1>4 DEF IInv, ResInv, KdfHeld, KdfSteps, CipherSteps
<1>8. status' \in Statuses
  BY PartTypes DEF LoadCryptoInit, DeriveSetup, DeriveInput, DeriveOutput, DeriveInputFails,
         DeriveOutputFails, Statuses, Errors
<1>9. encryption_key' \in {"zero", "derived", "unspecified"}
  BY PartTypes DEF LoadCryptoInit, DeriveSetup, DeriveInput, DeriveOutput, DeriveInputFails,
         DeriveOutputFails
<1> QED BY <1>1, <1>3, <1>6, <1>7, <1>8, <1>9, PartTypes, InnerKeepsInv
        DEF modelVars, LoadSteps

\* Failures that leave the handler at once.
LEMMA EarlyFailKeepsInv ==
    ASSUME IInv, UNCHANGED apiVars,
           \/ LoadRejectHeader \/ LoadDecryptFailed \/ LoadBadPadding
           \/ \E err \in CryptoErrors : LoadCryptoInitFails(err) \/ LoadImportKeyFails(err)
    PROVE  IInv'
<1> USE DEF LoadRejectHeader, LoadDecryptFailed, LoadBadPadding, LoadCryptoInitFails, LoadImportKeyFails
<1>1. spc \in {"dispatch", "crypto_init", "import_key", "validate"}
  BY DEF Dispatch
<1>2. UNCHANGED cryptoVars /\ UNCHANGED encryption_key
  OBVIOUS
<1>3. kdf_ops' = 0 /\ cipher_ops' = 0 /\ keys' = 0
  BY <1>1, <1>2 DEF IInv, ResInv, cryptoVars, KdfHeld, CipherSteps
<1>4. PICK st \in Statuses : LoadFails(st)
  BY HeaderStatusType, PartTypes DEF Statuses, Errors
<1> QED BY <1>1, <1>2, <1>3, <1>4, LoadFailsKeepsInv

\* The ways back from derive_key_from_huk.
LEMMA DeriveFailsKeepsInv ==
    ASSUME IInv, NEW err \in Statuses, spc # "wait", DeriveFails(err), UNCHANGED apiVars,
           kdf_ops' = 0, cipher_ops' = 0, keys' = 0
    PROVE  IInv'
<1>1. CASE LoadFails("PSA_ERROR_GENERIC_ERROR") /\ UNCHANGED encryption_key
  <2>1. "PSA_ERROR_GENERIC_ERROR" \in Statuses
    BY DEF Statuses, Errors
  <2> QED BY <1>1, <2>1, LoadFailsKeepsInv
<1>2. CASE Reply(err, <<>>) /\ UNCHANGED <<modelVars, encryption_key, mnist_pic>>
  <2>1. <<>> \in OutVecs
    BY DEF OutVecs
  <2> QED BY <1>2, <2>1, PlainReplyKeepsInv
<1> QED BY <1>1, <1>2 DEF DeriveFails

LEMMA DeriveReturnKeepsInv ==
    ASSUME IInv, UNCHANGED apiVars,
           \/ DeriveReturnsError \/ DeriveReturnsToLoad \/ DeriveReturnsKey
           \/ \E err \in CryptoErrors : DeriveSetupFails(err)
    PROVE  IInv'
<1>1. spc \in {"kdf_setup", "kdf_abort"}
  BY DEF DeriveReturnsError, DeriveReturnsToLoad, DeriveReturnsKey, DeriveSetupFails, Goto
<1>2. /\ spc = "kdf_abort" => kdf_ops = 1
      /\ spc = "kdf_setup" => kdf_ops = 0
      /\ keys = 0 /\ cipher_ops = 0 /\ operation = "inactive"
  BY <1>1, PartTypes DEF IInv, ResInv, KdfHeld, CipherSteps
<1>3. kdf_ops' = 0 /\ cipher_ops' = 0 /\ keys' = 0
  BY <1>2 DEF DeriveReturnsError, DeriveReturnsToLoad, DeriveReturnsKey, DeriveSetupFails,
              Goto, KdfAbort, cryptoVars
<1>4. CASE DeriveReturnsError
  BY <1>1, <1>3, <1>4, PartTypes, DeriveFailsKeepsInv DEF DeriveReturnsError
<1>5. ASSUME NEW err \in CryptoErrors, DeriveSetupFails(err) PROVE IInv'
  <2>1. err \in Statuses
    BY DEF Statuses, Errors
  <2> QED BY <1>1, <1>3, <1>5, <2>1, DeriveFailsKeepsInv DEF DeriveSetupFails
<1>6. CASE DeriveReturnsKey
  <2>1. <<TheKey>> \in OutVecs /\ "PSA_SUCCESS" \in Statuses
    BY DEF OutVecs, Statuses, TheKey
  <2> QED BY <1>1, <1>3, <1>6, <2>1, PlainReplyKeepsInv DEF DeriveReturnsKey
<1>7. CASE DeriveReturnsToLoad
  <2>1. /\ Goto("kdf_abort", "import_key") /\ msg.type = LOAD
        /\ UNCHANGED <<status, output_length, operation, modelVars, encryption_key, mnist_pic>>
    BY <1>7 DEF DeriveReturnsToLoad
  <2>2. "kdf_abort" \in LoadSteps /\ "import_key" \in LoadSteps
    BY DEF LoadSteps, KdfSteps
  <2>3. ResInv'
    BY <1>2, <1>3, <2>1 DEF Goto, ResInv, KdfHeld, CipherSteps
  <2>4. CryptoTypeOK'
    BY <1>3, CryptoConstants DEF CryptoTypeOK
  <2> QED BY <2>1, <2>2, <2>3, <2>4, PartTypes, InnerKeepsInv DEF modelVars
<1> QED BY <1>4, <1>5, <1>6, <1>7

\* psa_cipher_update and its failure stay inside g_decrypted_model.
LEMMA OverwriteType ==
    ASSUME IInv, HeaderStatus(pkg) = "PSA_SUCCESS", NEW n \in 0..Len(pkg.plain), Overwrite(n)
    PROVE  g_decrypted_model' \in Buffer
<1>1. pkg \in Package /\ Len(pkg.plain) \in 0..MaxModelSize
  BY AcceptedFits DEF IInv, MsgInv
<1>2. pkg.plain \in Seq(Byte)
  BY <1>1 DEF Package
<1>3. \A i \in 1..MaxModelSize : i <= n => pkg.plain[i] \in Byte
  BY <1>1, <1>2, PackageConstants
<1> QED BY <1>3, PartTypes DEF Overwrite, Buffer

\* The cipher calls of decrypt_model.
LEMMA CipherStepKeepsInv ==
    ASSUME IInv, UNCHANGED apiVars,
           \/ LoadImportKey \/ LoadCipherSetup \/ LoadSetIv \/ LoadFinish
           \/ LoadCipherAbort \/ LoadDestroyKey
           \/ \E err \in CryptoErrors :
                \/ LoadCipherSetupFails(err) \/ LoadSetIvFails(err) \/ LoadFinishFails(err)
    PROVE  IInv'
<1> USE DEF cryptoVars, LoadImportKey, LoadCipherSetup, LoadSetIv, LoadFinish,
            LoadCipherAbort, LoadDestroyKey, LoadCipherSetupFails, LoadSetIvFails, LoadFinishFails
<1>1. PICK from \in LoadSteps \ KdfSteps, to \in LoadSteps : Goto(from, to)
  BY DEF LoadSteps, KdfSteps, CipherSteps
<1>2. UNCHANGED <<output_length, modelVars, encryption_key, mnist_pic>>
  OBVIOUS
<1>3. status' \in Statuses /\ operation' \in {"inactive", "active"}
  BY PartTypes DEF Statuses, Errors
<1>4. ResInv'
  BY PartTypes DEF IInv, ResInv, Goto, KdfHeld, CipherSteps, ImportKey, CipherSetup,
                   CipherRelease, DestroyKey
<1>5. CryptoTypeOK'
  BY PartTypes, CryptoConstants
     DEF IInv, ResInv, CryptoTypeOK, Goto, CipherSteps, ImportKey, CipherSetup,
         CipherRelease, DestroyKey, OperFree
<1> QED BY <1>1, <1>2, <1>3, <1>4, <1>5, PartTypes, InnerKeepsInv DEF modelVars

LEMMA UpdateKeepsInv ==
    ASSUME IInv, UNCHANGED apiVars,
           \/ LoadUpdate
           \/ \E err \in CryptoErrors, n \in 0..Len(pkg.plain) : LoadUpdateFails(err, n)
    PROVE  IInv'
<1> USE DEF LoadUpdate, LoadUpdateFails
<1>1. PICK to \in {"finish", "cipher_abort"} : Goto("update", to)
  OBVIOUS
<1>2. "update" \in LoadSteps \ KdfSteps /\ to \in LoadSteps
  BY DEF LoadSteps, KdfSteps, CipherSteps
<1>3. HeaderStatus(pkg) = "PSA_SUCCESS"
  BY <1>1, <1>2 DEF IInv, MsgInv, Goto
<1>4. Len(pkg.plain) \in 0..MaxModelSize
  BY <1>3, AcceptedFits DEF IInv, MsgInv
<1>5. g_decrypted_model' \in Buffer
  BY <1>3, <1>4, OverwriteType
<1>6. output_length' \in 0..MaxModelSize /\ status' \in Statuses
  BY <1>4, PartTypes DEF Statuses, Errors
<1>7. UNCHANGED <<operation, g_model_loaded, g_decrypted_size, encryption_key, mnist_pic, cryptoVars>>
  OBVIOUS
<1>8. ResInv' /\ CryptoTypeOK'
  BY <1>1, <1>7, PartTypes DEF IInv, ResInv, Goto, cryptoVars, KdfHeld, CipherSteps, CryptoTypeOK
<1> QED BY <1>1, <1>2, <1>5, <1>6, <1>7, <1>8, PartTypes, InnerKeepsInv

\* What PKCS#7 removal leaves is a size of the buffer.
LEMMA UnpaddedSizeType ==
    ASSUME NEW buf \in Buffer, NEW len \in 0..MaxModelSize, PaddingValid(buf, len)
    PROVE  /\ UnpaddedSize(buf, len) \in 0..MaxModelSize
           /\ len \in 1..MaxModelSize
           /\ buf[len] \in 1..BlockSize
  BY PackageConstants DEF PaddingValid, UnpaddedSize, Buffer, Byte

LEMMA LoadFinalKeepsInv ==
    ASSUME IInv, LoadFinal, UNCHANGED apiVars
    PROVE  IInv'
<1>1. spc = "validate" /\ UNCHANGED <<g_decrypted_model, encryption_key, mnist_pic, cryptoVars>>
  BY DEF LoadFinal
<1>2. kdf_ops' = 0 /\ cipher_ops' = 0 /\ keys' = 0
  BY <1>1 DEF IInv, ResInv, cryptoVars, KdfHeld, CipherSteps
<1>3. g_decrypted_size' \in 0..MaxModelSize
  BY PartTypes, UnpaddedSizeType DEF LoadFinal
<1>4. g_model_loaded' \in BOOLEAN
  BY DEF LoadFinal
<1>5. <<>> \in OutVecs /\ <<0>> \in OutVecs
  BY DEF OutVecs, TheKey
<1>6. PICK st \in Statuses, out \in OutVecs : Reply(st, out)
  <2>1. "PSA_SUCCESS" \in Statuses /\ "PSA_ERROR_GENERIC_ERROR" \in Statuses
    BY DEF Statuses, Errors
  <2>2. \/ Reply("PSA_SUCCESS", <<0>>) \/ Reply("PSA_SUCCESS", <<>>)
        \/ Reply("PSA_ERROR_GENERIC_ERROR", <<>>)
    BY DEF LoadFinal
  <2> QED BY <1>5, <2>1, <2>2
<1> QED BY <1>1, <1>2, <1>3, <1>4, <1>6, PartTypes, ReplyKeepsInv

LEMMA ReadImageType ==
    ASSUME IInv, spc = "dispatch", NEW n \in 0..ImageSize,
           Len(msg.in_vec) = ImageSize, ReadImage(n)
    PROVE  mnist_pic' \in Pictures
<1>1. msg.in_vec \in Seq(Pixel)
  BY DEF IInv, MsgInv, Messages
<1>2. \A i \in 1..ImageSize : i <= n => msg.in_vec[i] \in Pixel
  BY <1>1
<1> QED BY <1>2, PartTypes DEF ReadImage, Pictures

LEMMA RunKeepsInv ==
    ASSUME IInv, Run, UNCHANGED apiVars
    PROVE  IInv'
<1>1. spc = "dispatch"
  BY DEF Run, RunNotLoaded, RunBadSize, RunEngineFails, RunInference, RunShortRead,
         SelectImage, Dispatch
<1>2. UNCHANGED <<modelVars, encryption_key, cryptoVars>>
  BY DEF Run, RunNotLoaded, RunBadSize, RunEngineFails, RunInference, RunShortRead, RunFails
<1>3. kdf_ops' = 0 /\ cipher_ops' = 0 /\ keys' = 0
  BY <1>1, <1>2 DEF IInv, ResInv, cryptoVars, KdfHeld, CipherSteps
<1>4. ImageSize \in Nat
  BY PartitionConstants
<1>5. mnist_pic' \in Pictures
  <2>1. CASE SelectImage
    BY <1>1, <1>4, <2>1, ReadImageType, PartTypes DEF SelectImage
  <2>2. CASE RunNotLoaded \/ RunBadSize
    BY <2>2, PartTypes DEF RunNotLoaded, RunBadSize
  <2>3. ASSUME NEW n \in 0..(ImageSize - 1), RunShortRead(n) PROVE mnist_pic' \in Pictures
    BY <1>1, <1>4, <2>3, ReadImageType DEF RunShortRead
  <2> QED BY <2>1, <2>2, <2>3 DEF Run, RunEngineFails, RunInference
<1>6. PICK st \in Statuses, out \in OutVecs : Reply(st, out)
  <2>1. <<>> \in OutVecs /\ {"PSA_SUCCESS", "PSA_ERROR_BAD_STATE", "PSA_ERROR_INVALID_ARGUMENT",
           "PSA_ERROR_COMMUNICATION_FAILURE", "PSA_ERROR_GENERIC_ERROR"} \subseteq Statuses
    BY DEF OutVecs, Statuses, Errors
  <2>2. \A r \in Results(pkg, mnist_pic') : <<r>> \in OutVecs
    <3>1. Results(pkg, mnist_pic') \subseteq -1..9
      BY <1>5, PartitionConstants DEF Results
    <3> QED BY <3>1 DEF OutVecs, TheKey
  <2>3. CASE RunInference
    BY <2>1, <2>2, <2>3 DEF RunInference
  <2>4. CASE RunNotLoaded \/ RunBadSize \/ RunEngineFails \/ \E n \in 0..(ImageSize - 1) : RunShortRead(n)
    BY <2>1, <2>4 DEF RunNotLoaded, RunBadSize, RunEngineFails, RunShortRead, RunFails
  <2> QED BY <2>3, <2>4 DEF Run
<1> QED BY <1>1, <1>2, <1>3, <1>5, <1>6, PartTypes, ReplyKeepsInv DEF modelVars

LEMMA PartitionKeepsInv ==
    ASSUME IInv, Partition
    PROVE  IInv'
<1> USE DEF Partition
<1>1. CASE GetMessage
  BY <1>1, GetMessageKeepsInv
<1>2. CASE ServeConnection \/ ServeUnsupported
  BY <1>2, ServeKeepsInv
<1>3. CASE Load
  BY <1>3, BeginKeepsInv, DeriveStepKeepsInv, EarlyFailKeepsInv, CipherStepKeepsInv,
     UpdateKeepsInv, LoadFinalKeepsInv DEF Load
<1>4. CASE Derive
  BY <1>4, ServeKeepsInv, BeginKeepsInv, DeriveStepKeepsInv, DeriveReturnKeepsInv DEF Derive
<1>5. CASE Run
  BY <1>5, RunKeepsInv
<1>6. ASSUME NEW err \in CryptoErrors, CryptoFailure(err) PROVE IInv'
  BY <1>6, EarlyFailKeepsInv, DeriveReturnKeepsInv, DeriveStepKeepsInv,
     CipherStepKeepsInv, UpdateKeepsInv DEF CryptoFailure
<1> QED BY <1>1, <1>2, <1>3, <1>4, <1>5, <1>6 DEF PartNext

\* A step that changes nothing.
LEMMA StutterKeepsInv ==
    ASSUME IInv, UNCHANGED vars
    PROVE  IInv'
<1> USE DEF vars, ipcVars, apiVars
<1>1. CryptoTypeOK' /\ PartTypeOK' /\ ResInv' /\ MsgInv'
  BY PartUnchanged
<1>2. IpcOK' /\ ApiTypeOK' /\ ApiInv'
  BY DEF IInv, TypeOK, IpcOK, IpcTypeOK, ApiTypeOK, ApiInv
<1> QED BY <1>1, <1>2 DEF IInv, TypeOK, ApiTypeOK, IpcOK

-----------------------------------------------------------------------------
\* IInv is inductive: it holds in every state the system can reach.
THEOREM Invariance == Spec => []IInv
<1>1. Init => IInv
  BY InitInv
<1>2. IInv /\ [Next]_vars => IInv'
  BY PartitionKeepsInv, ClientKeepsInv, StutterKeepsInv DEF Next
<1> QED BY <1>1, <1>2, PTL DEF Spec

\* Every variable of the partition, the connections and the API functions
\* keeps its type whatever the clients call and whichever crypto call fails:
\* output_length and g_decrypted_size never leave the buffer, and the
\* counters of held operations and keys never leave their pools.
THEOREM TypeCorrect == Spec => []TypeOK
<1>1. IInv => TypeOK
  BY DEF IInv
<1> QED BY <1>1, Invariance, PTL

\* Whichever call of decrypt_model or derive_key_from_huk fails, what was
\* acquired is released before the partition answers, and at most one
\* operation and one key are held at a time.
THEOREM NoLeak == Spec => []ResourcesReleased
<1>1. IInv => ResourcesReleased
  BY DEF IInv, ResInv, ResourcesReleased, KdfHeld, CipherSteps
<1> QED BY <1>1, Invariance, PTL

-----------------------------------------------------------------------------
(* The key.                                                                *)

\* Once derive_key_from_huk has returned success to decrypt_model, and until
\* the imported key is destroyed, encryption_key is what it derived.
KeyInv ==
    /\ spc = "kdf_abort" /\ status = "PSA_SUCCESS" /\ msg.type = LOAD
          => encryption_key = "derived"
    /\ spc \in {"import_key"} \cup CipherSteps => encryption_key = "derived"

LEMMA WaitingKeepsKeyInv == ASSUME spc' \in {"wait", "dispatch", "crypto_init", "kdf_setup", "validate"}
                            PROVE  KeyInv'
  BY DEF KeyInv, CipherSteps

\* Every answer ends in psa_wait.
LEMMA AnswersWait ==
    ASSUME \/ ServeConnection \/ ServeUnsupported \/ KeyBufferTooSmall \/ Run
           \/ LoadRejectHeader \/ LoadDecryptFailed \/ LoadBadPadding \/ LoadFinal
           \/ DeriveReturnsError \/ DeriveReturnsKey
           \/ \E err \in CryptoErrors : \/ LoadCryptoInitFails(err) \/ LoadImportKeyFails(err)
                                        \/ DeriveSetupFails(err)
    PROVE  spc' = "wait"
<1>1. ASSUME NEW st, NEW out, Reply(st, out) PROVE spc' = "wait"
  BY <1>1 DEF Reply
<1>2. ASSUME NEW st, LoadFails(st) \/ RunFails(st) \/ DeriveFails(st) PROVE spc' = "wait"
  BY <1>2, <1>1 DEF LoadFails, RunFails, DeriveFails
<1>3. CASE Run
  BY <1>1, <1>2, <1>3 DEF Run, RunNotLoaded, RunBadSize, RunEngineFails, RunInference, RunShortRead
<1>4. CASE LoadFinal
  BY <1>1, <1>4 DEF LoadFinal
<1> QED BY <1>1, <1>2, <1>3, <1>4
        DEF ServeConnection, ServeUnsupported, KeyBufferTooSmall, LoadRejectHeader,
            LoadDecryptFailed, LoadBadPadding, DeriveReturnsError, DeriveReturnsKey,
            LoadCryptoInitFails, LoadImportKeyFails, DeriveSetupFails

LEMMA PartitionKeepsKeyInv ==
    ASSUME KeyInv, Partition
    PROVE  KeyInv'
<1> USE DEF KeyInv, Goto, CipherSteps
<1>1. CASE spc' \in {"wait", "dispatch", "crypto_init", "kdf_setup", "validate"}
  BY <1>1, WaitingKeepsKeyInv
<1>2. CASE DeriveSetup \/ DeriveInput
  BY <1>2 DEF DeriveSetup, DeriveInput, KdfNext
<1>3. CASE DeriveOutput \/ DeriveReturnsToLoad
  BY <1>3 DEF DeriveOutput, DeriveReturnsToLoad
<1>4. ASSUME NEW err \in CryptoErrors, DeriveInputFails(err) \/ DeriveOutputFails(err)
      PROVE  KeyInv'
  BY <1>4 DEF DeriveInputFails, DeriveOutputFails, CryptoErrors
<1>5. CASE \/ LoadImportKey \/ LoadCipherSetup \/ LoadSetIv \/ LoadUpdate
           \/ LoadFinish \/ LoadCipherAbort
  BY <1>5 DEF LoadImportKey, LoadCipherSetup, LoadSetIv, LoadUpdate, LoadFinish, LoadCipherAbort
<1>6. ASSUME NEW err \in CryptoErrors,
             \/ LoadCipherSetupFails(err) \/ LoadSetIvFails(err) \/ LoadFinishFails(err)
             \/ \E n \in 0..Len(pkg.plain) : LoadUpdateFails(err, n)
      PROVE  KeyInv'
  BY <1>6 DEF LoadCipherSetupFails, LoadSetIvFails, LoadFinishFails, LoadUpdateFails
<1>7. CASE GetMessage \/ LoadBegin \/ LoadCryptoInit \/ KeyBegin \/ LoadDestroyKey
  BY <1>1, <1>7 DEF GetMessage, LoadBegin, LoadCryptoInit, KeyBegin, LoadDestroyKey
<1>8. CASE Load
  BY <1>1, <1>5, <1>7, <1>8, AnswersWait DEF Load
<1>9. CASE Derive
  BY <1>1, <1>2, <1>3, <1>7, <1>9, AnswersWait DEF Derive
<1>10. ASSUME NEW err \in CryptoErrors, CryptoFailure(err) PROVE KeyInv'
  BY <1>1, <1>4, <1>6, <1>10, AnswersWait DEF CryptoFailure
<1> QED BY <1>1, <1>7, <1>8, <1>9, <1>10, AnswersWait DEF Partition, PartNext

\* decrypt_model never imports, and so never decrypts under, the zeros
\* encryption_key starts as or what a failed derivation left there, however
\* loads and key requests of different clients follow each other.
THEOREM KeyDerived == Spec => []DecryptsWithDerivedKey
<1>1. Init => KeyInv
  BY DEF Init, PartInit, KeyInv, CipherSteps
<1>2. KeyInv /\ [Next]_vars => KeyInv'
  <2>1. ASSUME KeyInv, UNCHANGED partVars PROVE KeyInv'
    BY <2>1 DEF KeyInv, partVars, localVars
  <2> QED BY <2>1, PartitionKeepsKeyInv DEF Next, Client, vars
<1>3. IInv /\ KeyInv => DecryptsWithDerivedKey
  BY DEF IInv, ResInv, KeyInv, DecryptsWithDerivedKey
<1> QED BY <1>1, <1>2, <1>3, Invariance, PTL DEF Spec

-----------------------------------------------------------------------------
(* The model.                                                              *)

\* Beyond the plaintext, whose place never changes, the static buffer keeps
\* its initial zeros: earlier loads leave nothing there.
ZeroInv == \A i \in 1..MaxModelSize : i > Len(pkg.plain) => g_decrypted_model[i] = 0

\* Only the update writes the buffer.
Updates == \/ LoadUpdate
           \/ \E err \in CryptoErrors, n \in 0..Len(pkg.plain) : LoadUpdateFails(err, n)

LEMMA OnlyUpdateWrites ==
    ASSUME PartNext
    PROVE  UNCHANGED pkg /\ (UNCHANGED g_decrypted_model \/ Updates)
<1> DEFINE Same == UNCHANGED <<pkg, g_decrypted_model>>
<1> USE DEF Goto, Reply, modelVars, LoadFails, RunFails, DeriveFails
<1>1. GetMessage \/ ServeConnection \/ ServeUnsupported => Same
  BY DEF GetMessage, ServeConnection, ServeUnsupported
<1>2. Run => Same
  BY DEF Run, RunNotLoaded, RunBadSize, RunEngineFails, RunInference, RunShortRead
<1>3. KeyBufferTooSmall \/ KeyBegin \/ DeriveSetup \/ DeriveInput \/ DeriveOutput => Same
  BY DEF KeyBufferTooSmall, KeyBegin, DeriveSetup, DeriveInput, DeriveOutput
<1>4. DeriveReturnsError \/ DeriveReturnsToLoad \/ DeriveReturnsKey => Same
  BY DEF DeriveReturnsError, DeriveReturnsToLoad, DeriveReturnsKey
<1>5. LoadRejectHeader \/ LoadBegin \/ LoadCryptoInit \/ LoadImportKey \/ LoadCipherSetup
      \/ LoadSetIv => Same
  BY DEF LoadRejectHeader, LoadBegin, LoadCryptoInit, LoadImportKey, LoadCipherSetup, LoadSetIv
<1>6. LoadFinish \/ LoadCipherAbort \/ LoadDestroyKey \/ LoadDecryptFailed \/ LoadBadPadding
      \/ LoadFinal => Same
  BY DEF LoadFinish, LoadCipherAbort, LoadDestroyKey, LoadDecryptFailed, LoadBadPadding, LoadFinal
<1>7. ASSUME NEW err, \/ LoadCryptoInitFails(err) \/ DeriveSetupFails(err) \/ DeriveInputFails(err)
                      \/ DeriveOutputFails(err) \/ LoadImportKeyFails(err)
      PROVE  Same
  BY <1>7 DEF LoadCryptoInitFails, DeriveSetupFails, DeriveInputFails, DeriveOutputFails,
              LoadImportKeyFails
<1>8. ASSUME NEW err, LoadCipherSetupFails(err) \/ LoadSetIvFails(err) \/ LoadFinishFails(err)
      PROVE  Same
  BY <1>8 DEF LoadCipherSetupFails, LoadSetIvFails, LoadFinishFails
<1>9. Updates => UNCHANGED pkg
  BY DEF Updates, LoadUpdate, LoadUpdateFails
<1>10. ASSUME Updates PROVE UNCHANGED pkg /\ (UNCHANGED g_decrypted_model \/ Updates)
  BY <1>9, <1>10
<1>11. LoadUpdate => Updates
  BY DEF Updates
<1>12. ASSUME NEW err \in CryptoErrors, CryptoFailure(err) PROVE Same \/ Updates
  BY <1>7, <1>8, <1>12 DEF CryptoFailure, Updates
<1> HIDE DEF Same
<1>13. Same \/ Updates
  BY <1>1, <1>2, <1>3, <1>4, <1>5, <1>6, <1>11, <1>12 DEF PartNext, Load, Derive
<1> QED BY <1>10, <1>13 DEF Same

\* It writes the plaintext's part of it.
LEMMA WritesPlaintextOnly ==
    ASSUME IInv, ZeroInv, PartNext
    PROVE  ZeroInv'
<1>1. UNCHANGED pkg
  BY OnlyUpdateWrites
<1>2. Len(pkg.plain) \in Nat
  BY PartTypes DEF IInv, Package
<1>3. CASE Updates
  <2>1. PICK n \in 0..Len(pkg.plain) : Overwrite(n)
    BY <1>2, <1>3 DEF Updates, LoadUpdate, LoadUpdateFails
  <2> QED BY <1>1, <1>2, <2>1 DEF ZeroInv, Overwrite
<1>4. CASE UNCHANGED g_decrypted_model
  BY <1>1, <1>4 DEF ZeroInv
<1> QED BY <1>3, <1>4, OnlyUpdateWrites

THEOREM ZerosBeyond == Spec => []ZeroInv
<1>1. Init => ZeroInv
  BY DEF Init, PartInit, ZeroInv
<1>2. IInv /\ ZeroInv /\ [Next]_vars => ZeroInv'
  <2>1. ASSUME ZeroInv, UNCHANGED partVars PROVE ZeroInv'
    BY <2>1 DEF ZeroInv, partVars, modelVars
  <2> QED BY <2>1, WritesPlaintextOnly DEF Next, Partition, Client, vars
<1> QED BY <1>1, <1>2, Invariance, PTL DEF Spec

\* The whole ciphertext has been decrypted into the buffer.
Decrypted ==
    /\ output_length = Len(pkg.plain)
    /\ \A i \in 1..Len(pkg.plain) : g_decrypted_model[i] = pkg.plain[i]

LateSteps == {"cipher_abort", "destroy_key", "validate"}

BufInv ==
    /\ spc = "finish" => Decrypted
    /\ spc \in LateSteps /\ status = "PSA_SUCCESS"
          => Decrypted /\ CiphertextSize % BlockSize = 0
    /\ LoadedModelIntact

\* A step that leaves the model alone outside a load, or during one.
LEMMA SameModelIntact ==
    ASSUME LoadedModelIntact, UNCHANGED <<pkg, modelVars>>, Loading => Loading'
    PROVE  LoadedModelIntact'
  BY DEF LoadedModelIntact, modelVars

LEMMA WaitKeepsBufInv ==
    ASSUME spc' \in {"wait", "dispatch"}, LoadedModelIntact'
    PROVE  BufInv'
  BY DEF BufInv, LateSteps

\* The failure branch drops the model: nothing to show.
LEMMA LoadFailsKeepsBufInv ==
    ASSUME NEW st, LoadFails(st)
    PROVE  BufInv'
<1>1. spc' = "wait" /\ g_model_loaded' = FALSE
  BY DEF LoadFails, Reply
<1> QED BY <1>1, WaitKeepsBufInv DEF LoadedModelIntact

\* An answer to anything but a load leaves the model alone.
LEMMA OtherReplyKeepsBufInv ==
    ASSUME BufInv, ~Loading, NEW st, NEW out, Reply(st, out), UNCHANGED modelVars
    PROVE  BufInv'
<1>1. spc' = "wait" /\ UNCHANGED pkg
  BY DEF Reply
<1>2. LoadedModelIntact'
  BY <1>1, SameModelIntact DEF BufInv
<1> QED BY <1>1, <1>2, WaitKeepsBufInv

LEMMA AnswerKeepsBufInv ==
    ASSUME IInv, BufInv,
           \/ ServeConnection \/ ServeUnsupported \/ KeyBufferTooSmall \/ Run
           \/ LoadRejectHeader \/ LoadDecryptFailed \/ LoadBadPadding
           \/ DeriveReturnsError \/ DeriveReturnsKey
           \/ \E err \in CryptoErrors : \/ LoadCryptoInitFails(err) \/ LoadImportKeyFails(err)
                                        \/ DeriveSetupFails(err)
    PROVE  BufInv'
<1>1. spc = "dispatch" => ~Loading
  BY DEF Loading, LoadSteps, KdfSteps, CipherSteps
<1>2. msg.type = KEY => ~Loading
  BY DEF Loading, LOAD, KEY
<1>3. ASSUME NEW st, DeriveFails(st) PROVE BufInv'
  BY <1>2, <1>3, LoadFailsKeepsBufInv, OtherReplyKeepsBufInv DEF DeriveFails
<1>4. CASE Run
  <2>1. spc = "dispatch" /\ UNCHANGED modelVars
    BY <1>4 DEF Run, RunNotLoaded, RunBadSize, RunEngineFails, RunInference, RunShortRead,
                SelectImage, Dispatch, RunFails
  <2>2. \E st, out : Reply(st, out)
    BY <1>4 DEF Run, RunNotLoaded, RunBadSize, RunEngineFails, RunInference, RunShortRead, RunFails
  <2> QED BY <1>1, <2>1, <2>2, OtherReplyKeepsBufInv
<1>5. CASE ServeConnection \/ ServeUnsupported \/ KeyBufferTooSmall
  BY <1>1, <1>5, OtherReplyKeepsBufInv
     DEF ServeConnection, ServeUnsupported, KeyBufferTooSmall, Dispatch
<1>6. CASE DeriveReturnsKey
  BY <1>2, <1>6, OtherReplyKeepsBufInv DEF DeriveReturnsKey
<1>7. CASE DeriveReturnsError \/ \E err \in CryptoErrors : DeriveSetupFails(err)
  BY <1>3, <1>7 DEF DeriveReturnsError, DeriveSetupFails
<1>8. CASE \/ LoadRejectHeader \/ LoadDecryptFailed \/ LoadBadPadding
           \/ \E err \in CryptoErrors : LoadCryptoInitFails(err) \/ LoadImportKeyFails(err)
  BY <1>8, LoadFailsKeepsBufInv
     DEF LoadRejectHeader, LoadDecryptFailed, LoadBadPadding, LoadCryptoInitFails, LoadImportKeyFails
<1> QED BY <1>4, <1>5, <1>6, <1>7, <1>8

\* Steps inside a handler that do not touch the buffer.
LEMMA InnerKeepsBufInv ==
    ASSUME BufInv, NEW from, NEW to, Goto(from, to), UNCHANGED modelVars,
           from \in LoadSteps => to \in LoadSteps,
           \/ to \notin LateSteps \cup {"finish"}
           \/ status' # "PSA_SUCCESS" /\ to # "finish"
           \/ UNCHANGED <<status, output_length>> /\ from \in LateSteps /\ to \in LateSteps
           \/ /\ UNCHANGED <<status, output_length>> /\ from = "finish" /\ to \in LateSteps
              /\ CiphertextSize % BlockSize = 0
    PROVE  BufInv'
<1>1. spc = from /\ spc' = to /\ UNCHANGED <<pkg, msg>>
  BY DEF Goto
<1>2. Loading => Loading'
  BY <1>1 DEF Loading
<1>3. LoadedModelIntact'
  BY <1>1, <1>2, SameModelIntact DEF BufInv
<1>4. UNCHANGED output_length => (Decrypted <=> Decrypted')
  BY <1>1 DEF Decrypted, modelVars
<1>5. CiphertextSize' = CiphertextSize
  BY <1>1 DEF CiphertextSize
<1> QED BY <1>1, <1>3, <1>4, <1>5 DEF BufInv, LateSteps

LEMMA HandlerKeepsBufInv ==
    ASSUME BufInv,
           \/ LoadBegin \/ KeyBegin \/ LoadCryptoInit \/ DeriveSetup \/ DeriveInput
           \/ DeriveOutput \/ DeriveReturnsToLoad \/ LoadImportKey \/ LoadCipherSetup
           \/ LoadSetIv \/ LoadFinish \/ LoadCipherAbort \/ LoadDestroyKey
           \/ \E err \in CryptoErrors :
                \/ DeriveInputFails(err) \/ DeriveOutputFails(err) \/ LoadCipherSetupFails(err)
                \/ LoadSetIvFails(err) \/ LoadFinishFails(err)
    PROVE  BufInv'
<1> USE InnerKeepsBufInv DEF LateSteps, LoadSteps, KdfSteps, CipherSteps
<1>1. CASE LoadBegin \/ KeyBegin \/ LoadCryptoInit
  BY <1>1 DEF LoadBegin, KeyBegin, LoadCryptoInit
<1>2. CASE DeriveSetup \/ DeriveInput
  BY <1>2 DEF DeriveSetup, DeriveInput, KdfNext
<1>3. CASE DeriveOutput \/ DeriveReturnsToLoad
  BY <1>3 DEF DeriveOutput, DeriveReturnsToLoad
<1>4. CASE LoadImportKey \/ LoadCipherSetup \/ LoadSetIv
  BY <1>4 DEF LoadImportKey, LoadCipherSetup, LoadSetIv
<1>5. CASE LoadFinish
  BY <1>5 DEF LoadFinish
<1>6. CASE LoadCipherAbort \/ LoadDestroyKey
  BY <1>6 DEF LoadCipherAbort, LoadDestroyKey
<1>7. ASSUME NEW err \in CryptoErrors, DeriveInputFails(err) \/ DeriveOutputFails(err)
      PROVE  BufInv'
  BY <1>7 DEF DeriveInputFails, DeriveOutputFails, KdfNext
<1>8. ASSUME NEW err \in CryptoErrors,
             LoadCipherSetupFails(err) \/ LoadSetIvFails(err) \/ LoadFinishFails(err)
      PROVE  BufInv'
  BY <1>8 DEF LoadCipherSetupFails, LoadSetIvFails, LoadFinishFails, CryptoErrors
<1> QED BY <1>1, <1>2, <1>3, <1>4, <1>5, <1>6, <1>7, <1>8

LEMMA UpdateKeepsBufInv ==
    ASSUME IInv, BufInv,
           \/ LoadUpdate
           \/ \E err \in CryptoErrors, n \in 0..Len(pkg.plain) : LoadUpdateFails(err, n)
    PROVE  BufInv'
<1> USE DEF LoadUpdate, LoadUpdateFails
<1>1. PICK to \in {"finish", "cipher_abort"} : Goto("update", to)
  OBVIOUS
<1>2. msg.type = LOAD /\ HeaderStatus(pkg) = "PSA_SUCCESS"
  BY <1>1 DEF IInv, MsgInv, Goto, LoadSteps, KdfSteps, CipherSteps
<1>3. LoadedModelIntact'
  BY <1>1, <1>2 DEF LoadedModelIntact, Loading, Goto, LoadSteps, CipherSteps
<1>4. CASE LoadUpdate
  <2>1. Len(pkg.plain) \in 0..MaxModelSize
    BY <1>2, AcceptedFits DEF IInv, MsgInv
  <2>2. Decrypted'
    BY <1>1, <1>4, <2>1, PackageConstants DEF Decrypted, Overwrite, Goto
  <2>3. spc' = "finish"
    BY <1>4 DEF Goto
  <2> QED BY <1>3, <2>2, <2>3 DEF BufInv, LateSteps
<1>5. ASSUME NEW err \in CryptoErrors, NEW n \in 0..Len(pkg.plain), LoadUpdateFails(err, n)
      PROVE  BufInv'
  <2>1. spc' = "cipher_abort" /\ status' # "PSA_SUCCESS"
    BY <1>5 DEF Goto, CryptoErrors
  <2> QED BY <1>3, <2>1 DEF BufInv
<1> QED BY <1>4, <1>5

\* The heart of it: all the checks have been made on the bytes decrypted by
\* this very load.
LEMMA LoadFinalKeepsBufInv ==
    ASSUME IInv, ZeroInv, BufInv, LoadFinal
    PROVE  BufInv'
<1>1. spc = "validate" /\ status = "PSA_SUCCESS" /\ UNCHANGED <<pkg, g_decrypted_model>>
  BY DEF LoadFinal, Reply
<1>2. Decrypted /\ CiphertextSize % BlockSize = 0
  BY <1>1 DEF BufInv, LateSteps
<1>3. spc' = "wait"
  BY AnswersWait
<1>4. HeaderStatus(pkg) = "PSA_SUCCESS" /\ pkg \in Packages
  BY <1>1 DEF IInv, MsgInv, LoadSteps, KdfSteps
<1>5. pkg \in Package /\ WellFormed(pkg) /\ Len(pkg.plain) <= MaxModelSize
  BY <1>4, AcceptedFits, PartitionConstants, PackageConstants
<1>6. ASSUME g_model_loaded'
      PROVE  /\ Genuine(pkg) /\ g_decrypted_size' = pkg.original_size
             /\ TmLoad(g_decrypted_model) = "TM_OK"
  <2>1. /\ PaddingValid(g_decrypted_model, Len(pkg.plain))
        /\ ContentValid(g_decrypted_model, UnpaddedSize(g_decrypted_model, Len(pkg.plain)),
                        pkg.original_size)
        /\ TmLoad(g_decrypted_model) = "TM_OK"
        /\ g_decrypted_size' = UnpaddedSize(g_decrypted_model, Len(pkg.plain))
    BY <1>2, <1>6 DEF LoadFinal, Decrypted
  <2>2. Genuine(pkg)
    BY <1>2, <1>4, <1>5, <2>1, PartTypes, AcceptedIsGenuine DEF Decrypted, CiphertextSize
  <2> QED BY <2>1, <2>2 DEF ContentValid
<1>7. \A i \in 1..MaxModelSize :
         g_decrypted_model[i] = IF i <= Len(pkg.plain) THEN pkg.plain[i] ELSE 0
  BY <1>2, <1>5 DEF Decrypted, ZeroInv, Package
<1>8. LoadedModelIntact'
  BY <1>1, <1>6, <1>7 DEF LoadedModelIntact
<1> QED BY <1>3, <1>8, WaitKeepsBufInv

LEMMA PartitionKeepsBufInv ==
    ASSUME IInv, ZeroInv, BufInv, Partition
    PROVE  BufInv'
<1>1. CASE GetMessage
  <2>1. spc' = "dispatch" /\ ~Loading /\ UNCHANGED <<pkg, modelVars>>
    BY <1>1 DEF GetMessage, Loading, LoadSteps, KdfSteps, CipherSteps
  <2> QED BY <2>1, SameModelIntact, WaitKeepsBufInv DEF BufInv
<1>2. CASE Load
  BY <1>2, AnswerKeepsBufInv, HandlerKeepsBufInv, UpdateKeepsBufInv, LoadFinalKeepsBufInv DEF Load
<1>3. CASE Derive
  BY <1>3, AnswerKeepsBufInv, HandlerKeepsBufInv DEF Derive
<1>4. ASSUME NEW err \in CryptoErrors, CryptoFailure(err) PROVE BufInv'
  BY <1>4, AnswerKeepsBufInv, HandlerKeepsBufInv, UpdateKeepsBufInv DEF CryptoFailure
<1> QED BY <1>1, <1>2, <1>3, <1>4, AnswerKeepsBufInv DEF Partition, PartNext

\* Inference only ever runs on the whole plaintext of a package that the
\* encryptor made, accepted by the engine and followed by zeros: whatever
\* calls fail in whatever order, a buffer that a failed load has partly
\* overwritten, or whose padding, size or magic was rejected, is not marked
\* as loaded.  How short the encryptor's model may have been, Genuine says.
THEOREM ModelIntact == Spec => []LoadedModelIntact
<1>1. Init => BufInv
  BY DEF Init, PartInit, BufInv, LateSteps, LoadedModelIntact
<1>2. IInv /\ ZeroInv /\ BufInv /\ [Next]_vars => BufInv'
  <2>1. ASSUME BufInv, UNCHANGED partVars PROVE BufInv'
    <3>1. UNCHANGED <<pkg, spc, msg, status, output_length, modelVars>>
      BY <2>1 DEF partVars, localVars
    <3>2. LoadedModelIntact'
      BY <2>1, <3>1, SameModelIntact DEF BufInv, Loading
    <3>3. (Decrypted <=> Decrypted') /\ CiphertextSize' = CiphertextSize
      BY <3>1 DEF Decrypted, modelVars, CiphertextSize
    <3> QED BY <2>1, <3>1, <3>2, <3>3 DEF BufInv
  <2> QED BY <2>1, PartitionKeepsBufInv DEF Next, Client, vars
<1>3. BufInv => LoadedModelIntact
  BY DEF BufInv
<1> QED BY <1>1, <1>2, <1>3, Invariance, ZerosBeyond, PTL DEF Spec

-----------------------------------------------------------------------------
(* The messages.                                                           *)

\* The message in hand is the one the SPM is waiting for an answer to.
LinkInv == IF spc = "wait" THEN Free ELSE serving = msg.client /\ serving \in Clients

\* A step of the partition takes a message, answers the one in hand, or leaves
\* all messages alone and goes on with it.
LEMMA TakesAnswersOrGoesOn ==
    ASSUME IInv, PartNext
    PROVE  \/ GetMessage
           \/ spc # "wait" /\ \E st \in Statuses : \E out : Reply(st, out)
           \/ spc # "wait" /\ spc' # "wait" /\ UNCHANGED <<ipcVars, msg>>
<1> DEFINE Answers == spc # "wait" /\ \E st \in Statuses : \E out : Reply(st, out)
           GoesOn == spc # "wait" /\ spc' # "wait" /\ UNCHANGED <<ipcVars, msg>>
<1>1. /\ {"PSA_SUCCESS", "PSA_ERROR_GENERIC_ERROR", "PSA_ERROR_NOT_SUPPORTED",
          "PSA_ERROR_BUFFER_TOO_SMALL", "PSA_ERROR_BAD_STATE", "PSA_ERROR_INVALID_ARGUMENT",
          "PSA_ERROR_COMMUNICATION_FAILURE"} \subseteq Statuses
      /\ CryptoErrors \subseteq Statuses
  BY DEF Statuses, Errors
<1>2. ASSUME NEW from, NEW to, Goto(from, to), from # "wait", to # "wait" PROVE GoesOn
  BY <1>2 DEF Goto
<1>3. ASSUME NEW st \in Statuses, spc # "wait", LoadFails(st) \/ RunFails(st) \/ DeriveFails(st)
      PROVE  Answers
  BY <1>1, <1>3 DEF LoadFails, RunFails, DeriveFails
<1> HIDE DEF GoesOn
<1>4. CASE ServeConnection \/ ServeUnsupported \/ KeyBufferTooSmall
  BY <1>1, <1>4 DEF ServeConnection, ServeUnsupported, KeyBufferTooSmall, Dispatch
<1>5. CASE Run
  <2>1. CASE RunInference
    BY <1>1, <2>1 DEF RunInference, SelectImage, Dispatch
  <2>2. CASE RunNotLoaded \/ RunBadSize \/ RunEngineFails \/ \E n \in 0..(ImageSize - 1) : RunShortRead(n)
    BY <1>1, <1>3, <2>2 DEF RunNotLoaded, RunBadSize, RunEngineFails, RunShortRead, SelectImage, Dispatch
  <2> QED BY <1>5, <2>1, <2>2 DEF Run
<1>6. CASE LoadFinal
  BY <1>1, <1>6 DEF LoadFinal
<1>7. ASSUME \/ LoadRejectHeader \/ LoadDecryptFailed \/ LoadBadPadding
             \/ \E err \in CryptoErrors : LoadCryptoInitFails(err) \/ LoadImportKeyFails(err)
      PROVE  Answers
  <2>1. PICK st \in Statuses : LoadFails(st)
    BY <1>1, <1>7, HeaderStatusType, PartTypes
       DEF LoadRejectHeader, LoadDecryptFailed, LoadBadPadding, LoadCryptoInitFails, LoadImportKeyFails
  <2>2. spc # "wait"
    BY <1>7 DEF LoadRejectHeader, LoadDecryptFailed, LoadBadPadding, LoadCryptoInitFails,
                LoadImportKeyFails, Dispatch
  <2> QED BY <1>3, <2>1, <2>2
<1>8. ASSUME \/ DeriveReturnsError \/ DeriveReturnsKey \/ \E err \in CryptoErrors : DeriveSetupFails(err)
      PROVE  Answers
  BY <1>1, <1>3, <1>8, PartTypes DEF DeriveReturnsError, DeriveReturnsKey, DeriveSetupFails
<1>9. ASSUME \/ LoadBegin \/ KeyBegin \/ LoadCryptoInit \/ DeriveSetup \/ DeriveInput \/ DeriveOutput
             \/ DeriveReturnsToLoad
             \/ \E err \in CryptoErrors : DeriveInputFails(err) \/ DeriveOutputFails(err)
      PROVE  GoesOn
  <2>1. PICK from, to : Goto(from, to) /\ from # "wait" /\ to # "wait"
    BY <1>9 DEF LoadBegin, KeyBegin, LoadCryptoInit, DeriveSetup, DeriveInput, DeriveOutput,
                DeriveReturnsToLoad, DeriveInputFails, DeriveOutputFails, KdfNext
  <2> QED BY <1>2, <2>1
<1>10. ASSUME \/ LoadImportKey \/ LoadCipherSetup \/ LoadSetIv \/ LoadUpdate \/ LoadFinish
              \/ LoadCipherAbort \/ LoadDestroyKey
              \/ \E err \in CryptoErrors :
                    \/ LoadCipherSetupFails(err) \/ LoadSetIvFails(err) \/ LoadFinishFails(err)
                    \/ \E n \in 0..Len(pkg.plain) : LoadUpdateFails(err, n)
      PROVE  GoesOn
  <2>1. PICK from, to : Goto(from, to) /\ from # "wait" /\ to # "wait"
    BY <1>10 DEF LoadImportKey, LoadCipherSetup, LoadSetIv, LoadUpdate, LoadFinish,
                 LoadCipherAbort, LoadDestroyKey, LoadCipherSetupFails, LoadSetIvFails,
                 LoadFinishFails, LoadUpdateFails
  <2> QED BY <1>2, <2>1
<1> QED BY <1>4, <1>5, <1>6, <1>7, <1>8, <1>9, <1>10
        DEF PartNext, Load, Derive, CryptoFailure, GoesOn

LEMMA PartitionKeepsIpc ==
    ASSUME IInv, IpcInv, LinkInv, PartNext
    PROVE  IpcInv' /\ LinkInv'
<1>1. IpcTypeOK(Messages, Replies) /\ FromClients(Messages)
  BY DEF IInv, TypeOK, FromClients, Messages
<1>2. CASE GetMessage
  <2>1. Free /\ PsaGet /\ msg' = Head(queue) /\ spc' = "dispatch"
    BY <1>2 DEF GetMessage, LinkInv
  <2>2. IpcInv' /\ serving' \in Clients
    BY <1>1, <2>1, GetKeepsIpc
  <2> QED BY <2>1, <2>2 DEF LinkInv, PsaGet
<1>3. ASSUME NEW st \in Statuses, NEW out, spc # "wait", Reply(st, out) PROVE IpcInv' /\ LinkInv'
  <2>1. serving \in Clients /\ PsaReply(serving, st, out) /\ spc' = "wait"
    BY <1>3 DEF LinkInv, Reply
  <2>2. [status |-> st, out |-> out] # NoReply
    BY StatusNotNone DEF NoReply
  <2>3. IpcInv' /\ Free'
    BY <1>1, <2>1, <2>2, ReplyKeepsIpc
  <2> QED BY <2>1, <2>3 DEF LinkInv
<1>4. CASE spc # "wait" /\ spc' # "wait" /\ UNCHANGED <<ipcVars, msg>>
  BY <1>4, IpcUnchanged DEF LinkInv, ipcVars
<1> QED BY <1>2, <1>3, <1>4, TakesAnswersOrGoesOn

LEMMA ClientKeepsIpc ==
    ASSUME IInv, IpcInv, LinkInv, NEW c \in Clients, Client(c)
    PROVE  IpcInv' /\ LinkInv'
<1>1. IpcTypeOK(Messages, Replies)
  BY DEF IInv, TypeOK
<1>2. UNCHANGED <<spc, msg, serving>>
  BY DEF Client, ClientStep, Invoke, MakeCall, Close, Return, InvokeBadParameter, InvokeRefused,
         PsaConnect, PsaCall, PsaClose, PsaClosed, partVars, localVars, ipcVars
<1>3. LinkInv'
  BY <1>2 DEF LinkInv, Free
<1>4. IpcInv'
  BY <1>1, ConnectKeepsIpc, CallKeepsIpc, CloseKeepsIpc, ClosedKeepsIpc, IpcUnchanged
     DEF Client, ClientStep, Invoke, MakeCall, Close, Return, InvokeBadParameter, InvokeRefused
<1> QED BY <1>3, <1>4

\* The SPM and the partition agree on whose message is being served, and no
\* message is lost or answered twice.
THEOREM MessagesInvariance == Spec => [](IpcInv /\ LinkInv)
<1>1. Init => IpcInv /\ LinkInv
  BY IpcInitInv DEF Init, PartInit, LinkInv, IpcInit, Free
<1>2. ASSUME IInv, IpcInv, LinkInv, [Next]_vars PROVE IpcInv' /\ LinkInv'
  <2>1. CASE UNCHANGED vars
    BY <1>2, <2>1, IpcUnchanged DEF vars, partVars, localVars, ipcVars, LinkInv, Free
  <2> QED BY <1>2, <2>1, PartitionKeepsIpc, ClientKeepsIpc DEF Next, Partition
<1> QED BY <1>1, <1>2, Invariance, PTL DEF Spec

\* No path of the service loop answers a message twice, or drops one: a client
\* blocked in a PSA call has one message waiting, in service or answered.
THEOREM MessagesAnsweredOnce == Spec => []OneAnswer
<1>1. IpcInv => OneAnswer
  BY DEF IpcInv
<1> QED BY <1>1, MessagesInvariance, PTL

\* No return path of the API functions leaves its connection open, and the SPM
\* never has more of them than it has handles.
THEOREM ConnectionsClosed == Spec => []HandlesBalanced
<1>1. IpcInv => HandlesBalanced
  BY DEF IpcInv
<1> QED BY <1>1, MessagesInvariance, PTL
-----------------------------------------------------------------------------
(* TinyMaixSystem implements InferenceContract: its initial states are     *)
(* initial states of the contract, and every step of the partition and of  *)
(* its clients is a step of the contract or changes nothing it speaks of.  *)

\* The message a blocked client has sent.
MessageOf(c) ==
    IF phase[c] = "connect" THEN Bare(c, "PSA_IPC_CONNECT")
    ELSE IF phase[c] = "call"
         THEN [client |-> c, type |-> call[c].psa.type, in_vec |-> call[c].psa.in_vec,
               out_size |-> call[c].psa.out_size]
         ELSE Bare(c, "PSA_IPC_DISCONNECT")

\* What waits or is served is what its client has sent; a client has a result
\* only between the return of psa_call and that of psa_close.
SentInv ==
    \A c \in Clients :
        /\ \A i \in 1..Len(queue) : queue[i].client = c => queue[i] = MessageOf(c)
        /\ spc # "wait" /\ serving = c => msg = MessageOf(c)
        /\ phase[c] # "close" => result[c] = NoReply

AllInv == IInv /\ IpcInv /\ LinkInv /\ SentInv

-----------------------------------------------------------------------------
(* SentInv is an invariant.                                                *)

LEMMA PartitionKeepsSent ==
    ASSUME AllInv, Partition
    PROVE  SentInv'
<1>1. \A c \in Clients : phase' = phase => MessageOf(c)' = MessageOf(c)
  BY DEF Partition, MessageOf, apiVars
<1>2. result' = result
  BY DEF Partition, apiVars
<1>3. CASE GetMessage
  <2>1. queue \in Seq(Messages) /\ queue # <<>> /\ queue' = Tail(queue) /\ phase' = phase
    BY <1>3 DEF AllInv, IInv, TypeOK, IpcTypeOK, GetMessage, PsaGet
  <2>2. /\ 1 \in 1..Len(queue) /\ msg' = queue[1] /\ serving' = queue[1].client
        /\ \A i \in 1..Len(queue') : queue'[i] = queue[i + 1] /\ i + 1 \in 1..Len(queue)
    BY <1>3, <2>1 DEF GetMessage, PsaGet
  <2> QED BY <1>1, <1>2, <2>1, <2>2 DEF AllInv, SentInv
<1>4. ASSUME NEW st, NEW out, Reply(st, out) PROVE SentInv'
  <2>1. phase' = phase /\ queue' = queue /\ spc' = "wait"
    BY <1>4 DEF Reply, PsaReply
  <2> QED BY <1>1, <1>2, <2>1 DEF AllInv, SentInv
<1>5. CASE spc # "wait" /\ UNCHANGED <<ipcVars, msg>>
  <2>1. UNCHANGED <<phase, queue, serving, msg>>
    BY <1>5 DEF ipcVars
  <2> QED BY <1>1, <1>2, <1>5, <2>1 DEF AllInv, SentInv
<1> QED BY <1>3, <1>4, <1>5, TakesAnswersOrGoesOn DEF AllInv, Partition

\* A client that sends its next message.
LEMMA SentNext ==
    ASSUME AllInv, NEW c \in Clients, NEW m, queue' = Append(queue, m), m.client = c,
           m = MessageOf(c)', ~Queued(c), serving # c, UNCHANGED <<serving, spc, msg>>,
           \A d \in Clients : d # c => /\ MessageOf(d)' = MessageOf(d)
                                       /\ phase'[d] = phase[d] /\ result'[d] = result[d],
           phase'[c] # "close" => result'[c] = NoReply
    PROVE  SentInv'
<1>1. queue \in Seq(Messages)
  BY DEF AllInv, IInv, TypeOK, IpcTypeOK
<1>2. Len(queue') = Len(queue) + 1 /\ Len(queue) \in Nat /\ queue'[Len(queue) + 1] = m
  BY <1>1
<1>3. \A i \in 1..Len(queue) : queue'[i] = queue[i] /\ queue[i].client # c
  BY <1>1 DEF Queued
<1>4. \A i \in 1..Len(queue') : i \in 1..Len(queue) \/ i = Len(queue) + 1
  BY <1>2
<1>5. ASSUME NEW d \in Clients, NEW i \in 1..Len(queue'), queue'[i].client = d
      PROVE  queue'[i] = MessageOf(d)'
  <2>1. CASE i \in 1..Len(queue)
    BY <1>3, <1>5, <2>1 DEF AllInv, SentInv
  <2>2. CASE i = Len(queue) + 1
    BY <1>2, <1>5, <2>2
  <2> QED BY <1>4, <2>1, <2>2
<1>6. ASSUME NEW d \in Clients, spc' # "wait", serving' = d PROVE msg' = MessageOf(d)'
  BY <1>6 DEF AllInv, SentInv
<1>7. ASSUME NEW d \in Clients, phase'[d] # "close" PROVE result'[d] = NoReply
  BY <1>7 DEF AllInv, SentInv
<1> QED BY <1>5, <1>6, <1>7 DEF SentInv

LEMMA ClientKeepsSent ==
    ASSUME AllInv, NEW c \in Clients, Client(c)
    PROVE  SentInv'
<1>0. /\ phase \in [Clients -> Phases] /\ reply \in [Clients -> Replies \cup {NoReply}]
      /\ call \in [Clients -> Calls \cup {NoCall}] /\ result \in [Clients -> Replies \cup {NoReply}]
      /\ UNCHANGED <<spc, msg>>
  BY DEF AllInv, IInv, TypeOK, IpcTypeOK, Client, partVars, localVars
<1>1. ASSUME Invoke(c) PROVE SentInv'
  <2>1. ~Queued(c) /\ serving # c
    BY <1>1 DEF AllInv, IpcInv, OneAnswer, Invoke, PsaConnect
  <2>2. Bare(c, "PSA_IPC_CONNECT").client = c /\ Bare(c, "PSA_IPC_CONNECT") = MessageOf(c)'
    BY <1>0, <1>1 DEF Bare, MessageOf, Invoke, PsaConnect
  <2>3. /\ \A d \in Clients : d # c => MessageOf(d)' = MessageOf(d) /\ phase'[d] = phase[d]
        /\ result' = result /\ result[c] = NoReply
    BY <1>0, <1>1 DEF MessageOf, Invoke, PsaConnect, AllInv, SentInv
  <2> QED BY <1>0, <1>1, <2>1, <2>2, <2>3, SentNext DEF Invoke, PsaConnect
<1>2. ASSUME MakeCall(c) PROVE SentInv'
  <2> DEFINE m == [client |-> c, type |-> call[c].psa.type, in_vec |-> call[c].psa.in_vec,
                   out_size |-> call[c].psa.out_size]
  <2>1. ~Queued(c) /\ serving # c
    BY <1>2 DEF AllInv, IpcInv, OneAnswer, MakeCall, PsaCall
  <2>2. m.client = c /\ m = MessageOf(c)'
    BY <1>0, <1>2 DEF MessageOf, MakeCall, PsaCall, apiVars
  <2>3. /\ \A d \in Clients : d # c => MessageOf(d)' = MessageOf(d) /\ phase'[d] = phase[d]
        /\ result' = result /\ result[c] = NoReply
    BY <1>0, <1>2 DEF MessageOf, MakeCall, PsaCall, apiVars, AllInv, SentInv
  <2>4. queue' = Append(queue, m) /\ serving' = serving
    BY <1>2 DEF MakeCall, PsaCall
  <2> HIDE DEF m
  <2> QED BY <1>0, <2>1, <2>2, <2>3, <2>4, SentNext
<1>3. ASSUME Close(c) PROVE SentInv'
  <2>1. ~Queued(c) /\ serving # c
    BY <1>3 DEF AllInv, IpcInv, OneAnswer, Close, PsaClose
  <2>2. Bare(c, "PSA_IPC_DISCONNECT").client = c /\ Bare(c, "PSA_IPC_DISCONNECT") = MessageOf(c)'
    BY <1>0, <1>3 DEF Bare, MessageOf, Close, PsaClose
  <2>3. /\ \A d \in Clients : d # c => /\ MessageOf(d)' = MessageOf(d) /\ phase'[d] = phase[d]
                                       /\ result'[d] = result[d]
        /\ phase'[c] = "close"
    BY <1>0, <1>3 DEF MessageOf, Close, PsaClose
  <2> QED BY <1>0, <1>3, <2>1, <2>2, <2>3, SentNext DEF Close, PsaClose
<1>4. ASSUME Return(c) PROVE SentInv'
  <2>1. ~Queued(c) /\ serving # c
    BY <1>4 DEF AllInv, IpcInv, OneAnswer, Return, PsaClosed
  <2>2. /\ \A d \in Clients : d # c => /\ MessageOf(d)' = MessageOf(d) /\ phase'[d] = phase[d]
                                       /\ result'[d] = result[d]
        /\ result'[c] = NoReply /\ UNCHANGED <<queue, serving>>
    BY <1>0, <1>4 DEF MessageOf, Return, PsaClosed
  <2> QED BY <1>0, <2>1, <2>2 DEF AllInv, SentInv, Queued
<1>5. ASSUME UNCHANGED <<call, result, ipcVars>> PROVE SentInv'
  <2>1. \A d \in Clients : MessageOf(d)' = MessageOf(d)
    BY <1>5 DEF MessageOf, ipcVars
  <2> QED BY <1>0, <1>5, <2>1 DEF AllInv, SentInv, ipcVars
<1> QED BY <1>1, <1>2, <1>3, <1>4, <1>5 DEF Client, ClientStep, InvokeBadParameter, InvokeRefused

LEMMA StutterKeepsSent == ASSUME AllInv, UNCHANGED vars PROVE SentInv'
BY DEF AllInv, SentInv, MessageOf, vars, partVars, localVars, ipcVars, apiVars

\* What a blocked client has sent is what waits for it or is being served, and
\* a result is kept only until its function returns.
THEOREM SentInvariance == Spec => []SentInv
<1>1. Init => SentInv
  BY DEF Init, IpcInit, PartInit, SentInv
<1>2. ASSUME IInv, IpcInv, LinkInv, SentInv, [Next]_vars PROVE SentInv'
  BY <1>2, PartitionKeepsSent, ClientKeepsSent, StutterKeepsSent DEF AllInv, Next
<1> QED BY <1>1, <1>2, Invariance, MessagesInvariance, PTL DEF Spec

-----------------------------------------------------------------------------
(* What the contract sees.                                                 *)

\* A step that changes none of it is a stutter of the contract.
Unseen == /\ UNCHANGED <<pkg, g_model_loaded, mnist_pic, call, ret>>
          /\ \A c \in Clients : Stage(c)' = Stage(c) /\ AnswerOf(c)' = AnswerOf(c)

LEMMA UnseenStutters == Unseen => UNCHANGED Contract!vars
BY DEF Unseen, Contract!vars

\* The other clients, in a step of c.
OthersUnseen(c) == \A d \in Clients : d # c => Stage(d)' = Stage(d) /\ AnswerOf(d)' = AnswerOf(d)

LEMMA InitRefines == Init => Contract!Init
<1> SUFFICES ASSUME Init PROVE Contract!Init
  OBVIOUS
<1>1. /\ phase = [c \in Clients |-> "idle"] /\ result = [c \in Clients |-> NoReply]
      /\ call = [c \in Clients |-> NoCall] /\ ~g_model_loaded
  BY DEF Init, IpcInit, PartInit
<1>2. \A c \in Clients : Stage(c) = "idle" /\ AnswerOf(c) = NoReply
  BY <1>1 DEF Stage, AnswerOf
<1> QED BY <1>1, <1>2 DEF Contract!Init

-----------------------------------------------------------------------------
(* The steps of the clients.                                               *)

LEMMA InvokeAsks ==
    ASSUME AllInv, NEW c \in Clients, Invoke(c), UNCHANGED partVars
    PROVE  Contract!Ask(c)
<1>1. /\ phase \in [Clients -> Phases] /\ phase[c] = "idle" /\ phase' = [phase EXCEPT ![c] = "connect"]
      /\ reply' = reply /\ result' = result /\ ret' = [ret EXCEPT ![c] = NoReturn]
      /\ \E k \in Calls : call' = [call EXCEPT ![c] = k]
      /\ UNCHANGED <<pkg, g_model_loaded, mnist_pic>>
  BY DEF AllInv, IInv, TypeOK, IpcTypeOK, Invoke, PsaConnect, partVars, modelVars
<1>2. \A d \in Clients : phase'[d] = IF d = c THEN "connect" ELSE phase[d]
  BY <1>1
<1>3. /\ Stage(c) = "idle" /\ Stage(c)' = "pending"
      /\ \A d \in Clients : (d # c => Stage(d)' = Stage(d)) /\ AnswerOf(d)' = AnswerOf(d)
  BY <1>1, <1>2 DEF Stage, AnswerOf
<1> QED BY <1>1, <1>3 DEF Contract!Ask

LEMMA EarlyReturnRefuses ==
    ASSUME AllInv, NEW c \in Clients, UNCHANGED partVars,
           \/ \E fn \in ApiFunctions : InvokeBadParameter(c, fn)
           \/ \E fn \in ApiFunctions \cup {"direct"} : InvokeRefused(c, fn)
    PROVE  Contract!Refuse(c)
<1>1. PICK r : /\ r.status \notin {"PSA_SUCCESS", "TINYMAIX_STATUS_SUCCESS"}
                /\ ret' = [ret EXCEPT ![c] = r]
  <2>1. ASSUME NEW fn, InvokeBadParameter(c, fn)
        PROVE  \E r : /\ r.status \notin {"PSA_SUCCESS", "TINYMAIX_STATUS_SUCCESS"}
                      /\ ret' = [ret EXCEPT ![c] = r]
    <3> DEFINE r == [fn |-> fn, class |-> <<>>, status |-> "TINYMAIX_STATUS_ERROR_INVALID_PARAM"]
    <3>1. r.status \notin {"PSA_SUCCESS", "TINYMAIX_STATUS_SUCCESS"}
      OBVIOUS
    <3>2. ret' = [ret EXCEPT ![c] = r]
      BY <2>1 DEF InvokeBadParameter
    <3> HIDE DEF r
    <3> QED BY <3>1, <3>2
  <2>2. ASSUME NEW fn, InvokeRefused(c, fn)
        PROVE  \E r : /\ r.status \notin {"PSA_SUCCESS", "TINYMAIX_STATUS_SUCCESS"}
                      /\ ret' = [ret EXCEPT ![c] = r]
    <3> DEFINE r == [fn |-> fn, class |-> <<>>,
                     status |-> IF fn = "direct" THEN "PSA_ERROR_CONNECTION_REFUSED"
                                                 ELSE "TINYMAIX_STATUS_ERROR_GENERIC"]
    <3>1. r.status \notin {"PSA_SUCCESS", "TINYMAIX_STATUS_SUCCESS"}
      OBVIOUS
    <3>2. ret' = [ret EXCEPT ![c] = r]
      BY <2>2 DEF InvokeRefused
    <3> HIDE DEF r
    <3> QED BY <3>1, <3>2
  <2> QED BY <2>1, <2>2
<1>2. phase[c] = "idle" /\ UNCHANGED <<call, result, ipcVars>>
  BY DEF InvokeBadParameter, InvokeRefused, ConnectRefused
<1>3. UNCHANGED <<pkg, g_model_loaded, mnist_pic, phase, reply>>
  BY <1>2 DEF partVars, modelVars, ipcVars
<1>4. Stage(c) = "idle" /\ \A d \in Clients : Stage(d)' = Stage(d) /\ AnswerOf(d)' = AnswerOf(d)
  BY <1>2, <1>3 DEF Stage, AnswerOf
<1>5. ret \in [Clients -> Returns \cup {NoReturn}]
  BY DEF AllInv, IInv, TypeOK
<1>6. ret'[c] = r
  BY <1>1, <1>5
<1>7. /\ UNCHANGED <<pkg, g_model_loaded, mnist_pic, call>>
      /\ ret'[c].status \notin {"PSA_SUCCESS", "TINYMAIX_STATUS_SUCCESS"}
      /\ ret' = [ret EXCEPT ![c] = ret'[c]]
  BY <1>1, <1>2, <1>3, <1>6
<1>8. /\ [d \in Clients |-> Stage(d)][c] = "idle"
      /\ [d \in Clients |-> Stage(d)]' = [d \in Clients |-> Stage(d)]
      /\ [d \in Clients |-> AnswerOf(d)]' = [d \in Clients |-> AnswerOf(d)]
  BY <1>4
<1> QED BY <1>7, <1>8 DEF Contract!Refuse

LEMMA MakeCallUnseen ==
    ASSUME AllInv, NEW c \in Clients, MakeCall(c), UNCHANGED partVars
    PROVE  Unseen
<1>1. /\ phase \in [Clients -> Phases] /\ reply \in [Clients -> Replies \cup {NoReply}]
      /\ phase[c] = "connect" /\ phase' = [phase EXCEPT ![c] = "call"]
      /\ reply' = [reply EXCEPT ![c] = NoReply] /\ UNCHANGED apiVars /\ result[c] = NoReply
  BY DEF AllInv, IInv, TypeOK, IpcTypeOK, SentInv, MakeCall, PsaCall
<1>2. UNCHANGED <<pkg, g_model_loaded, mnist_pic, call, ret, result>>
  BY <1>1 DEF partVars, modelVars, apiVars
<1>3. \A d \in Clients : /\ phase'[d] = IF d = c THEN "call" ELSE phase[d]
                         /\ reply'[d] = IF d = c THEN NoReply ELSE reply[d]
  BY <1>1
<1> QED BY <1>1, <1>2, <1>3 DEF Unseen, Stage, AnswerOf

LEMMA CloseUnseen ==
    ASSUME AllInv, NEW c \in Clients, Close(c), UNCHANGED partVars
    PROVE  Unseen
<1>1. /\ phase \in [Clients -> Phases] /\ reply \in [Clients -> Replies \cup {NoReply}]
      /\ result \in [Clients -> Replies \cup {NoReply}]
      /\ phase[c] = "call" /\ reply[c] # NoReply /\ phase' = [phase EXCEPT ![c] = "close"]
      /\ reply' = [reply EXCEPT ![c] = NoReply] /\ result' = [result EXCEPT ![c] = reply[c]]
      /\ UNCHANGED <<call, ret>>
  BY DEF AllInv, IInv, TypeOK, IpcTypeOK, Close, PsaClose
<1>2. UNCHANGED <<pkg, g_model_loaded, mnist_pic, call, ret>>
  BY <1>1 DEF partVars, modelVars
<1>3. \A d \in Clients : /\ phase'[d] = IF d = c THEN "close" ELSE phase[d]
                         /\ reply'[d] = IF d = c THEN NoReply ELSE reply[d]
                         /\ result'[d] = IF d = c THEN reply[c] ELSE result[d]
  BY <1>1
<1> QED BY <1>1, <1>2, <1>3 DEF Unseen, Stage, AnswerOf

LEMMA ReturnReturns ==
    ASSUME AllInv, NEW c \in Clients, Return(c), UNCHANGED partVars
    PROVE  Contract!Return(c)
<1>1. /\ phase \in [Clients -> Phases] /\ reply \in [Clients -> Replies \cup {NoReply}]
      /\ result \in [Clients -> Replies \cup {NoReply}]
      /\ phase[c] = "close" /\ phase' = [phase EXCEPT ![c] = "idle"]
      /\ reply' = [reply EXCEPT ![c] = NoReply] /\ result' = [result EXCEPT ![c] = NoReply]
      /\ ret' = [ret EXCEPT ![c] = Outcome(call[c].fn, result[c])]
      /\ call' = [call EXCEPT ![c] = NoCall]
  BY DEF AllInv, IInv, TypeOK, IpcTypeOK, Return, PsaClosed
<1>2. UNCHANGED <<pkg, g_model_loaded, mnist_pic>>
  BY <1>1 DEF partVars, modelVars
<1>3. \A d \in Clients : /\ phase'[d] = IF d = c THEN "idle" ELSE phase[d]
                         /\ reply'[d] = IF d = c THEN NoReply ELSE reply[d]
                         /\ result'[d] = IF d = c THEN NoReply ELSE result[d]
  BY <1>1
<1>4. /\ Stage(c) = "answered" /\ Stage(c)' = "idle" /\ AnswerOf(c) = result[c] /\ AnswerOf(c)' = NoReply
      /\ OthersUnseen(c)
  BY <1>1, <1>3 DEF Stage, AnswerOf, OthersUnseen
<1> QED BY <1>1, <1>2, <1>4 DEF Contract!Return, OthersUnseen

-----------------------------------------------------------------------------
(* The steps of the partition.                                             *)

\* What a psa_reply may leave behind, by the type of the message it answers.
Effect(st, out) ==
    \/ /\ msg.type = LOAD /\ UNCHANGED mnist_pic
       /\ \/ st = "PSA_SUCCESS" /\ Genuine(pkg) /\ g_model_loaded' = TRUE
          \/ st # "PSA_SUCCESS" /\ g_model_loaded' = FALSE
    \/ /\ msg.type = RUN /\ UNCHANGED g_model_loaded
       /\ mnist_pic' # mnist_pic => g_model_loaded /\ Len(msg.in_vec) = ImageSize
       /\ st = "PSA_SUCCESS" =>
            /\ g_model_loaded
            /\ Len(msg.in_vec) = ImageSize => mnist_pic' = msg.in_vec
            /\ Len(msg.in_vec) = 0 => mnist_pic' = mnist_pic
            /\ out \in {<<>>} \cup {<<r>> : r \in Results(pkg, mnist_pic')}
    \/ msg.type \notin {LOAD, RUN} /\ UNCHANGED <<g_model_loaded, mnist_pic>>

AnswersWithEffect == spc # "wait" /\ \E st \in Statuses : \E out : Reply(st, out) /\ Effect(st, out)
GoesOnUnseen == spc # "wait" /\ UNCHANGED <<ipcVars, msg, pkg, g_model_loaded, mnist_pic>>

\* A failed load unloads; no crypto error and no header error is a success.
LEMMA LoadFailsEffect ==
    ASSUME NEW st \in Statuses \ {"PSA_SUCCESS"}, spc # "wait", msg.type = LOAD, LoadFails(st)
    PROVE  AnswersWithEffect
  BY DEF LoadFails, Effect, AnswersWithEffect

LEMMA FailureStatuses ==
    /\ CryptoErrors \subseteq Statuses \ {"PSA_SUCCESS"}
    /\ "PSA_ERROR_GENERIC_ERROR" \in Statuses \ {"PSA_SUCCESS"}
    /\ {"PSA_SUCCESS", "PSA_ERROR_NOT_SUPPORTED", "PSA_ERROR_BUFFER_TOO_SMALL",
        "PSA_ERROR_BAD_STATE", "PSA_ERROR_INVALID_ARGUMENT",
        "PSA_ERROR_COMMUNICATION_FAILURE", "PSA_ERROR_GENERIC_ERROR"} \subseteq Statuses
  BY DEF Statuses, Errors, CryptoErrors

LEMMA ServeEffect ==
    ASSUME ServeConnection \/ ServeUnsupported \/ KeyBufferTooSmall
    PROVE  AnswersWithEffect
<1>1. spc # "wait" /\ msg.type \notin {LOAD, RUN} /\ UNCHANGED <<g_model_loaded, mnist_pic>>
  BY DEF ServeConnection, ServeUnsupported, KeyBufferTooSmall, Dispatch, modelVars, LOAD, RUN, KEY
<1>2. \E st \in Statuses : \E out : Reply(st, out)
  BY FailureStatuses DEF ServeConnection, ServeUnsupported, KeyBufferTooSmall
<1> QED BY <1>1, <1>2 DEF AnswersWithEffect, Effect

LEMMA RunEffect ==
    ASSUME IInv, Run
    PROVE  AnswersWithEffect
<1>1. spc = "dispatch" /\ msg.type = RUN /\ UNCHANGED g_model_loaded
  BY DEF Run, RunNotLoaded, RunBadSize, RunShortRead, RunEngineFails, RunInference, SelectImage,
         Dispatch, RunFails, modelVars
<1>2. msg.in_vec \in Seq(Pixel) /\ mnist_pic \in Pictures
  BY <1>1, PartTypes DEF IInv, MsgInv, Messages
<1>3. mnist_pic' # mnist_pic => g_model_loaded /\ Len(msg.in_vec) = ImageSize
  BY DEF Run, RunNotLoaded, RunBadSize, RunShortRead, RunEngineFails, RunInference, SelectImage
<1>4. CASE RunInference
  <2>1. Len(msg.in_vec) = ImageSize => mnist_pic' = msg.in_vec
    <3>1. CASE Len(msg.in_vec) = ImageSize
      <4>1. mnist_pic' = [i \in 1..ImageSize |-> msg.in_vec[i]]
        BY <1>4, <3>1, PartitionConstants DEF RunInference, SelectImage, ReadImage
      <4> QED BY <1>2, <3>1, <4>1
    <3> QED BY <3>1
  <2>2. /\ Len(msg.in_vec) = 0 => mnist_pic' = mnist_pic
        /\ g_model_loaded
    BY <1>4, PartitionConstants DEF RunInference, SelectImage
  <2>3. \E out \in {<<>>} \cup {<<r>> : r \in Results(pkg, mnist_pic')} : Reply("PSA_SUCCESS", out)
    BY <1>4 DEF RunInference
  <2> QED BY <1>1, <1>3, <2>1, <2>2, <2>3, FailureStatuses DEF AnswersWithEffect, Effect
<1>5. CASE RunNotLoaded \/ RunBadSize \/ RunEngineFails \/ \E n \in 0..(ImageSize - 1) : RunShortRead(n)
  <2>1. \E st \in Statuses \ {"PSA_SUCCESS"} : Reply(st, <<>>)
    BY <1>5, FailureStatuses DEF RunNotLoaded, RunBadSize, RunEngineFails, RunShortRead, RunFails
  <2> QED BY <1>1, <1>3, <2>1 DEF AnswersWithEffect, Effect
<1> QED BY <1>4, <1>5 DEF Run

LEMMA LoadFinalEffect ==
    ASSUME IInv, LoadFinal, LoadedModelIntact'
    PROVE  AnswersWithEffect
<1>1. spc = "validate" /\ msg.type = LOAD /\ UNCHANGED <<pkg, mnist_pic>>
  BY DEF LoadFinal, Reply, IInv, MsgInv, LoadSteps, KdfSteps, CipherSteps
<1>2. ~Loading'
  BY AnswersWait DEF Loading, LoadSteps, KdfSteps, CipherSteps
<1>3. g_model_loaded' => Genuine(pkg)
  BY <1>1, <1>2 DEF LoadedModelIntact, Genuine
<1>4. \/ g_model_loaded' = TRUE /\ \E out : Reply("PSA_SUCCESS", out)
      \/ g_model_loaded' = FALSE /\ \E out : Reply("PSA_ERROR_GENERIC_ERROR", out)
  BY DEF LoadFinal
<1> QED BY <1>1, <1>3, <1>4, FailureStatuses DEF AnswersWithEffect, Effect

LEMMA DeriveFailsEffect ==
    ASSUME IInv, NEW err \in Statuses \ {"PSA_SUCCESS"}, spc # "wait", DeriveFails(err)
    PROVE  AnswersWithEffect
<1>1. CASE msg.type = KEY /\ Reply(err, <<>>) /\ UNCHANGED <<modelVars, encryption_key, mnist_pic>>
  BY <1>1 DEF AnswersWithEffect, Effect, modelVars, LOAD, RUN, KEY
<1> QED BY <1>1, LoadFailsEffect, FailureStatuses DEF DeriveFails

LEMMA HeaderFailure == ASSUME NEW p, HeaderStatus(p) # "PSA_SUCCESS"
                       PROVE  HeaderStatus(p) \in Statuses \ {"PSA_SUCCESS"}
  BY HeaderStatusType

LEMMA FailEffect ==
    ASSUME IInv,
           \/ LoadRejectHeader \/ LoadDecryptFailed \/ LoadBadPadding
           \/ \E err \in CryptoErrors : \/ LoadCryptoInitFails(err) \/ LoadImportKeyFails(err)
    PROVE  AnswersWithEffect
<1>1. spc # "wait" /\ msg.type = LOAD
  <2>1. spc \in {"validate", "crypto_init", "import_key"} => msg.type = LOAD
    BY DEF IInv, MsgInv, LoadSteps, KdfSteps, CipherSteps
  <2> QED BY <2>1 DEF LoadRejectHeader, LoadDecryptFailed, LoadBadPadding, LoadCryptoInitFails,
                      LoadImportKeyFails, Dispatch
<1>2. PICK st \in Statuses \ {"PSA_SUCCESS"} : LoadFails(st)
  BY HeaderFailure, FailureStatuses, PartTypes
     DEF LoadRejectHeader, LoadDecryptFailed, LoadBadPadding, LoadCryptoInitFails, LoadImportKeyFails
<1> QED BY <1>1, <1>2, LoadFailsEffect

LEMMA DeriveReturnEffect ==
    ASSUME IInv,
           \/ DeriveReturnsError \/ DeriveReturnsKey
           \/ \E err \in CryptoErrors : DeriveSetupFails(err)
    PROVE  AnswersWithEffect
<1>1. CASE DeriveReturnsKey
  BY <1>1, FailureStatuses
     DEF DeriveReturnsKey, AnswersWithEffect, Effect, modelVars, LOAD, RUN, KEY
<1>2. CASE DeriveReturnsError
  BY <1>2, PartTypes, DeriveFailsEffect DEF DeriveReturnsError
<1>3. ASSUME NEW err \in CryptoErrors, DeriveSetupFails(err) PROVE AnswersWithEffect
  BY <1>3, FailureStatuses, DeriveFailsEffect DEF DeriveSetupFails
<1> QED BY <1>1, <1>2, <1>3

LEMMA InnerUnseen ==
    ASSUME \/ LoadBegin \/ KeyBegin \/ LoadCryptoInit \/ DeriveSetup \/ DeriveInput
           \/ DeriveOutput \/ DeriveReturnsToLoad \/ LoadImportKey \/ LoadCipherSetup
           \/ LoadSetIv \/ LoadUpdate \/ LoadFinish \/ LoadCipherAbort \/ LoadDestroyKey
           \/ \E err \in CryptoErrors :
                \/ DeriveInputFails(err) \/ DeriveOutputFails(err) \/ LoadCipherSetupFails(err)
                \/ LoadSetIvFails(err) \/ LoadFinishFails(err)
                \/ \E n \in 0..Len(pkg.plain) : LoadUpdateFails(err, n)
    PROVE  GoesOnUnseen
<1> USE DEF GoesOnUnseen, Goto, modelVars
<1>1. CASE LoadBegin \/ KeyBegin \/ LoadCryptoInit \/ DeriveSetup \/ DeriveInput
  BY <1>1 DEF LoadBegin, KeyBegin, LoadCryptoInit, DeriveSetup, DeriveInput, KdfNext
<1>2. CASE DeriveOutput \/ DeriveReturnsToLoad \/ LoadImportKey \/ LoadCipherSetup \/ LoadSetIv
  BY <1>2 DEF DeriveOutput, DeriveReturnsToLoad, LoadImportKey, LoadCipherSetup, LoadSetIv
<1>3. CASE LoadUpdate \/ LoadFinish \/ LoadCipherAbort \/ LoadDestroyKey
  BY <1>3 DEF LoadUpdate, LoadFinish, LoadCipherAbort, LoadDestroyKey
<1>4. ASSUME NEW err \in CryptoErrors,
             DeriveInputFails(err) \/ DeriveOutputFails(err) \/ LoadCipherSetupFails(err)
      PROVE  GoesOnUnseen
  BY <1>4 DEF DeriveInputFails, DeriveOutputFails, LoadCipherSetupFails, KdfNext
<1>5. ASSUME NEW err \in CryptoErrors, NEW n \in 0..Len(pkg.plain),
             LoadSetIvFails(err) \/ LoadFinishFails(err) \/ LoadUpdateFails(err, n)
      PROVE  GoesOnUnseen
  BY <1>5 DEF LoadSetIvFails, LoadFinishFails, LoadUpdateFails
<1>6. ASSUME NEW err \in CryptoErrors, LoadSetIvFails(err) \/ LoadFinishFails(err)
      PROVE  GoesOnUnseen
  BY <1>6 DEF LoadSetIvFails, LoadFinishFails
<1> QED BY <1>1, <1>2, <1>3, <1>4, <1>5, <1>6

\* Every step of the partition is one of these.
LEMMA PartitionEffects ==
    ASSUME IInv, PartNext, LoadedModelIntact'
    PROVE  GetMessage \/ AnswersWithEffect \/ GoesOnUnseen
<1>1. CASE Load
  BY <1>1, InnerUnseen, FailEffect, LoadFinalEffect DEF Load
<1>2. CASE Derive
  BY <1>2, InnerUnseen, ServeEffect, DeriveReturnEffect DEF Derive
<1>3. ASSUME NEW err \in CryptoErrors, CryptoFailure(err) PROVE AnswersWithEffect \/ GoesOnUnseen
  BY <1>3, InnerUnseen, FailEffect, DeriveReturnEffect DEF CryptoFailure
<1> QED BY <1>1, <1>2, <1>3, ServeEffect, RunEffect DEF PartNext

-----------------------------------------------------------------------------
(* What they are to the contract.                                          *)

LEMMA SameClientsUnseen ==
    ASSUME UNCHANGED <<pkg, g_model_loaded, mnist_pic, phase, reply, apiVars>>
    PROVE  Unseen
  BY DEF Unseen, Stage, AnswerOf, apiVars

\* The answer to a psa_call is where the function takes effect; the answers
\* to psa_connect and psa_close are not seen.
LEMMA ReplyAnswers ==
    ASSUME AllInv, AnswersWithEffect, UNCHANGED apiVars
    PROVE  Unseen \/ Contract!Next
<1>1. PICK st, out : st \in Statuses /\ Reply(st, out) /\ Effect(st, out)
  BY DEF AnswersWithEffect
<1> DEFINE c == serving
           r == [status |-> st, out |-> out]
<1>2. c \in Clients /\ c = msg.client /\ spc # "wait" /\ msg = MessageOf(c)
  BY DEF AllInv, LinkInv, SentInv, AnswersWithEffect
<1>3. /\ phase \in [Clients -> Phases] /\ reply \in [Clients -> Replies \cup {NoReply}]
      /\ reply' = [reply EXCEPT ![c] = r] /\ UNCHANGED <<phase, pkg, call, result, ret>>
  BY <1>1, <1>2 DEF AllInv, IInv, TypeOK, IpcTypeOK, Reply, PsaReply, apiVars
<1>4. r # NoReply
  <2>1. st # "none"
    BY <1>1, StatusNotNone
  <2> QED BY <2>1 DEF NoReply
<1> HIDE DEF r
<1>5. \A d \in Clients : reply'[d] = IF d = c THEN r ELSE reply[d]
  BY <1>3
<1>6. reply[c] = NoReply /\ phase[c] # "idle"
  BY <1>2 DEF AllInv, IpcInv, OneAnswer
<1>7. CASE phase[c] # "call"
  <2>1. msg.type \notin {LOAD, RUN}
    BY <1>2, <1>7 DEF MessageOf, Bare, LOAD, RUN
  <2>2. UNCHANGED <<g_model_loaded, mnist_pic>>
    BY <1>1, <2>1 DEF Effect
  <2>3. \A d \in Clients : Stage(d)' = Stage(d) /\ AnswerOf(d)' = AnswerOf(d)
    BY <1>3, <1>5, <1>7 DEF Stage, AnswerOf
  <2> QED BY <1>3, <2>2, <2>3 DEF Unseen
<1>8. CASE phase[c] = "call"
  <2>1. msg.type = call[c].psa.type /\ msg.in_vec = call[c].psa.in_vec
    BY <1>2, <1>8 DEF MessageOf
  <2>2. /\ \A d \in Clients : Stage(d)' = IF d = c THEN "answered" ELSE Stage(d)
        /\ \A d \in Clients : AnswerOf(d)' = IF d = c THEN r ELSE AnswerOf(d)
        /\ Stage(c) = "pending"
    BY <1>3, <1>4, <1>5, <1>6, <1>8 DEF Stage, AnswerOf
  <2> DEFINE stages == [d \in Clients |-> Stage(d)]
             answers == [d \in Clients |-> AnswerOf(d)]
  <2>3. /\ stages[c] = "pending" /\ stages' = [stages EXCEPT ![c] = "answered"]
        /\ answers'[c] = r /\ answers' = [answers EXCEPT ![c] = r]
    BY <1>2, <2>2
  <2>4. r.status = st /\ r.out = out
    BY DEF r
  <2> QED BY <1>1, <1>2, <1>3, <2>1, <2>3, <2>4
          DEF Contract!Next, Contract!Answer, Contract!Loads, Contract!Infers, Effect, LOAD, RUN
<1> QED BY <1>7, <1>8

LEMMA PartitionRefines ==
    ASSUME AllInv, Partition, LoadedModelIntact'
    PROVE  Unseen \/ Contract!Next
<1>1. CASE GetMessage
  <2>1. UNCHANGED <<pkg, g_model_loaded, mnist_pic, phase, reply, apiVars>>
    BY <1>1 DEF GetMessage, PsaGet, Partition, modelVars
  <2> QED BY <2>1, SameClientsUnseen
<1>2. CASE GoesOnUnseen
  <2>1. UNCHANGED <<pkg, g_model_loaded, mnist_pic, phase, reply, apiVars>>
    BY <1>2 DEF GoesOnUnseen, ipcVars, Partition
  <2> QED BY <2>1, SameClientsUnseen
<1> QED BY <1>1, <1>2, PartitionEffects, ReplyAnswers DEF AllInv, Partition

LEMMA ClientRefines ==
    ASSUME AllInv, NEW c \in Clients, Client(c)
    PROVE  Unseen \/ Contract!Next
<1>1. UNCHANGED partVars
  BY DEF Client
<1>2. Invoke(c) => Contract!Ask(c)
  BY <1>1, InvokeAsks
<1>3. MakeCall(c) \/ Close(c) => Unseen
  BY <1>1, MakeCallUnseen, CloseUnseen
<1>4. Return(c) => Contract!Return(c)
  BY <1>1, ReturnReturns
<1>5. \/ \E fn \in ApiFunctions : InvokeBadParameter(c, fn)
      \/ \E fn \in ApiFunctions \cup {"direct"} : InvokeRefused(c, fn)
      => Contract!Refuse(c)
  BY <1>1, EarlyReturnRefuses
<1> QED BY <1>2, <1>3, <1>4, <1>5 DEF Client, ClientStep, Contract!Next

LEMMA StutterUnseen == UNCHANGED vars => Unseen
<1> SUFFICES ASSUME UNCHANGED vars PROVE Unseen
  OBVIOUS
<1>1. UNCHANGED <<pkg, g_model_loaded, mnist_pic, phase, reply, apiVars>>
  BY DEF vars, partVars, modelVars, ipcVars
<1> QED BY <1>1, SameClientsUnseen

\* The partition and the API functions implement the contract for every
\* number of clients and connections, every package and every mix of calls:
\* a function takes effect in the step that answers its psa_call, a load
\* succeeds only on a genuine package and otherwise leaves no model, an
\* inference classifies the picture in the buffer, and a function returns
\* what the service answered to this very call.
THEOREM ContractImplemented == Spec => ImplementsContract
<1>1. IInv /\ IpcInv /\ LinkInv /\ SentInv /\ LoadedModelIntact' /\ [Next]_vars
        => [Contract!Next]_(Contract!vars)
  BY PartitionRefines, ClientRefines, StutterUnseen, UnseenStutters DEF AllInv, Next
<1> QED BY <1>1, InitRefines, Invariance, MessagesInvariance, SentInvariance, ModelIntact, PTL
        DEF Spec, ImplementsContract, Contract!Spec
=============================================================================
