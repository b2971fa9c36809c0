----------------------------- MODULE CbcPackage -----------------------------
(***************************************************************************)
(* The ciphertext of a package on its way from the encryptor to the        *)
(* partition: encrypt_model of tools/tinymaix_model_encryptor.py chains    *)
(* the padded model's blocks, the package may be damaged in storage, and   *)
(* decrypt_model unchains it under its own key and makes its checks.       *)
(* ModelPackage describes both ends by the plaintext; this module is what  *)
(* lies between.  The block cipher is any family of permutations.          *)
(***************************************************************************)
EXTENDS ModelPackage

CONSTANTS Keys, Enc, Dec,   \* AES under each key, and its inverse
          XorByte,          \* exclusive or of two bytes
          Models, Ivs       \* models encrypted, and initialisation vectors drawn

Block == [1..BlockSize -> Byte]

ASSUME CipherConstants ==
    /\ Enc \in [Keys -> [Block -> Block]] /\ Dec \in [Keys -> [Block -> Block]]
    /\ \A k \in Keys, b \in Block : Dec[k][Enc[k][b]] = b
    /\ XorByte \in [Byte -> [Byte -> Byte]]
    /\ \A a \in Byte, b \in Byte : XorByte[XorByte[a][b]][b] = a
    /\ Models \subseteq Seq(Byte) /\ Ivs \subseteq Block

VARIABLES phase,      \* "encrypt", "stored", "decrypt", "checked"
          plainModel, \* model_data
          cipherKey, iv,  \* of the tool
          cipher,     \* encrypted_data, block by block
          stored,     \* the blocks the partition is given
          damaged,    \* index of the block that changed in storage, 0 if none
          dkey,       \* the key the partition decrypts with
          plain,      \* what psa_cipher_update yields, block by block
          accepted    \* the checks after decryption pass

cbcVars == <<phase, plainModel, cipherKey, iv, cipher, stored, damaged, dkey, plain, accepted>>

XorBlock(a, b) == [i \in 1..BlockSize |-> XorByte[a[i]][b[i]]]

\* The n-th block of the padded model, and the number of blocks.
PlainBlock(n) == [i \in 1..BlockSize |-> Pkcs7Pad(plainModel)[(n - 1) * BlockSize + i]]
BlockCount == Len(Pkcs7Pad(plainModel)) \div BlockSize

\* The block a block is chained to.
Previous(blocks, n) == IF n = 1 THEN iv ELSE blocks[n - 1]

\* The bytes of a sequence of blocks.
Bytes(blocks) ==
    [j \in 1..(BlockSize * Len(blocks)) |->
        blocks[((j - 1) \div BlockSize) + 1][((j - 1) % BlockSize) + 1]]

-----------------------------------------------------------------------------

CbcInit ==
    /\ phase = "encrypt"
    /\ plainModel \in Models /\ cipherKey \in Keys /\ iv \in Ivs
    /\ cipher = <<>> /\ stored = <<>> /\ damaged = 0
    /\ dkey \in Keys
    /\ plain = <<>> /\ accepted = FALSE

\* Mutant: each block is chained to the initialisation vector.
ChainedToIv(n) == Enc[cipherKey][XorBlock(PlainBlock(n), iv)]

\* Block n of the ciphertext, the ones before it being known.
Chained(n) == Enc[cipherKey][XorBlock(PlainBlock(n), Previous(cipher, n))]

EncryptBlock ==
    /\ phase = "encrypt" /\ Len(cipher) < BlockCount
    /\ cipher' = Append(cipher, Chained(Len(cipher) + 1))
    /\ UNCHANGED <<phase, plainModel, cipherKey, iv, stored, damaged, dkey, plain, accepted>>

Store ==
    /\ phase = "encrypt" /\ Len(cipher) = BlockCount
    /\ stored' = cipher
    /\ phase' = "stored"
    /\ UNCHANGED <<plainModel, cipherKey, iv, cipher, damaged, dkey, plain, accepted>>

\* One block of the package changes before it is loaded.
Damage(n, b) ==
    /\ phase = "stored" /\ damaged = 0
    /\ n \in 1..Len(stored) /\ b # stored[n]
    /\ stored' = [stored EXCEPT ![n] = b]
    /\ damaged' = n
    /\ UNCHANGED <<phase, plainModel, cipherKey, iv, cipher, dkey, plain, accepted>>

StartDecrypt ==
    /\ phase = "stored"
    /\ phase' = "decrypt"
    /\ UNCHANGED <<plainModel, cipherKey, iv, cipher, stored, damaged, dkey, plain, accepted>>

\* Mutant: the previous block is added, not xored.
UnchainedBySum(n) ==
    [i \in 1..BlockSize |-> Dec[dkey][stored[n]][i] + Previous(stored, n)[i]]

Unchained(n) == XorBlock(Dec[dkey][stored[n]], Previous(stored, n))

DecryptBlock ==
    /\ phase = "decrypt" /\ Len(plain) < Len(stored)
    /\ plain' = Append(plain, Unchained(Len(plain) + 1))
    /\ UNCHANGED <<phase, plainModel, cipherKey, iv, cipher, stored, damaged, dkey, accepted>>

\* Mutant: the header's size is compared before the padding is removed.
ChecksPaddedSize(buf, len) ==
    /\ PaddingValid(buf, len)
    /\ ContentValid(buf, len, Len(plainModel))

\* The header is not part of the ciphertext: its size field is the model's.
Checks(buf, len) ==
    /\ PaddingValid(buf, len)
    /\ ContentValid(buf, UnpaddedSize(buf, len), Len(plainModel))

Check ==
    /\ phase = "decrypt" /\ Len(plain) = Len(stored)
    /\ accepted' = Checks(Bytes(plain), Len(Bytes(plain)))
    /\ phase' = "checked"
    /\ UNCHANGED <<plainModel, cipherKey, iv, cipher, stored, damaged, dkey, plain>>

CbcNext ==
    \/ EncryptBlock \/ Store \/ StartDecrypt \/ DecryptBlock \/ Check
    \/ \E n \in 1..Len(stored), b \in Block : Damage(n, b)

CbcSpec == CbcInit /\ [][CbcNext]_cbcVars

-----------------------------------------------------------------------------
(* Properties.                                                             *)

\* Every variable keeps its type.
TypeOK ==
    /\ phase \in {"encrypt", "stored", "decrypt", "checked"}
    /\ plainModel \in Models /\ cipherKey \in Keys /\ iv \in Ivs /\ dkey \in Keys
    /\ cipher \in Seq(Block) /\ stored \in Seq(Block) /\ plain \in Seq(Block)
    /\ damaged \in 0..Len(stored)
    /\ accepted \in BOOLEAN

\* Under the encryptor's key decrypt_model gets back every block of the padded
\* model except, when a block of the package was damaged, that one and the one
\* chained to it.
DamageIsLocal ==
    dkey = cipherKey =>
        \A n \in 1..Len(plain) :
            damaged = 0 \/ n \notin {damaged, damaged + 1} => plain[n] = PlainBlock(n)

\* An undamaged package opened with the right key passes the checks if and
\* only if its model starts with the magic bytes, and what is left of the
\* plaintext without its padding is the model.
RoundTrip ==
    phase = "checked" /\ dkey = cipherKey /\ damaged = 0 =>
        /\ Bytes(plain) = Pkcs7Pad(plainModel)
        /\ accepted <=> (Len(plainModel) >= Len(MaixMagic) => HasMagic(plainModel))
        /\ SubSeq(Bytes(plain), 1, UnpaddedSize(Bytes(plain), Len(Bytes(plain)))) = plainModel
=============================================================================
