---------------------------- MODULE ModelPackage ----------------------------
(***************************************************************************)
(* The encrypted model package: how tools/tinymaix_model_encryptor.py      *)
(* builds it, the checks decrypt_model makes on it, and what tm_load       *)
(* requires of the decrypted bytes.  Pure operators; the partition that    *)
(* uses them is TinyMaixPartition; CbcPackage is the ciphertext between.   *)
(*                                                                         *)
(* A package is a record                                                   *)
(*   size           encrypted_size, header included                        *)
(*   magic          the header carries ENCRYPTED_HEADER_MAGIC              *)
(*   version        the version field                                      *)
(*   original_size  the plaintext length the header announces              *)
(*   plain          the bytes CBC decryption of the ciphertext yields      *)
(***************************************************************************)
EXTENDS Integers, Sequences

CONSTANTS BlockSize,       \* AES block, 16
          HeaderSize,      \* ENCRYPTED_HEADER_CBC_SIZE, 28
          MaxModelSize,    \* TFM_TINYMAIX_MAX_MODEL_SIZE, 4096
          ByteMax,         \* 255
          MaixMagic,       \* the four bytes "MAIX"
          ModelInt8,       \* TM_MDL_INT8, 0, the type this engine is built for
          SubSizeAt,       \* where the bytes of sub_size are, 17..20
          LayersBody       \* sizeof(tm_mdlbin_t), 64: where the layers begin

Byte == 0..ByteMax

\* Positions are counted from 1.  The padding byte fits a byte, and neither a
\* byte of "MAIX" nor the model type can be mistaken for one.
ASSUME PackageConstants ==
    /\ BlockSize \in Nat \ {0} /\ HeaderSize \in Nat \ {0}
    /\ MaxModelSize \in Nat /\ ByteMax \in Nat /\ BlockSize <= ByteMax
    /\ MaixMagic \in Seq(Byte) /\ MaixMagic # <<>>
    /\ \A i \in 1..Len(MaixMagic) : MaixMagic[i] > BlockSize
    /\ SubSizeAt \subseteq (Len(MaixMagic) + 2)..LayersBody
    /\ LayersBody \in Nat /\ Len(MaixMagic) < LayersBody /\ LayersBody <= MaxModelSize
    /\ ModelInt8 \in Byte /\ ModelInt8 \notin 1..BlockSize

\* struct field of every package of this format
PackageVersion == 3

Package == [size : Nat, magic : BOOLEAN, version : Nat,
            original_size : Nat, plain : Seq(Byte)]

\* The plaintext is the whole blocks of what follows the header.
WellFormed(p) ==
    /\ Len(p.plain) % BlockSize = 0
    /\ p.size < HeaderSize => p.plain = <<>>
    /\ p.size >= HeaderSize => p.size - HeaderSize - Len(p.plain) \in 0..(BlockSize - 1)

\* The type of g_decrypted_model.
Buffer == [1..MaxModelSize -> Byte]

-----------------------------------------------------------------------------
(* The encryptor.                                                          *)

\* _pkcs7_pad: a full block of padding when the length is a multiple.
PadLength(n) == BlockSize - (n % BlockSize)
Pkcs7Pad(m) == m \o [i \in 1..PadLength(Len(m)) |-> PadLength(Len(m))]

\* create_encrypted_package, the ciphertext standing for its plaintext.
PackageOf(m) == [size          |-> HeaderSize + Len(Pkcs7Pad(m)),
                 magic         |-> TRUE,
                 version       |-> PackageVersion,
                 original_size |-> Len(m),
                 plain         |-> Pkcs7Pad(m)]

-----------------------------------------------------------------------------
(* decrypt_model.                                                          *)

\* The size check of the LOAD handler and the header checks, in code order.
HeaderStatus(p) ==
    IF p.size > MaxModelSize THEN "PSA_ERROR_INSUFFICIENT_MEMORY"
    ELSE IF p.size < HeaderSize THEN "PSA_ERROR_INVALID_ARGUMENT"
    ELSE IF ~p.magic \/ p.version # PackageVersion
         THEN "PSA_ERROR_INVALID_ARGUMENT"
    ELSE IF p.original_size > MaxModelSize THEN "PSA_ERROR_BUFFER_TOO_SMALL"
    ELSE IF p.size = HeaderSize THEN "PSA_ERROR_INVALID_ARGUMENT"
    ELSE "PSA_SUCCESS"

\* Mutant: only the last padding byte is looked at.
PaddingLengthValid(buf, len) ==
    /\ len > 0
    /\ buf[len] \in 1..BlockSize
    /\ buf[len] <= len

\* Manual PKCS7 check of the first len bytes of the buffer.
PaddingValid(buf, len) ==
    /\ len > 0
    /\ buf[len] \in 1..BlockSize
    /\ buf[len] <= len
    /\ \A i \in 0..(buf[len] - 1) : buf[len - i] = buf[len]

UnpaddedSize(buf, len) == len - buf[len]

HasMagic(buf) == \A i \in 1..Len(MaixMagic) : buf[i] = MaixMagic[i]

\* The size and magic checks that follow the removal of the padding.
ContentValid(buf, size, original_size) ==
    /\ size = original_size
    /\ size >= Len(MaixMagic) => HasMagic(buf)

-----------------------------------------------------------------------------
(* tm_load: the engine looks at the whole buffer, not at g_decrypted_size. *)

MdlType(buf) == buf[Len(MaixMagic) + 1]

\* sub_size > 0, a number of several bytes.
NeedsSubBuffer(buf) == \E i \in SubSizeAt : buf[i] > 0

\* buf is static, so only a model with a sub-buffer needs tm_malloc, which
\* this port defines as NULL.
TmLoad(buf) ==
    IF ~HasMagic(buf) THEN "TM_ERR_MAGIC"
    ELSE IF MdlType(buf) # ModelInt8 THEN "TM_ERR_MDLTYPE"
    ELSE IF NeedsSubBuffer(buf) THEN "TM_ERR_OOM"
    ELSE "TM_OK"

-----------------------------------------------------------------------------
(* Which packages load, said of the model the encryptor was given.         *)

\* The magic and the type are the model's own.  Each byte of sub_size is a 0
\* of the model or lies beyond its padding, where the static buffer is 0: a
\* model need not have a whole header to be loaded.
ModelLoadable(m) ==
    /\ Len(m) > Len(MaixMagic) /\ HasMagic(m) /\ MdlType(m) = ModelInt8
    /\ \A i \in SubSizeAt :
          i <= Len(Pkcs7Pad(m)) => i <= Len(m) /\ m[i] = 0

\* The encryptor made the package from such a model, and it fits.
Genuine(p) ==
    /\ p.size <= MaxModelSize
    /\ p.original_size <= Len(p.plain)
    /\ LET m == SubSeq(p.plain, 1, p.original_size)
       IN  p = PackageOf(m) /\ ModelLoadable(m)

\* The model reaches to where its layers begin.
HeaderComplete(p) == p.original_size >= LayersBody
=============================================================================
