----------------------------- MODULE PsaCrypto ------------------------------
(***************************************************************************)
(* The PSA Crypto service as decrypt_model and derive_key_from_huk use it: *)
(* a pool of multi-part operations, volatile key slots, and calls that may *)
(* fail.  The service is TF-M's, outside this repository: external.  The   *)
(* pools are shared with other partitions, so any call that takes          *)
(* something from one may fail whatever this partition holds.              *)
(***************************************************************************)
EXTENDS Integers

CONSTANTS OperMax,   \* CRYPTO_CONC_OPER_NUM, 8 in spe/config/config_tinyml.h
          KeyMax     \* volatile key slots

ASSUME CryptoConstants == OperMax \in Nat /\ KeyMax \in Nat

VARIABLES kdf_ops,     \* key derivation operations this partition holds
          cipher_ops,  \* cipher operations this partition holds
          keys         \* volatile keys this partition has imported

cryptoVars == <<kdf_ops, cipher_ops, keys>>

\* Any error code of the crypto service.
CryptoErrors == {"PSA_ERROR_CRYPTO", "PSA_ERROR_INSUFFICIENT_MEMORY"}

CryptoInit == kdf_ops = 0 /\ cipher_ops = 0 /\ keys = 0

CryptoTypeOK == /\ kdf_ops \in 0..OperMax
                /\ cipher_ops \in 0..OperMax
                /\ keys \in 0..KeyMax

OperFree == kdf_ops + cipher_ops < OperMax

KdfSetup     == OperFree /\ kdf_ops' = kdf_ops + 1 /\ UNCHANGED <<cipher_ops, keys>>
KdfAbort     == kdf_ops' = kdf_ops - 1 /\ UNCHANGED <<cipher_ops, keys>>
ImportKey    == keys < KeyMax /\ keys' = keys + 1 /\ UNCHANGED <<kdf_ops, cipher_ops>>
DestroyKey   == keys' = keys - 1 /\ UNCHANGED <<kdf_ops, cipher_ops>>
CipherSetup  == OperFree /\ cipher_ops' = cipher_ops + 1 /\ UNCHANGED <<kdf_ops, keys>>
CipherRelease == cipher_ops' = cipher_ops - 1 /\ UNCHANGED <<kdf_ops, keys>>
=============================================================================
