------------------------- MODULE TinyMaixPartition --------------------------
(***************************************************************************)
(* The TinyMaix inference partition,                                       *)
(* partitions/tinymaix_inference/tinymaix_inference.c: one thread that     *)
(* takes a message, runs its handler and answers it.  A step ends where    *)
(* the code calls another partition (every psa_ call of the crypto API) or *)
(* the SPM; what the handler computes in between on its own globals is     *)
(* part of that step.  Locals that are dead once a message is answered go  *)
(* back to their initial values.                                           *)
(***************************************************************************)
EXTENDS ModelPackage, PsaIpc, PsaCrypto

CONSTANTS Packages,    \* the packages a build may have embedded
          DevMode,     \* built with DEV_MODE
          ImageSize,   \* pixels of an input image, 28*28
          Pixel,       \* what a pixel of an image can be
          BuiltinPic,  \* the initialiser of mnist_pic, the digit "2"
          Class        \* Class[p]: parse_output of what the model makes of p

\* A model that was loaded without the whole of its header has no layers: what
\* tm_run finds in their place decides.
Results(p, picture) == IF HeaderComplete(p) THEN {Class[picture]} ELSE -1..9

Pictures == [1..ImageSize -> Pixel]

ASSUME PartitionConstants ==
    /\ \A p \in Packages : p \in Package /\ WellFormed(p)
    /\ DevMode \in BOOLEAN
    /\ ImageSize \in Nat \ {0}
    /\ BuiltinPic \in Pictures
    /\ Class \in [Pictures -> -1..9]

VARIABLES pkg,                \* encrypted_mdl_data_data, fixed by the build
          spc,                \* where the partition's thread is
          msg,                \* the message being served
          status,             \* local: the status the handler will answer
          output_length,      \* local of decrypt_model
          operation,          \* local of decrypt_model: cipher op in use
          g_model_loaded, g_decrypted_model, g_decrypted_size,
          encryption_key,     \* "zero", "derived", or "unspecified"
          mnist_pic

modelVars == <<g_model_loaded, g_decrypted_model, g_decrypted_size>>
localVars == <<msg, status, output_length, operation>>
partVars == <<pkg, spc, localVars, modelVars, encryption_key, mnist_pic>>

SIZEOF_INT == 4
DERIVED_KEY_LEN == 16

LOAD == "TINYMAIX_IPC_LOAD_ENCRYPTED_MODEL"
RUN  == "TINYMAIX_IPC_RUN_INFERENCE"
KEY  == "TINYMAIX_IPC_GET_MODEL_KEY"

MessageTypes == {"PSA_IPC_CONNECT", "PSA_IPC_DISCONNECT", LOAD, RUN, KEY, "other"}
Messages == [client : Clients, type : MessageTypes,
             in_vec : Seq(Pixel), out_size : Nat]
NoMessage == [client |-> NoClient, type |-> "other", in_vec |-> <<>>, out_size |-> 0]

Errors == CryptoErrors \cup
    {"PSA_ERROR_INVALID_ARGUMENT", "PSA_ERROR_BUFFER_TOO_SMALL",
     "PSA_ERROR_GENERIC_ERROR", "PSA_ERROR_BAD_STATE",
     "PSA_ERROR_COMMUNICATION_FAILURE", "PSA_ERROR_NOT_SUPPORTED"}
Statuses == Errors \cup {"PSA_SUCCESS"}

\* What psa_write puts in an output vector: nothing, one integer, or the key.
\* TheKey stands for the 16 key bytes: no class has its value.
TheKey == 10
OutVecs == {<<>>} \cup {<<r>> : r \in -1..TheKey}
Replies == [status : Statuses, out : OutVecs]

KdfSteps    == {"kdf_setup", "kdf_salt", "kdf_secret", "kdf_info", "kdf_output", "kdf_abort"}
CipherSteps == {"cipher_setup", "set_iv", "update", "finish", "cipher_abort", "destroy_key"}
LoadSteps   == {"crypto_init", "import_key", "validate"} \cup KdfSteps \cup CipherSteps
ServicePoints == {"wait", "dispatch"} \cup LoadSteps

PartTypeOK ==
    /\ pkg \in Package
    /\ spc \in ServicePoints
    /\ msg \in Messages \cup {NoMessage}
    /\ status \in Statuses
    /\ output_length \in 0..MaxModelSize
    /\ operation \in {"inactive", "active"}
    /\ g_model_loaded \in BOOLEAN
    /\ g_decrypted_model \in Buffer
    /\ g_decrypted_size \in 0..MaxModelSize
    /\ encryption_key \in {"zero", "derived", "unspecified"}
    /\ mnist_pic \in Pictures

\* tinymaix_inference_init and the static initialisers.
PartInit ==
    /\ pkg \in Packages
    /\ spc = "wait"
    /\ msg = NoMessage
    /\ status = "PSA_SUCCESS"
    /\ output_length = 0
    /\ operation = "inactive"
    /\ g_model_loaded = FALSE
    /\ g_decrypted_model = [i \in 1..MaxModelSize |-> 0]
    /\ g_decrypted_size = 0
    /\ encryption_key = "zero"
    /\ mnist_pic = BuiltinPic

-----------------------------------------------------------------------------
\* psa_reply ends the handler: back to psa_wait, the locals are dead.
Reply(st, out) ==
    /\ PsaReply(msg.client, st, out)
    /\ spc' = "wait"
    /\ msg' = NoMessage
    /\ status' = "PSA_SUCCESS"
    /\ output_length' = 0
    /\ operation' = "inactive"
    /\ UNCHANGED pkg

Goto(from, to) == spc = from /\ spc' = to /\ UNCHANGED <<ipcVars, pkg, msg>>

\* Top of the service loop: psa_wait, psa_get.
GetMessage ==
    /\ spc = "wait"
    /\ PsaGet
    /\ msg' = Head(queue)
    /\ spc' = "dispatch"
    /\ UNCHANGED <<pkg, status, output_length, operation, modelVars,
                   encryption_key, mnist_pic, cryptoVars>>

Dispatch(type) == spc = "dispatch" /\ msg.type = type

ServeConnection ==
    /\ Dispatch("PSA_IPC_CONNECT") \/ Dispatch("PSA_IPC_DISCONNECT")
    /\ Reply("PSA_SUCCESS", <<>>)
    /\ UNCHANGED <<modelVars, encryption_key, mnist_pic, cryptoVars>>

\* default: also GET_MODEL_KEY when the build has no DEV_MODE.
ServeUnsupported ==
    /\ Dispatch("other") \/ (Dispatch(KEY) /\ ~DevMode)
    /\ Reply("PSA_ERROR_NOT_SUPPORTED", <<>>)
    /\ UNCHANGED <<modelVars, encryption_key, mnist_pic, cryptoVars>>

-----------------------------------------------------------------------------
(* LOAD_ENCRYPTED_MODEL.                                                   *)

\* Mutant: the failure branch does not clear g_model_loaded.
LoadFailsKeepingModel(st) ==
    /\ Reply(st, <<>>)
    /\ UNCHANGED <<modelVars, mnist_pic>>

\* Every failure of the load handler drops the model that was loaded.
LoadFails(st) ==
    /\ g_model_loaded' = FALSE
    /\ Reply(st, <<>>)
    /\ UNCHANGED <<g_decrypted_model, g_decrypted_size, mnist_pic>>

LoadRejectHeader ==
    /\ Dispatch(LOAD)
    /\ HeaderStatus(pkg) # "PSA_SUCCESS"
    /\ LoadFails(HeaderStatus(pkg))
    /\ UNCHANGED <<encryption_key, cryptoVars>>

LoadBegin ==
    /\ Dispatch(LOAD)
    /\ HeaderStatus(pkg) = "PSA_SUCCESS"
    /\ Goto("dispatch", "crypto_init")
    /\ UNCHANGED <<status, output_length, operation, modelVars,
                   encryption_key, mnist_pic, cryptoVars>>

\* PSA_ERROR_ALREADY_EXISTS counts as success.
LoadCryptoInit ==
    /\ Goto("crypto_init", "kdf_setup")
    /\ UNCHANGED <<status, output_length, operation, modelVars,
                   encryption_key, mnist_pic, cryptoVars>>

LoadCryptoInitFails(err) ==
    /\ spc = "crypto_init"
    /\ LoadFails(err)
    /\ UNCHANGED <<encryption_key, cryptoVars>>

-----------------------------------------------------------------------------
(* GET_MODEL_KEY, and derive_key_from_huk, which both handlers call.       *)

KeyBufferTooSmall ==
    /\ Dispatch(KEY) /\ DevMode
    /\ msg.out_size < DERIVED_KEY_LEN
    /\ Reply("PSA_ERROR_BUFFER_TOO_SMALL", <<>>)
    /\ UNCHANGED <<modelVars, encryption_key, mnist_pic, cryptoVars>>

KeyBegin ==
    /\ Dispatch(KEY) /\ DevMode
    /\ msg.out_size >= DERIVED_KEY_LEN
    /\ Goto("dispatch", "kdf_setup")
    /\ UNCHANGED <<status, output_length, operation, modelVars,
                   encryption_key, mnist_pic, cryptoVars>>

\* What the caller of derive_key_from_huk does with an error: decrypt_model
\* turns it into PSA_ERROR_GENERIC_ERROR, the key handler answers it.
DeriveFails(err) ==
    \/ /\ msg.type = LOAD
       /\ LoadFails("PSA_ERROR_GENERIC_ERROR")
       /\ UNCHANGED encryption_key
    \/ /\ msg.type = KEY
       /\ Reply(err, <<>>)
       /\ UNCHANGED <<modelVars, encryption_key, mnist_pic>>

DeriveSetup ==
    /\ Goto("kdf_setup", "kdf_salt")
    /\ KdfSetup
    /\ UNCHANGED <<status, output_length, operation, modelVars,
                   encryption_key, mnist_pic>>

\* Mutant: the setup failure aborts an operation that was never set up.
DeriveSetupFailsAborting(err) ==
    /\ spc = "kdf_setup"
    /\ DeriveFails(err)
    /\ KdfAbort

\* The one early return without an abort: there is no operation yet.
DeriveSetupFails(err) ==
    /\ spc = "kdf_setup"
    /\ DeriveFails(err)
    /\ UNCHANGED cryptoVars

KdfNext == [kdf_salt |-> "kdf_secret", kdf_secret |-> "kdf_info",
            kdf_info |-> "kdf_output"]

\* The three input calls: empty salt, the HUK, the label.
DeriveInput ==
    /\ spc \in DOMAIN KdfNext
    /\ Goto(spc, KdfNext[spc])
    /\ UNCHANGED <<status, output_length, operation, modelVars,
                   encryption_key, mnist_pic, cryptoVars>>

DeriveInputFails(err) ==
    /\ spc \in DOMAIN KdfNext
    /\ Goto(spc, "kdf_abort")
    /\ status' = err
    /\ UNCHANGED <<output_length, operation, modelVars,
                   encryption_key, mnist_pic, cryptoVars>>

\* decrypt_model derives into the global encryption_key, the key handler
\* into its stack.
DeriveOutput ==
    /\ Goto("kdf_output", "kdf_abort")
    /\ encryption_key' = IF msg.type = LOAD THEN "derived" ELSE encryption_key
    /\ UNCHANGED <<status, output_length, operation, modelVars, mnist_pic, cryptoVars>>

DeriveOutputFails(err) ==
    /\ Goto("kdf_output", "kdf_abort")
    /\ status' = err
    /\ encryption_key' = IF msg.type = LOAD THEN "unspecified" ELSE encryption_key
    /\ UNCHANGED <<output_length, operation, modelVars, mnist_pic, cryptoVars>>

\* psa_key_derivation_abort and the return to the caller.
DeriveReturnsError ==
    /\ spc = "kdf_abort" /\ status # "PSA_SUCCESS"
    /\ KdfAbort
    /\ DeriveFails(status)

\* Mutant: decrypt_model does not look at what derive_key_from_huk returned.
DeriveReturnsToLoadUnchecked ==
    /\ Goto("kdf_abort", "import_key")
    /\ msg.type = LOAD
    /\ KdfAbort
    /\ UNCHANGED <<status, output_length, operation, modelVars,
                   encryption_key, mnist_pic>>

DeriveReturnsToLoad ==
    /\ Goto("kdf_abort", "import_key")
    /\ status = "PSA_SUCCESS" /\ msg.type = LOAD
    /\ KdfAbort
    /\ UNCHANGED <<status, output_length, operation, modelVars,
                   encryption_key, mnist_pic>>

DeriveReturnsKey ==
    /\ spc = "kdf_abort" /\ status = "PSA_SUCCESS" /\ msg.type = KEY
    /\ KdfAbort
    /\ Reply("PSA_SUCCESS", <<TheKey>>)
    /\ UNCHANGED <<modelVars, encryption_key, mnist_pic>>

-----------------------------------------------------------------------------
(* The cipher part of decrypt_model.                                       *)

LoadImportKey ==
    /\ Goto("import_key", "cipher_setup")
    /\ ImportKey
    /\ UNCHANGED <<status, output_length, operation, modelVars,
                   encryption_key, mnist_pic>>

LoadImportKeyFails(err) ==
    /\ spc = "import_key"
    /\ LoadFails(err)
    /\ UNCHANGED <<encryption_key, cryptoVars>>

LoadCipherSetup ==
    /\ Goto("cipher_setup", "set_iv")
    /\ CipherSetup
    /\ operation' = "active"
    /\ UNCHANGED <<status, output_length, modelVars, encryption_key, mnist_pic>>

\* Mutant: the early return forgets psa_destroy_key.
LoadCipherSetupFailsKeepingKey(err) ==
    /\ spc = "cipher_setup"
    /\ LoadFails(err)
    /\ UNCHANGED <<encryption_key, cryptoVars>>

\* No operation to abort, but the key is destroyed.
LoadCipherSetupFails(err) ==
    /\ Goto("cipher_setup", "destroy_key")
    /\ status' = err
    /\ UNCHANGED <<output_length, operation, modelVars,
                   encryption_key, mnist_pic, cryptoVars>>

LoadSetIv ==
    /\ Goto("set_iv", "update")
    /\ UNCHANGED <<status, output_length, operation, modelVars,
                   encryption_key, mnist_pic, cryptoVars>>

LoadSetIvFails(err) ==
    /\ Goto("set_iv", "cipher_abort")
    /\ status' = err
    /\ UNCHANGED <<output_length, operation, modelVars,
                   encryption_key, mnist_pic, cryptoVars>>

\* The first n bytes of the buffer become those of the plaintext.
Overwrite(n) == g_decrypted_model' =
    [i \in 1..MaxModelSize |-> IF i <= n THEN pkg.plain[i] ELSE g_decrypted_model[i]]

CiphertextSize == pkg.size - HeaderSize

\* CBC without padding emits every whole block; a partial one stays inside
\* the operation until psa_cipher_finish.
LoadUpdate ==
    /\ Goto("update", "finish")
    /\ Overwrite(Len(pkg.plain))
    /\ output_length' = Len(pkg.plain)
    /\ UNCHANGED <<status, operation, g_model_loaded, g_decrypted_size,
                   encryption_key, mnist_pic, cryptoVars>>

\* A failing update may have written some of the blocks.
LoadUpdateFails(err, written) ==
    /\ Goto("update", "cipher_abort")
    /\ status' = err
    /\ Overwrite(written)
    /\ UNCHANGED <<output_length, operation, g_model_loaded, g_decrypted_size,
                   encryption_key, mnist_pic, cryptoVars>>

\* psa_cipher_finish ends the operation when it succeeds, which it can only
\* when no partial block is left.
LoadFinish ==
    /\ Goto("finish", "cipher_abort")
    /\ CiphertextSize % BlockSize = 0
    /\ CipherRelease
    /\ operation' = "inactive"
    /\ UNCHANGED <<status, output_length, modelVars, encryption_key, mnist_pic>>

LoadFinishFails(err) ==
    /\ Goto("finish", "cipher_abort")
    /\ status' = err
    /\ UNCHANGED <<output_length, operation, modelVars,
                   encryption_key, mnist_pic, cryptoVars>>

\* psa_cipher_abort does nothing to an operation that is over.
LoadCipherAbort ==
    /\ Goto("cipher_abort", "destroy_key")
    /\ \/ operation = "active" /\ CipherRelease
       \/ operation = "inactive" /\ UNCHANGED cryptoVars
    /\ operation' = "inactive"
    /\ UNCHANGED <<status, output_length, modelVars, encryption_key, mnist_pic>>

LoadDestroyKey ==
    /\ Goto("destroy_key", "validate")
    /\ DestroyKey
    /\ UNCHANGED <<status, output_length, operation, modelVars,
                   encryption_key, mnist_pic>>

-----------------------------------------------------------------------------
(* The checks after decryption, tm_load, and the answer.                   *)

LoadDecryptFailed ==
    /\ spc = "validate" /\ status # "PSA_SUCCESS"
    /\ LoadFails(status)
    /\ UNCHANGED <<encryption_key, cryptoVars>>

LoadBadPadding ==
    /\ spc = "validate" /\ status = "PSA_SUCCESS"
    /\ ~PaddingValid(g_decrypted_model, output_length)
    /\ LoadFails("PSA_ERROR_GENERIC_ERROR")
    /\ UNCHANGED <<encryption_key, cryptoVars>>

\* g_decrypted_size is assigned before it is compared; tm_load runs only
\* when decrypt_model succeeded.
LoadFinal ==
    LET size == UnpaddedSize(g_decrypted_model, output_length)
        ok == /\ ContentValid(g_decrypted_model, size, pkg.original_size)
              /\ TmLoad(g_decrypted_model) = "TM_OK"
    IN  /\ spc = "validate" /\ status = "PSA_SUCCESS"
        /\ PaddingValid(g_decrypted_model, output_length)
        /\ g_decrypted_size' = size
        /\ g_model_loaded' = ok
        /\ \/ /\ ok
              /\ Reply("PSA_SUCCESS", IF msg.out_size >= SIZEOF_INT THEN <<0>> ELSE <<>>)
           \/ /\ ~ok
              /\ Reply("PSA_ERROR_GENERIC_ERROR", <<>>)
        /\ UNCHANGED <<g_decrypted_model, encryption_key, mnist_pic, cryptoVars>>

-----------------------------------------------------------------------------
(* RUN_INFERENCE.                                                          *)

RunFails(st) ==
    /\ Reply(st, <<>>)
    /\ UNCHANGED <<modelVars, encryption_key, cryptoVars>>

\* Mutant: the branch leaves the switch without psa_reply.
RunNotLoadedUnanswered ==
    /\ Dispatch(RUN) /\ ~g_model_loaded
    /\ Goto("dispatch", "wait")
    /\ UNCHANGED <<status, output_length, operation, modelVars,
                   encryption_key, mnist_pic, cryptoVars>>

RunNotLoaded ==
    /\ Dispatch(RUN) /\ ~g_model_loaded
    /\ RunFails("PSA_ERROR_BAD_STATE")
    /\ UNCHANGED mnist_pic

RunBadSize ==
    /\ Dispatch(RUN) /\ g_model_loaded
    /\ Len(msg.in_vec) \notin {0, ImageSize}
    /\ RunFails("PSA_ERROR_INVALID_ARGUMENT")
    /\ UNCHANGED mnist_pic

\* psa_read straight into mnist_pic; a short read leaves a mixture there.
ReadImage(n) == mnist_pic' =
    [i \in 1..ImageSize |-> IF i <= n THEN msg.in_vec[i] ELSE mnist_pic[i]]

RunShortRead(n) ==
    /\ Dispatch(RUN) /\ g_model_loaded
    /\ Len(msg.in_vec) = ImageSize /\ n < ImageSize
    /\ ReadImage(n)
    /\ RunFails("PSA_ERROR_COMMUNICATION_FAILURE")

\* The image the engine works on is mnist_pic in both branches: the client's
\* (just read) or, without input data, whatever mnist_pic holds.
SelectImage ==
    /\ Dispatch(RUN) /\ g_model_loaded
    /\ \/ Len(msg.in_vec) = ImageSize /\ ReadImage(ImageSize)
       \/ Len(msg.in_vec) = 0 /\ UNCHANGED mnist_pic

\* tm_preprocess cannot fail; tm_run stops at a layer type it does not know.
RunEngineFails ==
    /\ SelectImage
    /\ RunFails("PSA_ERROR_GENERIC_ERROR")

RunInference ==
    /\ SelectImage
    /\ \E r \in Results(pkg, mnist_pic') :
          Reply("PSA_SUCCESS", IF msg.out_size >= SIZEOF_INT THEN <<r>> ELSE <<>>)
    /\ UNCHANGED <<modelVars, encryption_key, cryptoVars>>

-----------------------------------------------------------------------------
\* Failures the crypto service may report at any call.
CryptoFailure(err) ==
    \/ LoadCryptoInitFails(err) \/ DeriveSetupFails(err)
    \/ DeriveInputFails(err) \/ DeriveOutputFails(err)
    \/ LoadImportKeyFails(err) \/ LoadCipherSetupFails(err)
    \/ LoadSetIvFails(err) \/ LoadFinishFails(err)
    \/ \E n \in 0..Len(pkg.plain) : n % BlockSize = 0 /\ LoadUpdateFails(err, n)

Load ==
    \/ LoadRejectHeader \/ LoadBegin \/ LoadCryptoInit
    \/ LoadImportKey \/ LoadCipherSetup \/ LoadSetIv \/ LoadUpdate
    \/ LoadFinish \/ LoadCipherAbort \/ LoadDestroyKey
    \/ LoadDecryptFailed \/ LoadBadPadding \/ LoadFinal

Derive ==
    \/ KeyBufferTooSmall \/ KeyBegin \/ DeriveSetup \/ DeriveInput
    \/ DeriveOutput \/ DeriveReturnsError \/ DeriveReturnsToLoad
    \/ DeriveReturnsKey

Run ==
    \/ RunNotLoaded \/ RunBadSize \/ RunEngineFails \/ RunInference
    \/ \E n \in 0..(ImageSize - 1) : RunShortRead(n)

\* One step of the partition's thread.
PartNext ==
    \/ GetMessage \/ ServeConnection \/ ServeUnsupported
    \/ Load \/ Derive \/ Run
    \/ \E err \in CryptoErrors : CryptoFailure(err)

-----------------------------------------------------------------------------
(* Properties of the partition.                                            *)

\* Between two messages the partition holds no key derivation operation, no
\* cipher operation and no imported key, whichever call of decrypt_model or
\* derive_key_from_huk failed; and it never holds two of a kind.
ResourcesReleased ==
    /\ kdf_ops <= 1 /\ cipher_ops <= 1 /\ keys <= 1
    /\ spc \in {"wait", "dispatch"} => kdf_ops = 0 /\ cipher_ops = 0 /\ keys = 0

Loading == spc \in LoadSteps /\ msg.type = LOAD

\* While g_model_loaded is set and no load is in progress, the buffer holds
\* the model of a package the encryptor made, all of it with its padding, and
\* zeros beyond; a partly overwritten or rejected buffer is never what
\* inference runs on.  The model need not be complete: see ModelLoadable for
\* how the zeros of the buffer make up for a short one.
LoadedModelIntact ==
    g_model_loaded /\ ~Loading =>
        /\ Genuine(pkg)
        /\ g_decrypted_size = pkg.original_size
        /\ \A i \in 1..MaxModelSize :
              g_decrypted_model[i] = IF i <= Len(pkg.plain) THEN pkg.plain[i] ELSE 0
        /\ TmLoad(g_decrypted_model) = "TM_OK"

\* The cipher operation only ever runs under a key that derive_key_from_huk
\* has just produced, never under the zeros or the leftovers of a failed
\* derivation.
DecryptsWithDerivedKey == keys > 0 => encryption_key = "derived"
=============================================================================
