---------------------------- MODULE MCEncryptor -----------------------------
(* The tool: two models, and a file without any; two outputs, one without  *)
(* the extension the tool expects; given key files good and bad.           *)
(* The ciphertext it makes: blocks of two bytes of two bits, a permutation *)
(* of the sixteen blocks for each of two keys, models of up to three       *)
(* blocks.                                                                 *)
EXTENDS EncryptorTool, CbcPackage, Bitwise

CONSTANTS m1, m2, NoBytes

P(stem, ext) == [stem |-> stem, ext |-> ext]

MCInputs == {"a", "b", "broken"}
MCModelOf == [i \in MCInputs |-> CASE i = "a" -> m1 [] i = "b" -> m2 [] OTHER -> NoBytes]

GivenKeys == {P("model_key", ".bin"), P("short", ".bin"), P("new_key", ".bin")}
MCPaths == {P("out", e) : e \in {".bin", ".h", ".c", ".key", ".dat"}} \cup GivenKeys
MCKeyFiles ==
    [p \in MCPaths |->
        CASE p = P("model_key", ".bin") -> [kind |-> "key", key |-> <<"given", 0>>, salted |-> FALSE]
          [] p = P("short", ".bin") -> BadKey
          [] OTHER -> Absent]

Lines(outputs) ==
    {[input |-> i, output |-> o, mode |-> m.mode, key_file |-> m.key_file,
      password |-> m.password, output_key |-> m.output_key, c_header |-> ch] :
        i \in MCInputs, o \in outputs, ch \in BOOLEAN,
        m \in [mode : {"key"}, key_file : GivenKeys, password : {FALSE}, output_key : {NoPath}]
           \cup [mode : {"generate"}, key_file : {NoPath}, password : BOOLEAN,
                 output_key : {NoPath, P("new_key", ".bin")}]
           \cup [mode : {"psa"}, key_file : {NoPath}, password : {FALSE}, output_key : {NoPath}]}

MCInvocations == Lines({P("out", ".bin")})
MCOtherNames == Lines({P("out", ".bin"), P("out", ".dat")})

-----------------------------------------------------------------------------
(* The package's way from the encryptor to decrypt_model.                  *)

Number(b) == 4 * b[1] + b[2]
BlockOf(n) == <<n \div 4, n % 4>>

MCKeys == {1, 2}
MCEnc == [k \in MCKeys |-> [b \in Block |-> BlockOf((5 * Number(b) + 3 * k) % 16)]]
MCDec == [k \in MCKeys |-> [b \in Block |-> CHOOSE a \in Block : MCEnc[k][a] = b]]
MCXorByte == [a \in Byte |-> [b \in Byte |-> a ^^ b]]
MCModels == {<<>>, <<3>>, <<0, 2>>, <<3, 0, 0>>, <<3, 0, 0, 1>>, <<3, 0, 0, 2, 1>>}
MCIvs == {<<0, 0>>, <<2, 3>>}

MCMagic == <<3>>
MCSubSizeAt == {3}

-----------------------------------------------------------------------------
\* The files of the runs and the ciphertext of one package are questions of
\* their own: one is explored while the other is at a starting point.
ToolAtStart == runs = 0
CipherAtStart == phase = "encrypt" /\ cipher = <<>> /\ plainModel = <<>>
                 /\ cipherKey = 1 /\ dkey = 1 /\ iv = <<0, 0>>

MCInit == Init /\ CbcInit

MCNext == \/ CipherAtStart /\ Next /\ UNCHANGED cbcVars
          \/ ToolAtStart /\ CbcNext /\ UNCHANGED vars

MCSpec == MCInit /\ [][MCNext]_<<vars, cbcVars>>
=============================================================================
