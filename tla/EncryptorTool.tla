---------------------------- MODULE EncryptorTool ----------------------------
(***************************************************************************)
(* tools/tinymaix_model_encryptor.py as a program run again and again over *)
(* the same files: main, encrypt_tinymaix_model, the key files and the     *)
(* generated C files.  A file is written by opening it, which empties it,  *)
(* and then filling it; the program may be interrupted anywhere, and       *)
(* opening a file for writing may fail.  A package stands for the pair of  *)
(* key and model it was made from (CbcPackage is about its bytes).         *)
(***************************************************************************)
EXTENDS Naturals

CONSTANTS Paths,         \* files, as [stem, ext] records
          Inputs,        \* files the models are read from, never written
          ModelOf,       \* ModelOf[p]: what parse_tinymaix_header finds in p
          NoModel,       \* no such file, no array or no bytes in it: an error
          KeyFiles,      \* KeyFiles[p]: content of the key files there before
          Invocations,   \* command lines
          MaxRuns        \* bound: runs of the program

\* A command line: input, output, one of three key modes with the key file it
\* reads, password given or not, --output-key (NoPath if absent), --generate-c-header.
NoPath == [stem |-> "", ext |-> ""]

\* Mode "key" names a key file, "generate" may have a password, "psa" is the test key.
CommandLines ==
    [input : Inputs, output : Paths, mode : {"key", "generate", "psa"},
     key_file : Paths \cup {NoPath}, password : BOOLEAN,
     output_key : Paths \cup {NoPath}, c_header : BOOLEAN]

\* PSA_CRYPTO_TEST_KEY, keys of the given key files, keys drawn in a run.
PsaKey == <<"psa", 0>>
Drawn(n) == <<"drawn", n>>
KeyNames == {PsaKey, <<"given", 0>>} \cup {Drawn(n) : n \in 1..MaxRuns}
NoKey == <<"none", 0>>

Absent == [kind |-> "absent"]
Empty == [kind |-> "empty"]                \* opened, not filled
KeyContents == [kind : {"key"}, key : KeyNames, salted : BOOLEAN]
CHeader == [kind |-> "header"]
BadKey == [kind |-> "badkey"]              \* neither a key nor a salt and a key

ASSUME ToolConstants ==
    /\ NoPath \notin Paths /\ \A p \in Paths : p = [stem |-> p.stem, ext |-> p.ext]
    /\ DOMAIN ModelOf = Inputs
    /\ Invocations \subseteq CommandLines
    /\ KeyFiles \in [Paths -> KeyContents \cup {Absent, BadKey}]
    /\ MaxRuns \in Nat

VARIABLES files,       \* files[p]: content
          pc, runs,
          args,        \* the command line of this run
          model, key, salted

vars == <<files, pc, runs, args, model, key, salted>>

NoArgs == [input |-> CHOOSE i \in Inputs : TRUE, output |-> NoPath, mode |-> "psa",
           key_file |-> NoPath, password |-> FALSE, output_key |-> NoPath, c_header |-> FALSE]

\* str.replace of an extension: a name without it stays as it is.
Replace(p, from, to) == IF p.ext = from THEN [p EXCEPT !.ext = to] ELSE p

\* key_path: a key that was made is written to it, a given one read from it.
KeyPath == IF args.mode = "key" THEN args.key_file ELSE args.output_key
HeaderPath == Replace(args.output, ".bin", ".h")
SourcePath == Replace(HeaderPath, ".h", ".c")

PackageFile == [kind |-> "package", key |-> key, model |-> model]

-----------------------------------------------------------------------------

Init ==
    /\ files = KeyFiles
    /\ pc = "idle" /\ runs = 0
    /\ args = NoArgs
    /\ model = NoModel /\ key = NoKey /\ salted = FALSE

\* Where the key goes without --output-key.
DefaultKeyPath(a) == Replace(a.output, ".bin", ".key")

\* main up to the call of the workflow.
Invoke(a) ==
    /\ pc = "idle" /\ runs < MaxRuns
    /\ runs' = runs + 1
    /\ args' = IF a.mode # "key" /\ a.output_key = NoPath
               THEN [a EXCEPT !.output_key = DefaultKeyPath(a)] ELSE a
    /\ pc' = "parse"
    /\ model' = NoModel /\ key' = NoKey /\ salted' = FALSE
    /\ UNCHANGED files

\* An exception ends in sys.exit(1).
Fail ==
    /\ pc' = "failed"
    /\ UNCHANGED <<files, runs, args, model, key, salted>>

ParseHeader ==
    /\ pc = "parse"
    /\ \/ /\ ModelOf[args.input] = NoModel
          /\ Fail
       \/ /\ ModelOf[args.input] # NoModel
          /\ model' = ModelOf[args.input]
          /\ pc' = "key"
          /\ UNCHANGED <<files, runs, args, key, salted>>

\* load_key_file: the key with or without its salt, nothing else.
KeyLoads(f) == f.kind = "key"

ChooseKey ==
    /\ pc = "key"
    /\ \/ /\ args.mode = "key" /\ ~KeyLoads(files[args.key_file])
          /\ Fail
       \/ /\ \/ /\ args.mode = "psa"
                /\ key' = PsaKey /\ salted' = FALSE
             \/ /\ args.mode = "generate"       \* random, or derived with a random salt
                /\ key' = Drawn(runs) /\ salted' = args.password
             \/ /\ args.mode = "key" /\ KeyLoads(files[args.key_file])
                /\ key' = files[args.key_file].key
                /\ salted' = files[args.key_file].salted
          /\ pc' = "package"
          /\ UNCHANGED <<files, runs, args, model>>

\* open(path, "w") and the write that follows.
Open(p, next) ==
    /\ files' = [files EXCEPT ![p] = Empty]
    /\ pc' = next
    /\ UNCHANGED <<runs, args, model, key, salted>>

Fill(p, content, next) ==
    /\ files' = [files EXCEPT ![p] = content]
    /\ pc' = next
    /\ UNCHANGED <<runs, args, model, key, salted>>

AfterKey == IF args.c_header THEN "header" ELSE "success"
AfterPackage == IF args.mode = "key" THEN AfterKey ELSE "savekey"

OpenPackage == pc = "package" /\ Open(args.output, "fillpackage")
FillPackage == pc = "fillpackage" /\ Fill(args.output, PackageFile, AfterPackage)

\* Mutant: a derived key is saved with a salt of another size than load_key_file expects.
SavedKeyOfPassword == IF salted THEN BadKey ELSE [kind |-> "key", key |-> key, salted |-> FALSE]

\* save_key_file: the salt in front of a derived key.
SavedKey == [kind |-> "key", key |-> key, salted |-> salted]

OpenKey == pc = "savekey" /\ Open(KeyPath, "fillkey")
FillKey == pc = "fillkey" /\ Fill(KeyPath, SavedKey, AfterKey)

\* Mutant: C files that are already there are not made again.
OpenHeaderUnlessThere ==
    /\ pc = "header"
    /\ \/ files[HeaderPath] # CHeader /\ Open(HeaderPath, "fillheader")
       \/ files[HeaderPath] = CHeader /\ Fill(HeaderPath, CHeader, "success")

OpenHeader == pc = "header" /\ Open(HeaderPath, "fillheader")
FillHeader == pc = "fillheader" /\ Fill(HeaderPath, CHeader, "source")

OpenSource == pc = "source" /\ Open(SourcePath, "fillsource")
FillSource ==
    /\ pc = "fillsource"
    /\ Fill(SourcePath, [kind |-> "source", package |-> PackageFile], "success")

\* The file of the next step cannot be opened.
OpenFails == pc \in {"package", "savekey", "header", "source"} /\ Fail

\* The program is interrupted.
Interrupted == pc \notin {"idle", "success", "failed"} /\ Fail

\* The next run starts with what this one left.
Exit ==
    /\ pc \in {"success", "failed"}
    /\ pc' = "idle"
    /\ args' = NoArgs /\ model' = NoModel /\ key' = NoKey /\ salted' = FALSE
    /\ UNCHANGED <<files, runs>>

Next ==
    \/ \E a \in Invocations : Invoke(a)
    \/ ParseHeader \/ ChooseKey
    \/ OpenPackage \/ FillPackage \/ OpenKey \/ FillKey
    \/ OpenHeader \/ FillHeader \/ OpenSource \/ FillSource
    \/ OpenFails \/ Interrupted \/ Exit

Spec == Init /\ [][Next]_vars

-----------------------------------------------------------------------------
(* Properties.                                                             *)

\* When the program reports success the package it was asked for is in the
\* output file, and load_key_file gets its key from the key file: also when
\* the files are left from other runs that failed or were interrupted.
KeyOpensPackage ==
    pc = "success" =>
        /\ files[args.output] = [kind |-> "package", key |-> key, model |-> ModelOf[args.input]]
        /\ KeyLoads(files[KeyPath])
        /\ files[KeyPath].key = key

\* The C source the firmware is built from holds the package of the output file.
ArtifactsAgree ==
    pc = "success" /\ args.c_header =>
        /\ files[SourcePath] = [kind |-> "source", package |-> files[args.output]]
        /\ files[HeaderPath] = CHeader

\* "Encrypted model saved: {output_path}": once that was printed the package is
\* in that file at the end of the run, whatever its name.
SavedPackageStays ==
    pc = "success" => files[args.output].kind = "package"
=============================================================================
