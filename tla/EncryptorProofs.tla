--------------------------- MODULE EncryptorProofs ---------------------------
(***************************************************************************)
(* What a run of tools/tinymaix_model_encryptor.py that reports success    *)
(* has left, for any files there before, any command lines whose files are *)
(* not the same, any number of runs, failures and interruptions.           *)
(***************************************************************************)
EXTENDS EncryptorTool, TLAPS

\* The key file of a command line.
KeyFileOf(a) == IF a.mode = "key" THEN a.key_file
                ELSE IF a.output_key = NoPath THEN DefaultKeyPath(a) ELSE a.output_key

\* No file the tool writes is one of its others.  When the C files are made the
\* extension they replace is there: without it the source overwrites the package.
SeparateFiles(a) ==
    /\ KeyFileOf(a) \in Paths \ {a.output}
    /\ a.c_header =>
         LET header == [a.output EXCEPT !.ext = ".h"]
             source == [a.output EXCEPT !.ext = ".c"]
         IN  /\ a.output.ext = ".bin" /\ {header, source} \subseteq Paths
             /\ KeyFileOf(a) \notin {header, source}

-----------------------------------------------------------------------------
(* The inductive invariant: what each stage of a run has left behind it.   *)

SourceStages  == {"source", "fillsource"}
HeaderStages  == {"header", "fillheader"} \cup SourceStages
KeyStages     == {"savekey", "fillkey"}
PackageStages == {"package", "fillpackage"}
Stages        == {"parse", "key", "failed"} \cup PackageStages \cup KeyStages \cup HeaderStages \cup {"success"}

ArgsInv ==
    pc # "idle" =>
       /\ {args.output, KeyPath} \subseteq Paths /\ KeyPath # args.output
       /\ args.c_header => /\ {HeaderPath, SourcePath} \subseteq Paths \ {args.output, KeyPath}
                           /\ HeaderPath # SourcePath

KeySaved == KeyLoads(files[KeyPath]) /\ files[KeyPath].key = key

StageInv ==
    /\ pc \in Stages \ {"parse", "failed"} => model = ModelOf[args.input]
    /\ pc \in KeyStages => args.mode # "key"
    /\ pc \in PackageStages /\ args.mode = "key" => KeySaved
    /\ pc \in KeyStages \cup HeaderStages \cup {"success"} => files[args.output] = PackageFile
    /\ pc \in HeaderStages \cup {"success"} => KeySaved
    /\ pc \in HeaderStages => args.c_header
    /\ pc \in SourceStages \/ (pc = "success" /\ args.c_header) => files[HeaderPath] = CHeader
    /\ pc = "success" /\ args.c_header => files[SourcePath] = [kind |-> "source", package |-> PackageFile]

ToolInv == /\ pc \in Stages \cup {"idle"} /\ files = [p \in Paths |-> files[p]]
           /\ ArgsInv /\ StageInv

LEMMA InitTool == Init => ToolInv
BY ToolConstants DEF Init, ToolInv, ArgsInv, StageInv, Stages, PackageStages, KeyStages, HeaderStages, SourceStages

\* The command line of a run names separate files.
LEMMA InvokeTool ==
    ASSUME \A a \in Invocations : SeparateFiles(a), ToolInv, NEW a \in Invocations, Invoke(a)
    PROVE  ToolInv'
<1>1. a \in CommandLines /\ a.output \in Paths /\ SeparateFiles(a)
  BY ToolConstants DEF CommandLines
<1>2. args'.output = a.output /\ args'.c_header = a.c_header /\ KeyPath' = KeyFileOf(a)
  BY <1>1 DEF Invoke, KeyPath, KeyFileOf, CommandLines
<1>3. {args'.output, KeyPath'} \subseteq Paths /\ KeyPath' # args'.output
  BY <1>1, <1>2 DEF SeparateFiles
<1>4. ASSUME a.c_header
      PROVE  /\ {HeaderPath', SourcePath'} \subseteq Paths \ {args'.output, KeyPath'}
             /\ HeaderPath' # SourcePath'
  <2>1. PICK stem : a.output = [stem |-> stem, ext |-> ".bin"]
    <3>1. a.output = [stem |-> a.output.stem, ext |-> a.output.ext]
      BY <1>1, ToolConstants
    <3>2. a.output.ext = ".bin"
      BY <1>1, <1>4 DEF SeparateFiles
    <3> QED BY <3>1, <3>2
  <2>2. /\ Replace(a.output, ".bin", ".h") = [stem |-> stem, ext |-> ".h"]
        /\ Replace([stem |-> stem, ext |-> ".h"], ".h", ".c") = [stem |-> stem, ext |-> ".c"]
        /\ [a.output EXCEPT !.ext = ".h"] = [stem |-> stem, ext |-> ".h"]
        /\ [a.output EXCEPT !.ext = ".c"] = [stem |-> stem, ext |-> ".c"]
    BY <2>1 DEF Replace
  <2>3. HeaderPath' = [stem |-> stem, ext |-> ".h"] /\ SourcePath' = [stem |-> stem, ext |-> ".c"]
    BY <1>2, <2>2 DEF HeaderPath, SourcePath
  <2>4. /\ {[stem |-> stem, ext |-> ".h"], [stem |-> stem, ext |-> ".c"]} \subseteq Paths
        /\ KeyFileOf(a) \notin {[stem |-> stem, ext |-> ".h"], [stem |-> stem, ext |-> ".c"]}
    BY <1>1, <1>4, <2>2 DEF SeparateFiles
  <2> QED BY <1>2, <2>1, <2>3, <2>4
<1>5. ArgsInv'
  BY <1>2, <1>3, <1>4 DEF ArgsInv
<1>6. pc' = "parse" /\ files' = files
  BY DEF Invoke
<1> QED BY <1>5, <1>6 DEF ToolInv, StageInv, Stages, PackageStages, KeyStages, HeaderStages, SourceStages

\* Paths are those of the command line as long as that is the same.
LEMMA SamePaths ==
    ASSUME UNCHANGED args
    PROVE  UNCHANGED <<KeyPath, HeaderPath, SourcePath>>
BY DEF KeyPath, HeaderPath, SourcePath

LEMMA EarlyTool ==
    ASSUME ToolInv, Fail \/ ParseHeader \/ ChooseKey, pc # "idle"
    PROVE  ToolInv'
<1> USE DEF Stages, PackageStages, KeyStages, HeaderStages, SourceStages
<1>1. UNCHANGED <<files, args, KeyPath, HeaderPath, SourcePath>>
  BY SamePaths DEF Fail, ParseHeader, ChooseKey
<1>2. ArgsInv'
  BY <1>1 DEF ToolInv, ArgsInv
<1>3. CASE pc' = "failed"
  BY <1>1, <1>2, <1>3 DEF ToolInv, StageInv
<1>4. CASE ParseHeader /\ pc' # "failed"
  BY <1>1, <1>2, <1>4 DEF ParseHeader, Fail, ToolInv, StageInv
<1>5. CASE ChooseKey /\ pc' # "failed"
  <2>1. pc = "key" /\ pc' = "package" /\ model' = model
    BY <1>5 DEF ChooseKey, Fail
  <2>2. args.mode = "key" => KeySaved'
    BY <1>1, <1>5 DEF ChooseKey, Fail, KeySaved, KeyPath
  <2> QED BY <1>1, <1>2, <2>1, <2>2 DEF ToolInv, StageInv
<1> QED BY <1>3, <1>4, <1>5 DEF Fail

\* Writing a file leaves the others.
LEMMA WriteTool ==
    ASSUME ToolInv, NEW p \in Paths, NEW content, NEW next \in Stages,
           files' = [files EXCEPT ![p] = content], pc' = next, UNCHANGED <<runs, args, model, key, salted>>,
           pc # "idle"
    PROVE  /\ files' = [q \in Paths |-> files'[q]] /\ ArgsInv' /\ UNCHANGED <<KeyPath, HeaderPath, SourcePath>>
           /\ PackageFile' = PackageFile
           /\ \A q \in Paths : files'[q] = IF q = p THEN content ELSE files[q]
<1>1. UNCHANGED <<KeyPath, HeaderPath, SourcePath>>
  BY SamePaths
<1>2. ArgsInv'
  BY <1>1 DEF ToolInv, ArgsInv
<1>3. files = [q \in Paths |-> files[q]]
  BY DEF ToolInv
<1> QED BY <1>1, <1>2, <1>3 DEF PackageFile

LEMMA PackageTool ==
    ASSUME ToolInv, OpenPackage \/ FillPackage
    PROVE  ToolInv'
<1> USE DEF Stages, PackageStages, KeyStages, HeaderStages, SourceStages
<1>1. /\ args.output \in Paths /\ KeyPath \in Paths /\ KeyPath # args.output /\ pc \in PackageStages
      /\ AfterPackage \in Stages
  BY DEF ToolInv, ArgsInv, OpenPackage, FillPackage, AfterPackage, AfterKey
<1>2. /\ ArgsInv' /\ UNCHANGED <<KeyPath, HeaderPath, SourcePath, PackageFile, args, model, key>>
      /\ files' = [q \in Paths |-> files'[q]] /\ files'[KeyPath] = files[KeyPath]
      /\ OpenPackage => pc' = "fillpackage"
      /\ FillPackage => files'[args.output] = PackageFile /\ pc' = AfterPackage
  BY <1>1, WriteTool DEF OpenPackage, FillPackage, Open, Fill
<1>3. CASE OpenPackage
  BY <1>1, <1>2, <1>3 DEF ToolInv, StageInv, KeySaved
<1>4. CASE FillPackage
  BY <1>1, <1>2, <1>4 DEF ToolInv, StageInv, KeySaved, AfterPackage, AfterKey
<1> QED BY <1>3, <1>4

LEMMA KeyTool ==
    ASSUME ToolInv, OpenKey \/ FillKey
    PROVE  ToolInv'
<1> USE DEF Stages, PackageStages, KeyStages, HeaderStages, SourceStages
<1>1. /\ args.output \in Paths /\ KeyPath \in Paths /\ KeyPath # args.output /\ pc \in KeyStages
      /\ AfterKey \in Stages
  BY DEF ToolInv, ArgsInv, OpenKey, FillKey, AfterKey
<1>2. /\ ArgsInv' /\ UNCHANGED <<KeyPath, HeaderPath, SourcePath, PackageFile, args, model, key>>
      /\ files' = [q \in Paths |-> files'[q]] /\ files'[args.output] = files[args.output]
      /\ OpenKey => pc' = "fillkey"
      /\ FillKey => files'[KeyPath] = SavedKey /\ pc' = AfterKey
  BY <1>1, WriteTool DEF OpenKey, FillKey, Open, Fill
<1>3. CASE OpenKey
  BY <1>1, <1>2, <1>3 DEF ToolInv, StageInv
<1>4. CASE FillKey
  <2>1. KeySaved'
    BY <1>2, <1>4 DEF KeySaved, SavedKey, KeyLoads
  <2> QED BY <1>1, <1>2, <1>4, <2>1 DEF ToolInv, StageInv, AfterKey
<1> QED BY <1>3, <1>4

LEMMA HeaderTool ==
    ASSUME ToolInv, OpenHeader \/ FillHeader \/ OpenSource \/ FillSource
    PROVE  ToolInv'
<1> USE DEF Stages, PackageStages, KeyStages, HeaderStages, SourceStages
<1>1. /\ {args.output, KeyPath, HeaderPath, SourcePath} \subseteq Paths
      /\ KeyPath \notin {args.output, HeaderPath, SourcePath}
      /\ HeaderPath \notin {args.output, SourcePath} /\ SourcePath # args.output
      /\ pc \in HeaderStages /\ args.c_header
  BY DEF ToolInv, ArgsInv, StageInv, OpenHeader, FillHeader, OpenSource, FillSource
<1>2. /\ ArgsInv' /\ UNCHANGED <<KeyPath, HeaderPath, SourcePath, PackageFile, args, model, key>>
      /\ files' = [q \in Paths |-> files'[q]]
      /\ files'[args.output] = files[args.output] /\ files'[KeyPath] = files[KeyPath]
      /\ \/ pc = "header" /\ pc' = "fillheader"
         \/ pc = "fillheader" /\ pc' = "source" /\ files'[HeaderPath] = CHeader
         \/ pc = "source" /\ pc' = "fillsource" /\ files'[HeaderPath] = files[HeaderPath]
         \/ /\ pc = "fillsource" /\ pc' = "success" /\ files'[HeaderPath] = files[HeaderPath]
            /\ files'[SourcePath] = [kind |-> "source", package |-> PackageFile]
  <2>1. CASE OpenHeader
    BY <1>1, <2>1, WriteTool DEF OpenHeader, Open
  <2>2. CASE FillHeader
    BY <1>1, <2>2, WriteTool DEF FillHeader, Fill
  <2>3. CASE OpenSource
    BY <1>1, <2>3, WriteTool DEF OpenSource, Open
  <2>4. CASE FillSource
    <3>1. pc = "fillsource" /\ pc' = "success" /\ UNCHANGED <<runs, args, model, key, salted>>
      BY <2>4 DEF FillSource, Fill
    <3>2. files' = [files EXCEPT ![SourcePath] = [kind |-> "source", package |-> PackageFile]]
      BY <2>4 DEF FillSource, Fill
    <3>3. \A q \in Paths : files'[q] = IF q = SourcePath THEN [kind |-> "source", package |-> PackageFile] ELSE files[q]
      BY <1>1, <3>1, <3>2, WriteTool
    <3>4. /\ ArgsInv' /\ UNCHANGED <<KeyPath, HeaderPath, SourcePath, PackageFile, args, model, key>>
          /\ files' = [q \in Paths |-> files'[q]]
      BY <1>1, <3>1, <3>2, WriteTool
    <3> QED BY <1>1, <3>1, <3>3, <3>4
  <2> QED BY <2>1, <2>2, <2>3, <2>4
<1>3. KeySaved' /\ files'[args.output] = PackageFile /\ model = ModelOf[args.input]
  BY <1>1, <1>2 DEF ToolInv, StageInv, KeySaved
<1> QED BY <1>1, <1>2, <1>3 DEF ToolInv, StageInv

LEMMA NextTool ==
    ASSUME \A a \in Invocations : SeparateFiles(a), ToolInv, [Next]_vars
    PROVE  ToolInv'
<1>1. CASE \E a \in Invocations : Invoke(a)
  BY <1>1, InvokeTool
<1>2. CASE ParseHeader \/ ChooseKey \/ OpenFails \/ Interrupted
  BY <1>2, EarlyTool DEF ParseHeader, ChooseKey, OpenFails, Interrupted
<1>3. CASE OpenPackage \/ FillPackage \/ OpenKey \/ FillKey \/ OpenHeader \/ FillHeader \/ OpenSource \/ FillSource
  BY <1>3, PackageTool, KeyTool, HeaderTool
<1>4. CASE Exit
  BY <1>4 DEF Exit, ToolInv, ArgsInv, StageInv, Stages, PackageStages, KeyStages, HeaderStages, SourceStages
<1>5. CASE UNCHANGED vars
  <2>1. UNCHANGED <<files, pc, args, model, key, KeyPath, HeaderPath, SourcePath, PackageFile>>
    BY <1>5, SamePaths DEF vars, PackageFile
  <2> QED BY <2>1 DEF ToolInv, ArgsInv, StageInv, KeySaved
<1> QED BY <1>1, <1>2, <1>3, <1>4, <1>5 DEF Next

-----------------------------------------------------------------------------

\* encrypt_tinymaix_model: whatever runs, failures and interruptions came
\* before, a run that reports success has left the package of its model in the
\* output file and the key of that package in the key file.
THEOREM KeyKept ==
    ASSUME \A a \in Invocations : SeparateFiles(a)
    PROVE  Spec => []KeyOpensPackage
<1>1. ToolInv => KeyOpensPackage
  BY DEF ToolInv, StageInv, Stages, KeySaved, KeyOpensPackage, PackageFile
<1>2. ToolInv /\ [Next]_vars => ToolInv'
  BY NextTool
<1> QED BY <1>1, <1>2, InitTool, PTL DEF Spec

\* generate_c_header: the C source that a successful run leaves holds the very
\* package of its output file, never that of an earlier run.
THEOREM SourceMatches ==
    ASSUME \A a \in Invocations : SeparateFiles(a)
    PROVE  Spec => []ArtifactsAgree
<1>1. ToolInv => ArtifactsAgree
  BY DEF ToolInv, StageInv, ArtifactsAgree
<1>2. ToolInv /\ [Next]_vars => ToolInv'
  BY NextTool
<1> QED BY <1>1, <1>2, InitTool, PTL DEF Spec
=============================================================================
