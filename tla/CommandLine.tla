---------------------------- MODULE CommandLine -----------------------------
(***************************************************************************)
(* The argument loop of CommandLine::ParseWithoutValidation               *)
(* (src/main/commandline.cpp, lines 723-1478).  One step handles one      *)
(* option: it reads the values that follow it in argv, parses them, sets  *)
(* Settings and advances argi.  When the loop meets the first argument    *)
(* that does not start with '-', the rest of argv are the input files.    *)
(*                                                                         *)
(* An argv element is a token of a small set.  The options are grouped by *)
(* what their handler does with argv: no value, one value (any string or  *)
(* an integer), two integers (-size), three strings (-restore), one or    *)
(* two (-weight), and the options that end the parse.  The Settings       *)
(* fields kept are those the properties are about; the other options      *)
(* change fields nothing here reads.                                      *)
(*                                                                         *)
(* argv[argc] is the null pointer and argv[argc + 1] lies outside argv;   *)
(* a handler that uses either of them has undefined behaviour (std::string *)
(* or strtol of a null pointer): the outcome "ub".                         *)
(***************************************************************************)
EXTENDS Naturals, Sequences, FiniteSets

CONSTANTS
    Tokens,    \* the strings an argv element may be
    MaxArgs,   \* the most arguments after the program name
    HaveIDG    \* whether WSClean was compiled with IDG

ASSUME CommandLineAssumption ==
    IsFiniteSet(Tokens) /\ MaxArgs \in Nat /\ HaveIDG \in BOOLEAN

(* The handled options of this model, by their handler.                    *)
EndOptions == {"-version", "-help"}
FlagOptions == {"-quiet", "-reorder", "-no-reorder", "-iuwt", "-negative",
                "-no-negative", "-dry-run", "-continue", "-make-psf",
                "-save-source-list", "-direct-ft", "-small-inversion",
                "-no-small-inversion", "-use-idg", "-join-channels",
                "-mf-weighting", "-no-mf-weighting", "-fit-beam", "-no-fit-beam",
                "-theoretic-beam", "-circular-beam", "-elliptical-beam"}
ValueOptions == {"-name", "-niter", "-size", "-restore", "-restore-list", "-weight",
                 "-padding", "-multiscale-shape", "-beam-shape",
                 "-apply-facet-solutions", "-beam-fitting-size"}

(* argv[argi][0] == '-': the tokens the loop takes for an option.          *)
Options == EndOptions \cup FlagOptions \cup ValueOptions \cup {"-bogus"}

(* parse_size_t, lines 672-688: strtol must consume the whole string and   *)
(* give a value >= 0.                                                      *)
ParsesAsSizeT(v) == v \in {"7", "0"}

(* parse_double, lines 696-706, and Angle::Parse: a finite number.         *)
ParsesAsDouble(v) == v \in {"7", "0"}

(* parse_double with a lower limit, lines 708-721: "0" is below 1.0.       *)
AtLeastOne(v) == ParsesAsDouble(v) /\ v # "0"

(* The same with lower limit 0.0, not inclusive: "0" is not above 0.0.     *)
AboveZero(v) == ParsesAsDouble(v) /\ v # "0"

WeightModes == {"natural", "uniform", "briggs"}

RestoreModes == {"RestoreMode", "RestoreListMode"}

Shapes == {"TaperedQuadraticShape", "GaussianShape"}

Outcomes == {"parsing", "printed", "dryrun", "run", "error", "ub"}

Roles == {"option", "value", "file"}

(* Every argv a user can give: up to MaxArgs tokens after the name.       *)
Argvs == UNION {[1..n -> Tokens] : n \in 0..MaxArgs}

-----------------------------------------------------------------------------
VARIABLES
    argv,       \* argv[1..argc-1]; the program's name is left out
    argi,       \* the index of the argument the loop is at
    settings,   \* the Settings fields the options below set
    locals,     \* dryRun, mfWeighting and noMFWeighting of the function
    filenames,  \* settings.filenames
    role,       \* role[i]: what the parse took argv[i] for
    result      \* "parsing", or how the call ended

vars == <<argv, argi, settings, locals, filenames, role, result>>

Argc == Len(argv) + 1

SettingsType ==
    [forceReorder : BOOLEAN, forceNoReorder : BOOLEAN,
     useIUWTDeconvolution : BOOLEAN, allowNegativeComponents : BOOLEAN,
     mode : {"ImagingMode"} \cup RestoreModes,
     continuedRun : BOOLEAN, makePSF : BOOLEAN, saveSourceList : BOOLEAN,
     multiscaleShapeFunction : Shapes, directFT : BOOLEAN,
     imagePadding : {"1.2", "1.0"} \cup Tokens, smallInversion : BOOLEAN,
     useIDG : BOOLEAN, joinedFrequencyDeconvolution : BOOLEAN,
     mfWeighting : BOOLEAN, fittedBeam : BOOLEAN, theoreticBeam : BOOLEAN,
     circularBeam : BOOLEAN, beamFittingBoxSize : {"10.0"} \cup Tokens]

TypeOK ==
    /\ argv \in Argvs
    /\ argi \in 1..Argc
    /\ settings \in SettingsType
    /\ locals \in [dryRun : BOOLEAN, mfWeighting : BOOLEAN, noMFWeighting : BOOLEAN]
    /\ filenames \in Seq(Tokens)
    /\ role \in [1..Len(argv) -> SUBSET Roles]
    /\ result \in Outcomes

(* Lines 733-737: the locals, and the defaults of WSClean's Settings       *)
(* (nothing forced, negative components allowed, imaging mode, padding     *)
(* 1.2, small inversion on, tapered-quadratic multiscale shape).           *)
Init ==
    /\ argv \in Argvs
    /\ argi = 1
    /\ settings = [forceReorder |-> FALSE, forceNoReorder |-> FALSE,
                   useIUWTDeconvolution |-> FALSE,
                   allowNegativeComponents |-> TRUE, mode |-> "ImagingMode",
                   continuedRun |-> FALSE, makePSF |-> FALSE,
                   saveSourceList |-> FALSE,
                   multiscaleShapeFunction |-> "TaperedQuadraticShape",
                   directFT |-> FALSE, imagePadding |-> "1.2",
                   smallInversion |-> TRUE, useIDG |-> FALSE,
                   joinedFrequencyDeconvolution |-> FALSE, mfWeighting |-> FALSE,
                   fittedBeam |-> TRUE, theoreticBeam |-> FALSE,
                   circularBeam |-> FALSE, beamFittingBoxSize |-> "10.0"]
    /\ locals = [dryRun |-> FALSE, mfWeighting |-> FALSE, noMFWeighting |-> FALSE]
    /\ filenames = <<>>
    /\ role = [i \in 1..Len(argv) |-> {}]
    /\ result = "parsing"

-----------------------------------------------------------------------------
(* Lines 725-731: without arguments the help is printed and false returned. *)
NoArguments ==
    /\ result = "parsing" /\ Argc < 2
    /\ result' = "printed"
    /\ UNCHANGED <<argv, argi, settings, locals, filenames, role>>

(* The loop's condition, line 738.                                         *)
InLoop == result = "parsing" /\ argi < Argc /\ argv[argi] \in Options

(* How reading argv[argi + 1 .. argi + n] ends.  valid[k] is the set of    *)
(* tokens the handler accepts as its k-th value.  The values are read in   *)
(* order and the first bad one decides: the null pointer or past it        *)
(* ("ub"), or a token that does not parse ("error").                       *)
ValuesOutcome(n, valid) ==
    LET bad == {k \in 1..n : argi + k >= Argc \/ argv[argi + k] \notin valid[k]}
        first == CHOOSE k \in bad : \A j \in bad : k <= j
    IN  IF bad = {} THEN "ok"
        ELSE IF argi + first >= Argc THEN "ub" ELSE "error"

(* The handler of the option at argi reads n values and, when they all     *)
(* parse, sets Settings to new and advances argi by step and then by the  *)
(* ++argi at the end of the loop (line 1445).                              *)
Option(n, step, valid, new) ==
    LET out == ValuesOutcome(n, valid)
    IN  /\ IF out = "ok"
           THEN /\ settings' = new
                /\ argi' = argi + step + 1
                /\ role' = [i \in DOMAIN role |->
                              IF i = argi THEN role[i] \cup {"option"}
                              ELSE IF i \in argi + 1..argi + n
                                   THEN role[i] \cup {"value"} ELSE role[i]]
                /\ UNCHANGED result
           ELSE /\ result' = out
                /\ UNCHANGED <<settings, argi, role>>
        /\ UNCHANGED <<argv, locals, filenames>>

(* An option without a value that sets one of the function's locals.       *)
LocalFlag(new) ==
    /\ locals' = new
    /\ argi' = argi + 1
    /\ role' = [role EXCEPT ![argi] = @ \cup {"option"}]
    /\ UNCHANGED <<argv, settings, filenames, result>>

(* The tokens each kind of value accepts.                                  *)
AnyString == Tokens
SizeTs == {v \in Tokens : ParsesAsSizeT(v)}
Doubles == {v \in Tokens : ParsesAsDouble(v)}

(* Lines 741-760: -version and -help print and return false.               *)
EndOption ==
    /\ InLoop /\ argv[argi] \in EndOptions
    /\ result' = "printed"
    /\ UNCHANGED <<argv, argi, settings, locals, filenames, role>>

(* Lines 761-767: -quiet, -v, -log-time: only the logger changes.          *)
LoggerOption ==
    /\ InLoop /\ argv[argi] = "-quiet"
    /\ Option(0, 0, <<>>, settings)

(* Lines 1287-1289.                                                        *)
Reorder ==
    /\ InLoop /\ argv[argi] = "-reorder"
    /\ Option(0, 0, <<>>, [settings EXCEPT !.forceReorder = TRUE,
                                                !.forceNoReorder = FALSE])

(* Lines 1290-1292.                                                        *)
NoReorder ==
    /\ InLoop /\ argv[argi] = "-no-reorder"
    /\ Option(0, 0, <<>>, [settings EXCEPT !.forceNoReorder = TRUE,
                                                !.forceReorder = FALSE])

(* Lines 959-964: -iuwt also turns negative components off.                *)
IUWT ==
    /\ InLoop /\ argv[argi] = "-iuwt"
    /\ Option(0, 0, <<>>, [settings EXCEPT !.useIUWTDeconvolution = TRUE,
                                                !.allowNegativeComponents = FALSE])

(* Lines 946-950: -negative and -no-negative.                              *)
Negative ==
    /\ InLoop /\ argv[argi] \in {"-negative", "-no-negative"}
    /\ Option(0, 0, <<>>,
              [settings EXCEPT !.allowNegativeComponents = (argv[argi] = "-negative")])

(* Lines 939-940: -dry-run sets the local dryRun.                          *)
DryRun ==
    /\ InLoop /\ argv[argi] = "-dry-run"
    /\ LocalFlag([locals EXCEPT !.dryRun = TRUE])

(* Lines 789-793: -continue also makes a PSF, for the restoring beam.      *)
ContinueRun ==
    /\ InLoop /\ argv[argi] = "-continue"
    /\ Option(0, 0, <<>>, [settings EXCEPT !.continuedRun = TRUE,
                                                !.makePSF = TRUE])

(* Lines 979-980.                                                          *)
MakePSF ==
    /\ InLoop /\ argv[argi] = "-make-psf"
    /\ Option(0, 0, <<>>, [settings EXCEPT !.makePSF = TRUE])

(* Lines 1150-1152: a source list forces Gaussian multiscale components.  *)
SaveSourceList ==
    /\ InLoop /\ argv[argi] = "-save-source-list"
    /\ Option(0, 0, <<>>, [settings EXCEPT !.saveSourceList = TRUE,
                                  !.multiscaleShapeFunction = "GaussianShape"])

(* Mutant of MultiscaleShape: the ++argi before the value is missing.     *)
MultiscaleShapeNoAdvance ==
    /\ InLoop /\ argv[argi] = "-multiscale-shape"
    /\ Option(1, 0, <<{"tapered-quadratic", "gaussian"}>>,
              [settings EXCEPT !.multiscaleShapeFunction =
                  IF argv[argi + 1] = "gaussian" THEN "GaussianShape"
                  ELSE "TaperedQuadraticShape"])

(* Lines 1126-1135: tapered-quadratic or gaussian; anything else throws.   *)
MultiscaleShape ==
    /\ InLoop /\ argv[argi] = "-multiscale-shape"
    /\ Option(1, 1, <<{"tapered-quadratic", "gaussian"}>>,
              [settings EXCEPT !.multiscaleShapeFunction =
                  IF argv[argi + 1] = "gaussian" THEN "GaussianShape"
                  ELSE "TaperedQuadraticShape"])

(* Lines 802-804: parse_double(argv[argi], 1.0, "padding").                *)
Padding ==
    /\ InLoop /\ argv[argi] = "-padding"
    /\ Option(1, 1, <<{v \in Tokens : AtLeastOne(v)}>>,
              [settings EXCEPT !.imagePadding = argv[argi + 1]])

(* Lines 1394-1397: a direct FT is unpadded and not a small inversion.     *)
DirectFT ==
    /\ InLoop /\ argv[argi] = "-direct-ft"
    /\ Option(0, 0, <<>>, [settings EXCEPT !.directFT = TRUE,
                                  !.imagePadding = "1.0", !.smallInversion = FALSE])

(* Lines 1010-1017: -small-inversion and -no-small-inversion.              *)
SmallInversion ==
    /\ InLoop /\ argv[argi] \in {"-small-inversion", "-no-small-inversion"}
    /\ Option(0, 0, <<>>,
              [settings EXCEPT !.smallInversion = (argv[argi] = "-small-inversion")])

(* Lines 1411-1418: without IDG compiled in, -use-idg throws; otherwise    *)
(* IDG is used and small inversion turned off.                             *)
UseIDG ==
    /\ InLoop /\ argv[argi] = "-use-idg"
    /\ IF HaveIDG
       THEN Option(0, 0, <<>>, [settings EXCEPT !.useIDG = TRUE,
                                                     !.smallInversion = FALSE])
       ELSE /\ result' = "error"
            /\ UNCHANGED <<argv, argi, settings, locals, filenames, role>>

(* Lines 1062-1064.                                                        *)
JoinChannels ==
    /\ InLoop /\ argv[argi] = "-join-channels"
    /\ Option(0, 0, <<>>,
              [settings EXCEPT !.joinedFrequencyDeconvolution = TRUE])

(* Lines 1065-1075: -mf-weighting and -no-mf-weighting set locals that     *)
(* decide settings.mfWeighting after the loop.                             *)
MFWeighting ==
    /\ InLoop /\ argv[argi] \in {"-mf-weighting", "-no-mf-weighting"}
    /\ LocalFlag(IF argv[argi] = "-mf-weighting"
                 THEN [locals EXCEPT !.mfWeighting = TRUE]
                 ELSE [locals EXCEPT !.noMFWeighting = TRUE])

(* Lines 1246-1257: three angles from argv[argi + 1 .. argi + 3], each     *)
(* parsed before the next is read, then argi += 3.                         *)
BeamShape ==
    /\ InLoop /\ argv[argi] = "-beam-shape"
    /\ Option(3, 3, <<Doubles, Doubles, Doubles>>, settings)

(* Lines 1258-1260.                                                        *)
FitBeam ==
    /\ InLoop /\ argv[argi] = "-fit-beam"
    /\ Option(0, 0, <<>>, [settings EXCEPT !.fittedBeam = TRUE])

(* Lines 1261-1263.                                                        *)
NoFitBeam ==
    /\ InLoop /\ argv[argi] = "-no-fit-beam"
    /\ Option(0, 0, <<>>, [settings EXCEPT !.fittedBeam = FALSE])

(* Lines 1264-1267: parse_double(argv[argi], 0.0, ..., false).            *)
BeamFittingSize ==
    /\ InLoop /\ argv[argi] = "-beam-fitting-size"
    /\ Option(1, 1, <<{v \in Tokens : AboveZero(v)}>>,
              [settings EXCEPT !.beamFittingBoxSize = argv[argi + 1]])

(* Lines 1268-1272: a theoretic beam also switches fitting off.           *)
TheoreticBeam ==
    /\ InLoop /\ argv[argi] = "-theoretic-beam"
    /\ Option(0, 0, <<>>, [settings EXCEPT !.theoreticBeam = TRUE,
                                                !.fittedBeam = FALSE])

(* Lines 1273-1279.                                                        *)
CircularBeam ==
    /\ InLoop /\ argv[argi] \in {"-circular-beam", "-elliptical-beam"}
    /\ Option(0, 0, <<>>, [settings EXCEPT !.circularBeam =
                                                (argv[argi] = "-circular-beam")])

(* Lines 1361-1370: two ++argi, each followed by a comma-separated list    *)
(* (a single entry here, so the soltabs check passes).                     *)
ApplyFacetSolutions ==
    /\ InLoop /\ argv[argi] = "-apply-facet-solutions"
    /\ Option(2, 2, <<AnyString, AnyString>>, settings)

(* Lines 983-985: -name and the other options with one string value:      *)
(* ++argi, then argv[argi] is stored.                                      *)
StringOption ==
    /\ InLoop /\ argv[argi] = "-name"
    /\ Option(1, 1, <<AnyString>>, settings)

(* Lines 829-834: -niter and the other options with one integer value.    *)
SizeTOption ==
    /\ InLoop /\ argv[argi] = "-niter"
    /\ Option(1, 1, <<SizeTs>>, settings)

(* Mutant of Size: argi advanced past one value only.                      *)
SizeShort ==
    /\ InLoop /\ argv[argi] = "-size"
    /\ Option(2, 1, <<SizeTs, SizeTs>>, settings)

(* Lines 796-801: width from argv[argi + 1], height from argv[argi + 2],  *)
(* then argi += 2; -nwlayers-for-size, -interval, -channel-range are alike. *)
Size ==
    /\ InLoop /\ argv[argi] = "-size"
    /\ Option(2, 2, <<SizeTs, SizeTs>>, settings)

(* Mutant of Restore: argi advanced past two of the three values.         *)
RestoreShort ==
    /\ InLoop /\ argv[argi] \in {"-restore", "-restore-list"}
    /\ Option(3, 2, <<AnyString, AnyString, AnyString>>,
              [settings EXCEPT !.mode = IF argv[argi] = "-restore"
                                         THEN "RestoreMode" ELSE "RestoreListMode"])

(* Mutant of Restore: argi += 4, one more than the values read.           *)
RestoreLong ==
    /\ InLoop /\ argv[argi] \in {"-restore", "-restore-list"}
    /\ Option(3, 4, <<AnyString, AnyString, AnyString>>,
              [settings EXCEPT !.mode = IF argv[argi] = "-restore"
                                         THEN "RestoreMode" ELSE "RestoreListMode"])

(* Lines 1230-1238: the mode is set, three strings are stored from         *)
(* argv[argi + 1 .. argi + 3], then argi += 3.                             *)
Restore ==
    /\ InLoop /\ argv[argi] \in {"-restore", "-restore-list"}
    /\ Option(3, 3, <<AnyString, AnyString, AnyString>>,
              [settings EXCEPT !.mode = IF argv[argi] = "-restore"
                                         THEN "RestoreMode" ELSE "RestoreListMode"])

(* Lines 1212-1224: ++argi; natural or uniform, or briggs and a second    *)
(* ++argi for its robustness; any other mode throws.                      *)
Weight ==
    LET n == IF argi + 1 < Argc /\ argv[argi + 1] = "briggs" THEN 2 ELSE 1
    IN  /\ InLoop /\ argv[argi] = "-weight"
        /\ Option(n, n, <<WeightModes, Doubles>>, settings)

(* Lines 1441-1443: any other option throws.                               *)
UnknownOption ==
    /\ InLoop /\ argv[argi] \notin EndOptions \cup FlagOptions \cup ValueOptions
    /\ result' = "error"
    /\ UNCHANGED <<argv, argi, settings, locals, filenames, role>>

(* The loop has ended (line 738 fails).                                    *)
LoopDone == result = "parsing" /\ Argc >= 2 /\ ~InLoop

(* Lines 1448-1450: no input file and not restoring.                      *)
NoInput ==
    /\ LoopDone
    /\ argi = Argc /\ settings.mode \notin RestoreModes
    /\ result' = "error"
    /\ UNCHANGED <<argv, argi, settings, locals, filenames, role>>

(* Lines 1451-1477: settings.mfWeighting is decided (joined channels      *)
(* unless -no-mf-weighting, or -mf-weighting), argv[argi .. argc - 1]      *)
(* become the input files and !dryRun is returned.                         *)
Return ==
    /\ LoopDone
    /\ argi # Argc \/ settings.mode \in RestoreModes
    /\ filenames' = SubSeq(argv, argi, Len(argv))
    /\ role' = [i \in DOMAIN role |-> IF i >= argi THEN role[i] \cup {"file"} ELSE role[i]]
    /\ settings' = [settings EXCEPT !.mfWeighting =
                       (settings.joinedFrequencyDeconvolution /\ ~locals.noMFWeighting)
                       \/ locals.mfWeighting]
    /\ result' = IF locals.dryRun THEN "dryrun" ELSE "run"
    /\ UNCHANGED <<argv, argi, locals>>

(* The call has returned or thrown.                                        *)
Returned == result # "parsing" /\ UNCHANGED vars

Next ==
    \/ NoArguments \/ EndOption \/ LoggerOption \/ Reorder \/ NoReorder
    \/ IUWT \/ Negative \/ DryRun \/ StringOption \/ SizeTOption \/ Size
    \/ Restore \/ Weight \/ ContinueRun \/ MakePSF \/ SaveSourceList
    \/ MultiscaleShape \/ Padding \/ DirectFT \/ SmallInversion \/ UseIDG
    \/ JoinChannels \/ MFWeighting \/ BeamShape \/ ApplyFacetSolutions
    \/ FitBeam \/ NoFitBeam \/ BeamFittingSize \/ TheoreticBeam \/ CircularBeam
    \/ UnknownOption \/ NoInput \/ Return \/ Returned

Spec == Init /\ [][Next]_vars

-----------------------------------------------------------------------------
(***************************************************************************)
(* Properties.                                                             *)
(***************************************************************************)

(* When the loop's end is reached, every argument was taken for exactly    *)
(* one thing: an option, a value of the option before it, or an input     *)
(* file; no value is skipped or read again as an option or a file.        *)
EveryArgumentOnce ==
    result \in {"run", "dryrun"} => \A i \in 1..Len(argv) : Cardinality(role[i]) = 1

(* -iuwt runs with negative components off: the comment at lines 961-963  *)
(* says IUWT becomes unstable with them, whatever options follow -iuwt.   *)
IUWTWithoutNegative ==
    settings.useIUWTDeconvolution => ~settings.allowNegativeComponents

(* No handler uses argv[argc] (the null pointer) or what lies past it: an  *)
(* option given without its value(s) at the end of the command line.      *)
ValuesWithinArgv == result # "ub"


-----------------------------------------------------------------------------
(***************************************************************************)
(* The inductive invariant behind EveryArgumentOnce (proved in             *)
(* CommandLineProofs): while the loop runs, each argument before argi has  *)
(* been taken for exactly one thing and none after it has been touched;   *)
(* once the parse has returned true, every argument has one role.          *)
(***************************************************************************)
OneRole(i) == \E r \in Roles : role[i] = {r}

ArgsTaken ==
    /\ result = "parsing" =>
           \A i \in 1..Len(argv) : /\ i < argi => OneRole(i)
                                   /\ i >= argi => role[i] = {}
    /\ result \in {"run", "dryrun"} => \A i \in 1..Len(argv) : OneRole(i)

=============================================================================
