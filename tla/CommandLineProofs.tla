------------------------- MODULE CommandLineProofs -------------------------
(***************************************************************************)
(* Proofs about the argument loop of CommandLine, for every set of tokens  *)
(* and every length of argv.                                               *)
(*                                                                         *)
(* The properties the runs check are not inductive as they stand:          *)
(* EveryArgumentOnce speaks of the end of the parse only, and needs what   *)
(* the loop keeps while it runs (ArgsTaken: the arguments before argi are  *)
(* taken once, those after are untouched); the handlers keep the settings  *)
(* consistent only because every settings value they install is.  CInv is *)
(* the conjunction.  Every handler is an instance of Option or LocalFlag,  *)
(* so one lemma for each does the work and the per-action steps only show  *)
(* that the handler's new settings are consistent.                         *)
(***************************************************************************)
EXTENDS CommandLine, SequenceTheorems, FiniteSetTheorems, TLAPS

USE CommandLineAssumption

(* The settings a handler may install: typed, -reorder and -no-reorder     *)
(* exclusive, and a continued run with a PSF.                              *)
GoodSettings(s) ==
    /\ s \in SettingsType
    /\ ~(s.forceReorder /\ s.forceNoReorder)
    /\ s.continuedRun => s.makePSF

(* The check of lines 1448-1450, as a conjunct of the inductive           *)
(* invariant: a parse that returns true has an input file or restores.    *)
NoRunWithoutInput ==
    result = "run" => filenames # <<>> \/ settings.mode \in RestoreModes

CInv == TypeOK /\ ArgsTaken /\ GoodSettings(settings) /\ NoRunWithoutInput

(* Every argv is a sequence of tokens.                                     *)
LEMMA ArgvSeq == argv \in Argvs => argv \in Seq(Tokens)
BY DEF Argvs

(* The outcome of reading n values: "ok" only when all of them lie before  *)
(* argc.                                                                   *)
LEMMA OutcomeFacts ==
    ASSUME NEW n \in Nat, NEW valid
    PROVE  /\ ValuesOutcome(n, valid) \in {"ok", "ub", "error"}
           /\ ValuesOutcome(n, valid) = "ok" => \A k \in 1..n : ~(argi + k >= Argc)
<1> DEFINE bad == {k \in 1..n : argi + k >= Argc \/ argv[argi + k] \notin valid[k]}
<1>1. ValuesOutcome(n, valid) =
        IF bad = {} THEN "ok"
        ELSE IF argi + (CHOOSE k \in bad : \A j \in bad : k <= j) >= Argc
             THEN "ub" ELSE "error"
  BY DEF ValuesOutcome
<1>2. ValuesOutcome(n, valid) = "ok" => bad = {}
  BY <1>1
<1>3. QED
  BY <1>1, <1>2

(* A handler's first value, when reading it is "ok", is a token of argv.  *)
LEMMA OneValueToken ==
    ASSUME CInv, InLoop, NEW valid, ValuesOutcome(1, valid) = "ok"
    PROVE  argv[argi + 1] \in Tokens
<1>1. argv \in Seq(Tokens) /\ argi \in 1..Argc
  BY ArgvSeq DEF CInv, TypeOK
<1>2. argi + 1 \in 1..Len(argv)
  BY <1>1, OutcomeFacts DEF Argc
<1>3. QED
  BY <1>1, <1>2, ElementOfSeq

LEMMA InitCInv == Init => CInv
<1> SUFFICES ASSUME Init PROVE CInv
  OBVIOUS
<1>1. argv \in Seq(Tokens)
  BY ArgvSeq DEF Init
<1>2. TypeOK
  <2>1. argi \in 1..Argc /\ role \in [1..Len(argv) -> SUBSET Roles]
    BY <1>1, LenProperties DEF Init, Argc
  <2>2. settings \in SettingsType
    BY DEF Init, SettingsType, Shapes
  <2>3. filenames \in Seq(Tokens) /\ result \in Outcomes
    BY EmptySeq DEF Init, Outcomes
  <2>4. locals \in [dryRun : BOOLEAN, mfWeighting : BOOLEAN, noMFWeighting : BOOLEAN]
    BY DEF Init
  <2>5. QED
    BY <2>1, <2>2, <2>3, <2>4 DEF Init, TypeOK
<1>3. ArgsTaken /\ NoRunWithoutInput
  BY DEF Init, ArgsTaken, NoRunWithoutInput
<1>4. GoodSettings(settings)
  BY DEF Init, GoodSettings, SettingsType, Shapes
<1>5. QED
  BY <1>2, <1>3, <1>4 DEF CInv

(* A handler that reads n values and advances past them keeps CInv, given  *)
(* that the settings it installs on success are consistent.                *)
LEMMA OptionStep ==
    ASSUME CInv, InLoop, NEW n \in Nat, NEW valid, NEW new,
           ValuesOutcome(n, valid) = "ok" => GoodSettings(new),
           Option(n, n, valid, new)
    PROVE  CInv'
<1> DEFINE out == ValuesOutcome(n, valid)
<1>0. argv \in Seq(Tokens) /\ Len(argv) \in Nat /\ argi \in 1..Argc
  BY ArgvSeq DEF CInv, TypeOK, Argc
<1>1. CASE out = "ok"
  <2>1. \A k \in 1..n : argi + k < Argc
    BY <1>0, <1>1, OutcomeFacts DEF Argc
  <2>2. /\ settings' = new /\ argi' = argi + n + 1 /\ result' = result
        /\ role' = [i \in DOMAIN role |->
                      IF i = argi THEN role[i] \cup {"option"}
                      ELSE IF i \in argi + 1..argi + n
                           THEN role[i] \cup {"value"} ELSE role[i]]
        /\ UNCHANGED <<argv, locals, filenames>>
    BY <1>1 DEF Option
  <2>3. argi + n + 1 \in 1..Argc
    <3>1. CASE n = 0
      BY <1>0, <3>1 DEF InLoop, Argc
    <3>2. CASE n > 0
      BY <1>0, <2>1, <3>2 DEF Argc
    <3>3. QED
      BY <3>1, <3>2
  <2>4. TypeOK'
    BY <1>0, <1>1, <2>2, <2>3 DEF CInv, TypeOK, GoodSettings, Argc, Roles, InLoop
  <2>5. ArgsTaken'
    <3>0. result = "parsing" /\ role \in [1..Len(argv) -> SUBSET Roles]
      BY DEF InLoop, CInv, TypeOK
    <3>1. \A i \in 1..Len(argv) : /\ i < argi => OneRole(i)
                                  /\ i >= argi => role[i] = {}
      BY <3>0 DEF CInv, ArgsTaken
    <3>2. ASSUME NEW i \in 1..Len(argv)
          PROVE  /\ i < argi' => OneRole(i)'
                 /\ i >= argi' => role'[i] = {}
      <4>0. /\ argi \in Nat /\ i \in Nat /\ argi' = argi + n + 1
            /\ i < argi => OneRole(i)
            /\ i >= argi => role[i] = {}
            /\ role'[i] = IF i = argi THEN role[i] \cup {"option"}
                          ELSE IF i \in argi + 1..argi + n
                               THEN role[i] \cup {"value"} ELSE role[i]
        <5>1. argi \in Nat /\ i \in Nat /\ argi' = argi + n + 1
          BY <2>2, <1>0 DEF Argc
        <5>2. /\ i < argi => OneRole(i)
              /\ i >= argi => role[i] = {}
          BY <3>1
        <5>3. role'[i] = IF i = argi THEN role[i] \cup {"option"}
                         ELSE IF i \in argi + 1..argi + n
                              THEN role[i] \cup {"value"} ELSE role[i]
          BY <3>0, <2>2
        <5>4. QED
          BY <5>1, <5>2, <5>3
      <4>1. CASE i < argi
        <5>1. role'[i] = role[i] /\ i < argi'
          BY <4>0, <4>1
        <5>2. QED
          BY <4>0, <4>1, <5>1 DEF OneRole
      <4>2. CASE i = argi
        <5>1. role'[i] = {"option"} /\ i < argi'
          BY <4>0, <4>2
        <5>2. QED
          BY <4>0, <5>1 DEF OneRole, Roles
      <4>3. CASE i \in argi + 1..argi + n
        <5>1. role'[i] = {"value"} /\ i < argi'
          BY <4>0, <4>3
        <5>2. QED
          BY <4>0, <5>1 DEF OneRole, Roles
      <4>4. CASE i > argi + n
        <5>1. role'[i] = {} /\ i >= argi'
          BY <4>0, <4>4
        <5>2. QED
          BY <4>0, <5>1
      <4>5. QED
        BY <1>0, <4>1, <4>2, <4>3, <4>4
    <3>3. QED
      BY <3>0, <3>2, <2>2 DEF ArgsTaken
  <2>6. QED
    BY <1>1, <2>2, <2>4, <2>5 DEF CInv, NoRunWithoutInput, InLoop
<1>2. CASE out # "ok"
  <2>1. result' \in {"ub", "error"}
    BY <1>2, OutcomeFacts DEF Option
  <2>2. UNCHANGED <<argv, argi, settings, locals, filenames, role>>
    BY <1>2 DEF Option
  <2>3. QED
    BY <2>1, <2>2 DEF CInv, TypeOK, ArgsTaken, NoRunWithoutInput, Outcomes, Argc
<1>3. QED
  BY <1>1, <1>2


(* A handler that reads no value and sets one of the function's locals.    *)
LEMMA LocalFlagStep ==
    ASSUME CInv, InLoop,
           NEW new \in [dryRun : BOOLEAN, mfWeighting : BOOLEAN, noMFWeighting : BOOLEAN],
           LocalFlag(new)
    PROVE  CInv'
<1>0. argv \in Seq(Tokens) /\ Len(argv) \in Nat /\ argi \in 1..Argc
  BY ArgvSeq DEF CInv, TypeOK, Argc
<1>1. TypeOK'
  BY <1>0 DEF LocalFlag, CInv, TypeOK, Roles, InLoop, Argc
<1>2. ArgsTaken'
  <2>0. /\ result = "parsing" /\ role \in [1..Len(argv) -> SUBSET Roles]
        /\ argi \in Nat /\ argi < Argc
        /\ argi' = argi + 1 /\ argv' = argv /\ result' = result
        /\ role' = [role EXCEPT ![argi] = @ \cup {"option"}]
    BY <1>0 DEF InLoop, CInv, TypeOK, LocalFlag, Argc
  <2>1. \A i \in 1..Len(argv) : /\ i < argi => OneRole(i)
                                /\ i >= argi => role[i] = {}
    BY <2>0 DEF CInv, ArgsTaken
  <2>2. ASSUME NEW i \in 1..Len(argv)
        PROVE  /\ i < argi' => OneRole(i)'
               /\ i >= argi' => role'[i] = {}
    <3>0. role'[i] = IF i = argi THEN role[i] \cup {"option"} ELSE role[i]
      BY <2>0
    <3>1. CASE i < argi
      <4>1. role'[i] = role[i] /\ i < argi' /\ OneRole(i)
        BY <1>0, <2>0, <2>1, <3>0, <3>1 DEF Argc
      <4>2. QED
        BY <1>0, <2>0, <4>1 DEF OneRole
    <3>2. CASE i = argi
      <4>1. role'[i] = {"option"} /\ i < argi'
        BY <1>0, <2>0, <2>1, <3>0, <3>2 DEF Argc
      <4>2. QED
        BY <1>0, <2>0, <4>1 DEF OneRole, Roles
    <3>3. CASE i > argi
      <4>1. role'[i] = {} /\ i >= argi'
        BY <1>0, <2>0, <2>1, <3>0, <3>3 DEF Argc
      <4>2. QED
        BY <1>0, <2>0, <4>1
    <3>4. QED
      BY <2>0, <3>1, <3>2, <3>3 DEF Argc
  <2>3. QED
    BY <2>0, <2>2 DEF ArgsTaken
<1>3. QED
  BY <1>1, <1>2 DEF LocalFlag, CInv, GoodSettings, NoRunWithoutInput, InLoop

(* An action that ends the call with false or an exception.               *)
LEMMA StopStep ==
    ASSUME CInv, result' \in {"printed", "error"},
           UNCHANGED <<argv, argi, settings, locals, filenames, role>>
    PROVE  CInv'
BY DEF CInv, TypeOK, ArgsTaken, GoodSettings, NoRunWithoutInput, Outcomes, Argc

(* The loop's end: the remaining arguments are the input files.            *)
LEMMA ReturnStep ==
    ASSUME CInv, Return
    PROVE  CInv'
<1>0. /\ argv \in Seq(Tokens) /\ Len(argv) \in Nat /\ argi \in 1..Argc
      /\ result = "parsing"
  BY ArgvSeq DEF CInv, TypeOK, Argc, Return, LoopDone
<1>1. /\ filenames' \in Seq(Tokens)
      /\ argi <= Len(argv) => Len(filenames') = Len(argv) - argi + 1
  <2>1. \A i \in argi..Len(argv) : argv[i] \in Tokens
    BY <1>0, ElementOfSeq DEF Argc
  <2>2. QED
    BY <1>0, <2>1, SubSeqProperties DEF Return
<1>2. TypeOK'
  BY <1>0, <1>1 DEF Return, CInv, TypeOK, GoodSettings, SettingsType, Roles, Outcomes, Argc
<1>3. ArgsTaken'
  <2>1. result' \in {"run", "dryrun"} /\ argv' = argv
    BY DEF Return
  <2>2. SUFFICES ASSUME NEW i \in 1..Len(argv) PROVE OneRole(i)'
    BY <2>1 DEF ArgsTaken
  <2>3. CASE i < argi
    <3>1. role'[i] = role[i]
      BY <1>0, <2>3 DEF Return, CInv, TypeOK
    <3>2. OneRole(i)
      <4>1. \A j \in 1..Len(argv) : j < argi => OneRole(j)
        BY <1>0 DEF CInv, ArgsTaken
      <4>2. QED
        BY <4>1, <2>3
    <3>3. QED
      BY <3>1, <3>2 DEF OneRole
  <2>4. CASE i >= argi
    <3>1. role[i] = {}
      BY <1>0, <2>4 DEF CInv, ArgsTaken
    <3>2. role'[i] = {"file"}
      BY <1>0, <2>4, <3>1 DEF Return, CInv, TypeOK
    <3>3. QED
      BY <3>2 DEF OneRole, Roles
  <2>5. QED
    BY <1>0, <2>3, <2>4
<1>4. GoodSettings(settings')
  BY DEF Return, CInv, GoodSettings, SettingsType
<1>5. NoRunWithoutInput'
  <2>1. argi # Argc => argi <= Len(argv)
    BY <1>0 DEF Argc
  <2>2. result' = "run" => filenames' # <<>> \/ settings'.mode \in RestoreModes
    <3>1. settings'.mode = settings.mode
      BY DEF Return, CInv, GoodSettings, SettingsType
    <3>2. CASE argi # Argc
      BY <1>0, <1>1, <2>1, <3>2, EmptySeq
    <3>3. CASE settings.mode \in RestoreModes
      BY <3>1, <3>3
    <3>4. QED
      BY <3>2, <3>3 DEF Return
  <2>3. QED
    BY <2>2 DEF NoRunWithoutInput
<1>6. QED
  BY <1>2, <1>3, <1>4, <1>5 DEF CInv

(* Every step of the parse keeps CInv: one case per handler.               *)
LEMMA NextCInv == CInv /\ [Next]_vars => CInv'
<1> SUFFICES ASSUME CInv, [Next]_vars PROVE CInv'
  OBVIOUS
<1>0. GoodSettings(settings)
  BY DEF CInv
<1>1. CASE LoggerOption
  BY <1>1, <1>0, OptionStep DEF LoggerOption, GoodSettings, SettingsType
<1>2. CASE Reorder
  BY <1>2, <1>0, OptionStep DEF Reorder, GoodSettings, SettingsType
<1>3. CASE NoReorder
  BY <1>3, <1>0, OptionStep DEF NoReorder, GoodSettings, SettingsType
<1>4. CASE IUWT
  BY <1>4, <1>0, OptionStep DEF IUWT, GoodSettings, SettingsType
<1>5. CASE Negative
  BY <1>5, <1>0, OptionStep DEF Negative, GoodSettings, SettingsType
<1>6. CASE StringOption
  BY <1>6, <1>0, OptionStep DEF StringOption, GoodSettings, SettingsType
<1>7. CASE SizeTOption
  BY <1>7, <1>0, OptionStep DEF SizeTOption, GoodSettings, SettingsType
<1>8. CASE Size
  BY <1>8, <1>0, OptionStep DEF Size, GoodSettings, SettingsType
<1>9. CASE Restore
  BY <1>9, <1>0, OptionStep DEF Restore, GoodSettings, SettingsType, RestoreModes, Shapes
<1>10. CASE ContinueRun
  BY <1>10, <1>0, OptionStep DEF ContinueRun, GoodSettings, SettingsType
<1>11. CASE MakePSF
  BY <1>11, <1>0, OptionStep DEF MakePSF, GoodSettings, SettingsType
<1>12. CASE SaveSourceList
  BY <1>12, <1>0, OptionStep DEF SaveSourceList, GoodSettings, SettingsType, RestoreModes, Shapes
<1>13. CASE MultiscaleShape
  BY <1>13, <1>0, OptionStep DEF MultiscaleShape, GoodSettings, SettingsType, RestoreModes, Shapes
<1>14. CASE Padding
  <2>1. ValuesOutcome(1, <<{v \in Tokens : AtLeastOne(v)}>>) = "ok" => argv[argi + 1] \in Tokens
    BY <1>14, OneValueToken DEF Padding, InLoop
  <2>2. QED
    BY <1>14, <1>0, <2>1, OptionStep DEF Padding, GoodSettings, SettingsType
<1>15. CASE DirectFT
  BY <1>15, <1>0, OptionStep DEF DirectFT, GoodSettings, SettingsType
<1>16. CASE SmallInversion
  BY <1>16, <1>0, OptionStep DEF SmallInversion, GoodSettings, SettingsType
<1>17. CASE JoinChannels
  BY <1>17, <1>0, OptionStep DEF JoinChannels, GoodSettings, SettingsType
<1>18. CASE BeamShape
  BY <1>18, <1>0, OptionStep DEF BeamShape, GoodSettings, SettingsType
<1>19. CASE ApplyFacetSolutions
  BY <1>19, <1>0, OptionStep DEF ApplyFacetSolutions, GoodSettings, SettingsType
<1>20. CASE FitBeam
  BY <1>20, <1>0, OptionStep DEF FitBeam, GoodSettings, SettingsType
<1>21. CASE NoFitBeam
  BY <1>21, <1>0, OptionStep DEF NoFitBeam, GoodSettings, SettingsType
<1>22. CASE BeamFittingSize
  <2>1. ValuesOutcome(1, <<{v \in Tokens : AboveZero(v)}>>) = "ok" => argv[argi + 1] \in Tokens
    BY <1>22, OneValueToken DEF BeamFittingSize, InLoop
  <2>2. QED
    BY <1>22, <1>0, <2>1, OptionStep DEF BeamFittingSize, GoodSettings, SettingsType
<1>23. CASE TheoreticBeam
  BY <1>23, <1>0, OptionStep DEF TheoreticBeam, GoodSettings, SettingsType
<1>24. CASE CircularBeam
  BY <1>24, <1>0, OptionStep DEF CircularBeam, GoodSettings, SettingsType
<1>25. CASE Weight
  BY <1>25, <1>0, OptionStep DEF Weight, GoodSettings
<1>26. CASE UseIDG
  <2>1. CASE HaveIDG
    BY <1>26, <2>1, <1>0, OptionStep DEF UseIDG, GoodSettings, SettingsType
  <2>2. CASE ~HaveIDG
    BY <1>26, <2>2, StopStep DEF UseIDG
  <2>3. QED
    BY <2>1, <2>2
<1>27. CASE DryRun \/ MFWeighting
  <2>1. locals \in [dryRun : BOOLEAN, mfWeighting : BOOLEAN, noMFWeighting : BOOLEAN]
    BY DEF CInv, TypeOK
  <2>2. CASE DryRun
    BY <2>1, <2>2, LocalFlagStep DEF DryRun
  <2>3. CASE MFWeighting /\ argv[argi] = "-mf-weighting"
    BY <2>1, <2>3, LocalFlagStep DEF MFWeighting
  <2>4. CASE MFWeighting /\ argv[argi] # "-mf-weighting"
    BY <2>1, <2>4, LocalFlagStep DEF MFWeighting
  <2>5. QED
    BY <1>27, <2>2, <2>3, <2>4
<1>28. CASE NoArguments \/ EndOption \/ UnknownOption \/ NoInput
  BY <1>28, StopStep DEF NoArguments, EndOption, UnknownOption, NoInput, Outcomes
<1>29. CASE Return
  BY <1>29, ReturnStep
<1>30. CASE Returned \/ UNCHANGED vars
  BY <1>30 DEF Returned, vars, CInv, TypeOK, ArgsTaken, OneRole, GoodSettings,
              NoRunWithoutInput, Argc
<1>31. QED
  BY <1>1, <1>2, <1>3, <1>4, <1>5, <1>6, <1>7, <1>8, <1>9, <1>10, <1>11, <1>12, <1>13, <1>14, <1>15, <1>16, <1>17, <1>18, <1>19, <1>20, <1>21, <1>22, <1>23, <1>24, <1>25, <1>26, <1>27, <1>28, <1>29, <1>30 DEF Next

(* CInv holds in every state the parse reaches.                           *)
THEOREM ParseInvariance == Spec => []CInv
BY InitCInv, NextCInv, PTL DEF Spec


(* Every state the parse reaches is well typed.                            *)
THEOREM TypeCorrect == Spec => []TypeOK
<1>1. CInv => TypeOK
  BY DEF CInv
<1>2. QED
  BY <1>1, ParseInvariance, PTL

(* When ParseWithoutValidation returns, every argument of every command    *)
(* line was taken exactly once: as an option, a value or an input file.    *)
THEOREM EveryArgumentOnceTheorem == Spec => []EveryArgumentOnce
<1>1. CInv => EveryArgumentOnce
  <2> SUFFICES ASSUME CInv, result \in {"run", "dryrun"},
                      NEW i \in 1..Len(argv)
               PROVE  Cardinality(role[i]) = 1
    BY DEF EveryArgumentOnce
  <2>1. OneRole(i)
    BY DEF CInv, ArgsTaken
  <2>2. PICK r \in Roles : role[i] = {r}
    BY <2>1 DEF OneRole
  <2>3. QED
    BY <2>2, FS_Singleton
<1>2. QED
  BY <1>1, ParseInvariance, PTL

=============================================================================
