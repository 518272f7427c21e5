--------------------------- MODULE RunMainProofs ---------------------------
(* A call of a function, as main or not, is safe for the engines and their *)
(* modules, gives main what it declares, and returns what main returned,   *)
(* for any types, arguments and environments.                              *)
EXTENDS RunMain, ExecutionEngineProofs, SequenceTheorems

(* A call that has been entered, as main or not. *)
Entered(by, params, ret, args, env, given) ==
  [phase |-> "entered", by |-> by, params |-> params, ret |-> ret,
   args |-> args, env |-> env, given |-> given, bytes |-> BytesOf(args, env)]

(* The calls that can be entered: as main with a signature that was let    *)
(* pass and the values made for it, or on a function without parameters.   *)
EnteredAsAsked ==
  call.phase = "entered" =>
    \E by \in {"main", "function"} \cup Engine, params \in ParamLists \cup {<< >>},
       ret \in ReturnTypes,
       args \in ArgLists \cup {<< >>}, env \in EnvLists \cup {<< >>} :
      \/ /\ by # "function" /\ IsMainLike(params, ret)
         /\ call = Entered(by, params, ret, args, env,
                           MainArgs(Len(params), args, env))
      \/ by = "function" /\ call = Entered(by, params, ret, args, env, << >>)

ReturnTyped == call.phase \in {"entered", "edited"} => call.ret \in ReturnTypes

(* The inductive invariant of a call.  After main has edited a string only *)
(* the strings of Lean and the type of the result are still needed.        *)
CallInv ==
  EnteredAsAsked /\ ReturnTyped /\ LeanStringsStay /\ ExitCodesAreReturned
-----------------------------------------------------------------------------
(* Whatever calls do to engines is what engines do by themselves.  *)
LEMMA RunStepIsEngineStep ==
  [RunNext]_<<vars, engineVars, call>> => [EngineNext]_<<vars, engineVars>>
<1> SUFFICES ASSUME [RunNext]_<<vars, engineVars, call>>
             PROVE  [EngineNext]_<<vars, engineVars>>
  OBVIOUS
<1>1. CASE EngineNext
  BY <1>1
<1>2. CASE UNCHANGED <<vars, engineVars>>
  BY <1>2
<1>3. ASSUME NEW r \in Cell, NEW e \in Engine, NEW found \in BOOLEAN,
             CreateForModule(r, e, "either", found)
      PROVE  EngineNext
  BY <1>3, JitAssumption DEF EngineNext
<1>4. ASSUME NEW e \in Engine, DropEngine(e)
      PROVE  EngineNext
  BY <1>4 DEF EngineNext
<1>. QED
  BY <1>1, <1>2, <1>3, <1>4 DEF RunNext, Calls, RunFunction, JitNoMain,
     RunFunctionAsMain, JitMain, Edit, Return, Resume

(* A program that runs functions is a program that uses engines: what      *)
(* holds of the latter holds of the former (Jit.lean:7-16,                 *)
(* execution_engine.cpp:105-192).                                          *)
THEOREM RunImplementsEngine == RunSpec => EngineSpec
<1>1. RunInit => EngineInit
  BY DEF RunInit
<1>. QED
  BY <1>1, RunStepIsEngineStep, PTL DEF RunSpec, EngineSpec
-----------------------------------------------------------------------------
(* The GenericValues that are made for a main-like signature. *)
LEMMA MainArgsAre ==
  ASSUME NEW n \in 0 .. 3, NEW args, NEW env
  PROVE  /\ DOMAIN MainArgs(n, args, env) = 1 .. n
         /\ n >= 1 => MainArgs(n, args, env)[1] = Len(args)
         /\ n >= 2 => MainArgs(n, args, env)[2] = ArgvSet("args", args)
         /\ n >= 3 => MainArgs(n, args, env)[3] = ArgvSet("env", env)
<1>. DEFINE s == <<Len(args), ArgvSet("args", args), ArgvSet("env", env)>>
            S == {Len(args), ArgvSet("args", args), ArgvSet("env", env)}
<1>1. s \in Seq(S) /\ Len(s) = 3 /\ n \in 0 .. Len(s)
  OBVIOUS
<1>2. \A i \in 1 .. n : s[i] \in S
  BY <1>1
<1>3. SubSeq(s, 1, n) \in Seq(S) /\ Len(SubSeq(s, 1, n)) = n
      /\ \A i \in 1 .. n : SubSeq(s, 1, n)[i] = s[i]
  <2>. HIDE DEF s, S
  <2>1. \A i \in 1 .. n : s[i] \in S
    BY <1>2
  <2>2. /\ SubSeq(s, 1, n) \in Seq(S)
        /\ Len(SubSeq(s, 1, n)) = IF 1 <= n THEN n - 1 + 1 ELSE 0
        /\ \A i \in 1 .. n - 1 + 1 : SubSeq(s, 1, n)[i] = s[1 + i - 1]
    BY <2>1, SubSeqProperties
  <2>. QED
    BY <2>2
<1>. QED
  BY <1>3, LenProperties DEF MainArgs

(* A pointer array has a pointer to a copy for each string, then null. *)
LEMMA ArgvSetIs ==
  ASSUME NEW list, NEW strings \in Seq(STRING)
  PROVE  /\ Len(strings) \in Nat
         /\ DOMAIN ArgvSet(list, strings) = 1 .. (Len(strings) + 1)
         /\ \A j \in 1 .. Len(strings) : ArgvSet(list, strings)[j] = <<"copy", list, j>>
         /\ ArgvSet(list, strings)[Len(strings) + 1] = Null
BY LenProperties DEF ArgvSet

(* A main has no more than three parameters. *)
LEMMA FewParameters ==
  ASSUME NEW params \in Seq(Type), NEW ret, IsMainLike(params, ret)
  PROVE  Len(params) \in 0 .. 3
<1>1. PICK n \in Nat : n = Len(params)
  BY LenProperties
<1>2. n <= 3
  BY <1>1 DEF IsMainLike
<1>3. n \in 0 .. 3
  BY <1>2
<1>. QED
  BY <1>1, <1>3

(* What holds of every call that was entered as main. *)
LEMMA EnteredAsMain ==
  ASSUME EnteredAsAsked, call.phase = "entered", call.by # "function"
  PROVE  /\ call.params \in Seq(Type) /\ IsMainLike(call.params, call.ret)
         /\ call.args \in Seq(STRING) /\ call.env \in Seq(STRING)
         /\ call.given = MainArgs(Len(call.params), call.args, call.env)
         /\ call.bytes = BytesOf(call.args, call.env)
<1>1. PICK by \in {"main", "function"} \cup Engine, params \in ParamLists \cup {<< >>},
           ret \in ReturnTypes,
           args \in ArgLists \cup {<< >>}, env \in EnvLists \cup {<< >>} :
        \/ /\ by # "function" /\ IsMainLike(params, ret)
           /\ call = Entered(by, params, ret, args, env,
                             MainArgs(Len(params), args, env))
        \/ by = "function" /\ call = Entered(by, params, ret, args, env, << >>)
  BY DEF EnteredAsAsked
<1>2. call.by = by
  BY <1>1 DEF Entered
<1>3. /\ by # "function" /\ IsMainLike(params, ret)
      /\ call = Entered(by, params, ret, args, env, MainArgs(Len(params), args, env))
  BY <1>1, <1>2
<1>4. /\ call.params = params /\ call.ret = ret /\ call.args = args /\ call.env = env
      /\ call.given = MainArgs(Len(params), args, env)
      /\ call.bytes = BytesOf(args, env)
  BY <1>3 DEF Entered
<1>5. params \in Seq(Type) /\ args \in Seq(STRING) /\ env \in Seq(STRING)
  BY ListsAssumption, EmptySeq
<1>. QED
  BY <1>3, <1>4, <1>5

(* Before anything is called there is nothing to show. *)
LEMMA CallInit == RunInit => CallInv
<1> SUFFICES ASSUME RunInit PROVE CallInv
  OBVIOUS
<1>1. call.phase = "idle"
  BY DEF RunInit, Idle
<1>. QED
  BY <1>1 DEF CallInv, EnteredAsAsked, ReturnTyped, LeanStringsStay,
     ExitCodesAreReturned

(* A call is entered with the values for its parameters. *)
LEMMA EnterAsMain ==
  ASSUME NEW by \in {"main"} \cup Engine, NEW k, NEW params \in ParamLists,
         NEW ret \in ReturnTypes, NEW args \in ArgLists, NEW env \in EnvLists,
         AsMain(by, k, params, ret, args, env)
  PROVE  CallInv'
<1>1. by # "function"
  BY CallerAssumption
<1>2. CASE call'.phase \in {"aborted", "error"}
  BY <1>2 DEF CallInv, EnteredAsAsked, ReturnTyped, LeanStringsStay,
     ExitCodesAreReturned
<1>3. CASE /\ IsMainLike(params, ret)
           /\ call' = Entered(by, params, ret, args, env,
                              MainArgs(Len(params), args, env))
  <2>1. call'.phase = "entered"
    BY <1>3 DEF Entered
  <2>2. EnteredAsAsked'
    BY <1>1, <1>3 DEF EnteredAsAsked
  <2>3. ReturnTyped'
    BY <1>3 DEF Entered, ReturnTyped
  <2>. QED
    BY <2>1, <2>2, <2>3 DEF CallInv, LeanStringsStay, ExitCodesAreReturned
<1>. QED
  BY <1>2, <1>3 DEF AsMain, Enter, Entered

(* A main can only reach the copies. *)
LEMMA EditReachesCopies ==
  ASSUME EnteredAsAsked, NEW i \in 1 .. 3, NEW j \in 1 .. 3, Edit(i, j)
  PROVE  LeanStringsStay'
<1>1. call.by # "function"
  <2>1. SUFFICES ASSUME call.by = "function" PROVE FALSE
    OBVIOUS
  <2>2. call.given = << >>
    BY <2>1 DEF EnteredAsAsked, Entered, Edit
  <2>. QED
    BY <2>2 DEF Edit
<1>2. /\ call.params \in Seq(Type) /\ IsMainLike(call.params, call.ret)
      /\ call.args \in Seq(STRING) /\ call.env \in Seq(STRING)
      /\ call.given = MainArgs(Len(call.params), call.args, call.env)
      /\ call.bytes = BytesOf(call.args, call.env)
  BY <1>1, EnteredAsMain DEF Edit
<1>3. PICK n \in 0 .. 3 : n = Len(call.params)
  BY <1>2, FewParameters
<1>4. PICK list \in {"args", "env"}, strings \in Seq(STRING) :
        call.given[i] = ArgvSet(list, strings)
  <2>1. /\ DOMAIN call.given = 1 .. n
        /\ n >= 2 => call.given[2] = ArgvSet("args", call.args)
        /\ n >= 3 => call.given[3] = ArgvSet("env", call.env)
    <3>1. call.given = MainArgs(n, call.args, call.env)
      BY <1>2, <1>3
    <3>2. DOMAIN MainArgs(n, call.args, call.env) = 1 .. n
      BY MainArgsAre
    <3>3. n >= 2 => MainArgs(n, call.args, call.env)[2] = ArgvSet("args", call.args)
      BY MainArgsAre
    <3>4. n >= 3 => MainArgs(n, call.args, call.env)[3] = ArgvSet("env", call.env)
      BY MainArgsAre
    <3>. QED
      BY <3>1, <3>2, <3>3, <3>4
  <2>2. i \in 1 .. n /\ i # 1
    BY <2>1 DEF Edit
  <2>3. (i = 2 /\ n >= 2) \/ (i = 3 /\ n >= 3)
    BY <2>2
  <2>. QED
    BY <1>2, <2>1, <2>3
<1>5. call.given[i][j] = <<"copy", list, j>>
  <2>1. j \in DOMAIN call.given[i] /\ call.given[i][j] # Null
    BY DEF Edit
  <2>2. j \in 1 .. Len(strings)
    BY <1>4, <2>1, ArgvSetIs
  <2>. QED
    BY <1>4, <2>2, ArgvSetIs
<1>6. call' = [call EXCEPT !.phase = "edited",
                           !.bytes["copy"][list][j] = Edited]
  BY <1>5 DEF Edit
<1>7. /\ call.bytes["lean"] = [args |-> call.args, env |-> call.env]
      /\ DOMAIN call.bytes = {"lean", "copy"}
  BY <1>2 DEF BytesOf
<1>8. \E by, params, ret, args, env, given :
         call = Entered(by, params, ret, args, env, given)
  BY DEF EnteredAsAsked, Edit
<1>9. /\ call'.args = call.args /\ call'.env = call.env
      /\ call'.bytes["lean"] = call.bytes["lean"]
  BY <1>6, <1>7, <1>8 DEF Entered
<1>. QED
  BY <1>7, <1>9 DEF LeanStringsStay

(* A value of 32 bits or less is not changed by taking 32 bits of it. *)
LEMMA ReturnKeepsCode ==
  ASSUME ReturnTyped, NEW value \in Nat, Return(value)
  PROVE  ExitCodesAreReturned'
<1>1. /\ call' = [phase |-> "returned", by |-> call.by, ret |-> call.ret,
                  value |-> value, code |-> ExitCode(call.by, value)]
      /\ call.ret.id = "integer" => value < call.ret.size
  BY DEF Return
<1>2. \A n \in Nat \ {0} : value < n => value % n = value
  OBVIOUS
<1>3. ASSUME call.ret.id = "integer",
             call.by = "function" \/ call.ret.size <= UInt32Size
      PROVE  ExitCode(call.by, value) = value
  <2>1. call.ret.size \in Nat
    BY SizesAssumption DEF Return, ReturnTyped, ReturnTypes, Ty, Void
  <2>. QED
    BY <1>1, <1>2, <1>3, <2>1, SizesAssumption DEF ExitCode
<1>. QED
  BY <1>1, <1>3 DEF ExitCodesAreReturned

LEMMA EnterFunction ==
  ASSUME NEW k, NEW ret \in ReturnTypes,
         Enter("function", k, << >>, ret, << >>, << >>, << >>)
  PROVE  CallInv'
<1>1. CASE call'.phase = "aborted"
  BY <1>1 DEF CallInv, EnteredAsAsked, ReturnTyped, LeanStringsStay,
     ExitCodesAreReturned
<1>2. CASE call' = Entered("function", << >>, ret, << >>, << >>, << >>)
  <2>1. call'.phase = "entered"
    BY <1>2 DEF Entered
  <2>2. EnteredAsAsked'
    BY <1>2 DEF EnteredAsAsked
  <2>3. ReturnTyped'
    BY <1>2 DEF Entered, ReturnTyped
  <2>. QED
    BY <2>1, <2>2, <2>3 DEF CallInv, LeanStringsStay, ExitCodesAreReturned
<1>. QED
  BY <1>1, <1>2 DEF Enter, Entered

(* Every step of a call preserves the invariant. *)
LEMMA CallNext ==
  CallInv /\ [RunNext]_<<vars, engineVars, call>> => CallInv'
<1> SUFFICES ASSUME CallInv, [RunNext]_<<vars, engineVars, call>>
             PROVE  CallInv'
  OBVIOUS
<1>1. CASE UNCHANGED call
  BY <1>1 DEF CallInv, EnteredAsAsked, ReturnTyped, LeanStringsStay,
     ExitCodesAreReturned
<1>2. ASSUME NEW f \in Cell, NEW e \in Engine, NEW ret \in ReturnTypes,
             RunFunction(f, e, ret)
      PROVE  CallInv'
  BY <1>2, EnterFunction DEF RunFunction
<1>3. ASSUME call'.phase \in {"idle", "error"}
      PROVE  CallInv'
  BY <1>3 DEF CallInv, EnteredAsAsked, ReturnTyped, LeanStringsStay,
     ExitCodesAreReturned
<1>4. ASSUME NEW f \in Cell, NEW e \in Engine, NEW params \in ParamLists,
             NEW ret \in ReturnTypes, NEW args \in ArgLists, NEW env \in EnvLists,
             RunFunctionAsMain(f, e, params, ret, args, env)
      PROVE  CallInv'
  BY <1>4, EnterAsMain DEF RunFunctionAsMain
<1>5. ASSUME NEW r \in Cell, NEW e \in Engine, NEW found \in BOOLEAN,
             NEW params \in ParamLists, NEW ret \in ReturnTypes,
             NEW args \in ArgLists, NEW env \in EnvLists,
             JitMain(r, e, found, params, ret, args, env)
      PROVE  CallInv'
  BY <1>5, EnterAsMain, ZenonT(40) DEF JitMain
<1>6. ASSUME NEW i \in 1 .. 3, NEW j \in 1 .. 3, Edit(i, j)
      PROVE  CallInv'
  <2>1. LeanStringsStay'
    <3>1. EnteredAsAsked
      BY DEF CallInv
    <3>. QED
      BY <1>6, <3>1, EditReachesCopies
  <2>2. call.phase = "entered" /\ \E b : call' = [call EXCEPT !.phase = "edited", !.bytes = b]
    <3>. DEFINE p == call.given[i][j]
                new == [call.bytes EXCEPT ![p[1]][p[2]][p[3]] = Edited]
    <3>1. call' = [call EXCEPT !.phase = "edited", !.bytes = new]
      BY <1>6, SMTT(30) DEF Edit
    <3>2. call.phase = "entered"
      BY <1>6 DEF Edit
    <3>. QED
      BY <3>1, <3>2, Zenon
  <2>3. \E by, params, ret, args, env, given :
           call = Entered(by, params, ret, args, env, given)
    BY <2>2 DEF CallInv, EnteredAsAsked
  <2>4. call'.phase = "edited" /\ call'.ret = call.ret
    BY <2>2, <2>3 DEF Entered
  <2>. QED
    BY <2>1, <2>2, <2>4 DEF CallInv, EnteredAsAsked, ReturnTyped, ExitCodesAreReturned
<1>7. ASSUME NEW value \in 0 .. (WordSize - 1), Return(value)
      PROVE  CallInv'
  <2>1. value \in Nat
    BY SizesAssumption
  <2>2. ExitCodesAreReturned'
    BY <1>7, <2>1, ReturnKeepsCode DEF CallInv
  <2>3. call'.phase = "returned"
    BY <1>7 DEF Return
  <2>. QED
    BY <2>2, <2>3 DEF CallInv, EnteredAsAsked, ReturnTyped, LeanStringsStay
<1>8. ASSUME NEW f \in Cell, JitNoMain(f)
      PROVE  CallInv'
  BY <1>3, <1>8 DEF JitNoMain
<1>9. CASE Resume
  BY <1>3, <1>9 DEF Resume, Idle
<1>. QED
  BY <1>1, <1>2, <1>4, <1>5, <1>6, <1>7, <1>8, <1>9 DEF RunNext, Calls

THEOREM CallInvariance == RunSpec => []CallInv
BY CallInit, CallNext, PTL DEF RunSpec
-----------------------------------------------------------------------------
(* Whatever parameters a main declares, each is given as its type says     *)
(* (execution_engine.cpp:125-151, 172-190).                                *)
THEOREM ParametersGiven == RunSpec => []MainGetsItsParameters
<1>1. ASSUME EnteredAsAsked, call.phase = "entered", call.by # "function",
             NEW i \in DOMAIN call.params
      PROVE  IF i = 1
             THEN call.params[1] = I32 /\ call.given[1] = Len(call.args)
             ELSE /\ i \in {2, 3}
                  /\ call.params[i] = PPInt8Ty
                  /\ HoldsStrings(call.given[i], IF i = 2 THEN call.args ELSE call.env)
  <2>1. /\ call.params \in Seq(Type) /\ IsMainLike(call.params, call.ret)
        /\ call.args \in Seq(STRING) /\ call.env \in Seq(STRING)
        /\ call.given = MainArgs(Len(call.params), call.args, call.env)
        /\ call.bytes = BytesOf(call.args, call.env)
    BY <1>1, EnteredAsMain
  <2>2. PICK n \in 0 .. 3 : n = Len(call.params)
    BY <2>1, FewParameters
  <2>3. i \in 1 .. n
    BY <2>1, <2>2, LenProperties
  <2>4. call.given = MainArgs(n, call.args, call.env)
    BY <2>1, <2>2
  <2>5. ASSUME NEW list \in {"args", "env"}, NEW strings \in Seq(STRING),
               call.bytes["copy"][list] = strings
        PROVE  HoldsStrings(ArgvSet(list, strings), strings)
    <3>1. /\ Len(strings) \in Nat
          /\ DOMAIN ArgvSet(list, strings) = 1 .. (Len(strings) + 1)
          /\ \A j \in 1 .. Len(strings) : ArgvSet(list, strings)[j] = <<"copy", list, j>>
          /\ ArgvSet(list, strings)[Len(strings) + 1] = Null
      BY ArgvSetIs
    <3>2. DOMAIN strings = 1 .. Len(strings)
      BY LenProperties
    <3>3. Len(strings) + 1 \in DOMAIN ArgvSet(list, strings)
      BY <3>1
    <3>4. ASSUME NEW j \in DOMAIN strings
          PROVE  LET p == ArgvSet(list, strings)[j]
                 IN p # Null /\ call.bytes[p[1]][p[2]][p[3]] = strings[j]
      <4>1. ArgvSet(list, strings)[j] = <<"copy", list, j>>
        BY <3>1, <3>2
      <4>. QED
        BY <2>5, <4>1 DEF Null
    <3>. QED
      BY <3>1, <3>3, <3>4 DEF HoldsStrings
  <2>6. call.bytes["copy"]["args"] = call.args /\ call.bytes["copy"]["env"] = call.env
    BY <2>1 DEF BytesOf
  <2>7. CASE i = 1
    <3>1. call.params[1] = I32
      BY <2>1, <2>2, <2>3, <2>7 DEF IsMainLike
    <3>2. n >= 1 => MainArgs(n, call.args, call.env)[1] = Len(call.args)
      BY MainArgsAre
    <3>. QED
      BY <2>3, <2>4, <2>7, <3>1, <3>2
  <2>8. CASE i = 2
    <3>1. call.params[2] = PPInt8Ty
      BY <2>1, <2>2, <2>3, <2>8 DEF IsMainLike
    <3>2. n >= 2 => MainArgs(n, call.args, call.env)[2] = ArgvSet("args", call.args)
      BY MainArgsAre
    <3>3. HoldsStrings(ArgvSet("args", call.args), call.args)
      BY <2>1, <2>5, <2>6
    <3>. QED
      BY <2>3, <2>4, <2>8, <3>1, <3>2, <3>3
  <2>9. CASE i = 3
    <3>1. call.params[3] = PPInt8Ty
      BY <2>1, <2>2, <2>3, <2>9 DEF IsMainLike
    <3>2. n >= 3 => MainArgs(n, call.args, call.env)[3] = ArgvSet("env", call.env)
      BY MainArgsAre
    <3>3. HoldsStrings(ArgvSet("env", call.env), call.env)
      BY <2>1, <2>5, <2>6
    <3>. QED
      BY <2>3, <2>4, <2>9, <3>1, <3>2, <3>3
  <2>. QED
    BY <2>3, <2>7, <2>8, <2>9
<1>2. CallInv => MainGetsItsParameters
  BY <1>1 DEF CallInv, MainGetsItsParameters
<1>. QED
  BY <1>2, CallInvariance, PTL

(* A main that edits its arguments edits copies (execution_engine.cpp:138).*)
THEOREM StringsStay == RunSpec => []LeanStringsStay
<1>1. CallInv => LeanStringsStay
  BY DEF CallInv
<1>. QED
  BY <1>1, CallInvariance, PTL

(* The exit code is what main returned (execution_engine.cpp:109, 192). *)
THEOREM CodesReturned == RunSpec => []ExitCodesAreReturned
<1>1. CallInv => ExitCodesAreReturned
  BY DEF CallInv
<1>. QED
  BY <1>1, CallInvariance, PTL

(* What was proved of engines and references, of programs that run         *)
(* functions: an engine is of a kind that LLVM has, and owns modules       *)
(* (execution_engine.cpp:12-36, 85-98).                                    *)
THEOREM EngineTypesOfRuns == RunSpec => []EngineTypeOK
<1>1. EngineInv => EngineTypeOK
  BY DEF EngineInv
<1>. QED
  BY <1>1, RunImplementsEngine, EngineInvariance, PTL

(* No module reference dangles (execution_engine.cpp:28-36, 93-98). *)
THEOREM RunsKeepModules == RunSpec => []ModuleRefsAreValid
BY RunImplementsEngine, EnginesKeepModules, PTL

(* A function that is held finds its module (execution_engine.cpp:105-111).*)
THEOREM RunsFindModules == RunSpec => []HeldFunctionsRun
BY RunImplementsEngine, FunctionsRun, PTL

(* References that nothing uses are freed, with engines over their modules *)
(* and calls in between (papyrus_ffi.h:78-119).                            *)
THEOREM RunsLeakNothing ==
  ASSUME ~Mismatched
  PROVE  RunSpec => []NothingOutlivesItsUse
<1>1. EngineInit => Init
  BY DEF EngineInit
<1>2. [EngineNext]_<<vars, engineVars>> => [Next]_vars
  BY DEF EngineNext, InitNativeTarget, CreateForModule, CreateFails, DropEngine
<1>3. EngineSpec => Spec
  BY <1>1, <1>2, PTL DEF EngineSpec, Spec
<1>4. Spec => []NothingOutlivesItsUse
  BY NoLeak
<1>. QED
  BY <1>3, <1>4, RunImplementsEngine, PTL
=============================================================================
