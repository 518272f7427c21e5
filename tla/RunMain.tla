------------------------------ MODULE RunMain ------------------------------
(***************************************************************************)
(* Functions that run in an engine: runFunction, runFunctionAsMain and the *)
(* script command #jit.                                                    *)
(*                                                                         *)
(* The Lean thread that calls waits for the function, so no other action   *)
(* happens during a call.  The function itself may write to the memory it  *)
(* is given.  A type of LLVM is a record of an identifier and, for an      *)
(* integer type, the number of its values: 2 to the power of its width.    *)
(***************************************************************************)
EXTENDS ExecutionEngine, Sequences

CONSTANTS
  UInt32Size,  \* the number of values of i32 and of UInt32
  WordSize,    \* the number of values of the widest integer MCJIT returns
  IntSizes,    \* those of the integer types functions may return
  ParamLists,  \* the parameter types functions may have
  ArgLists,    \* the arguments and environments that are passed to main
  EnvLists,
  Edited       \* a string that a main writes over another

VARIABLE call  \* the call that runs, or that has ended; Idle if none

Ty(id, size) == [id |-> id, size |-> size]
I32 == Ty("integer", UInt32Size)
PPInt8Ty == Ty("i8**", 0)
Void == Ty("void", 0)
ReturnTypes == {Void, Ty("float", 0)} \cup {Ty("integer", n) : n \in IntSizes}
Type == [id : {"integer", "i8**", "void", "float"}, size : Nat]
Idle == [phase |-> "idle"]
Null == <<"null">>

ASSUME SizesAssumption ==
  /\ UInt32Size \in Nat \ {0} /\ WordSize \in Nat \ {0} /\ IntSizes \subseteq Nat
ASSUME ListsAssumption ==
  /\ ParamLists \subseteq Seq(Type)
  /\ ArgLists \subseteq Seq(STRING) /\ EnvLists \subseteq Seq(STRING)
ASSUME CallerAssumption == Engine \cap {"main", "function"} = {}
ASSUME JitAssumption == "either" \in Wanted \* jitMain asks for no kind

RunInit == EngineInit /\ call = Idle
-----------------------------------------------------------------------------
(* Variant with a bug: the type of the second parameter is not checked. *)
IsMainLikeUnchecked(params, ret) ==
  /\ Len(params) <= 3
  /\ Len(params) >= 3 => params[3] = PPInt8Ty
  /\ Len(params) >= 1 => params[1] = I32
  /\ ret.id \in {"integer", "void"}

(* The signatures that runFunctionAsMain lets pass. *)
IsMainLike(params, ret) ==
  /\ Len(params) <= 3
  /\ Len(params) >= 3 => params[3] = PPInt8Ty
  /\ Len(params) >= 2 => params[2] = PPInt8Ty
  /\ Len(params) >= 1 => params[1] = I32
  /\ ret.id \in {"integer", "void"}

(* MCJIT::runFunction calls only main-like functions, and gives up the     *)
(* process on the others.                                                  *)
JitRuns(params, ret) ==
  IF params = <<>>
  THEN ret.size <= WordSize
  ELSE ret \in {Void, I32} /\ params[1] = I32
         /\ \A i \in 2..Len(params) : params[i] = PPInt8Ty

(* Variant with a bug: the array holds pointers to Lean's own strings. *)
ArgvSetShared(list, strings) ==
  [i \in 1..(Len(strings) + 1) |->
     IF i <= Len(strings) THEN <<"lean", list, i>> ELSE Null]

(* ArgvArray::set: a copy of each string, the pointers to the copies, and  *)
(* a null pointer at the end.  A pointer names whose bytes it points to,   *)
(* in which list, and at which index.                                      *)
ArgvSet(list, strings) ==
  [i \in 1..(Len(strings) + 1) |->
     IF i <= Len(strings) THEN <<"copy", list, i>> ELSE Null]

(* The GenericValues that runFunctionAsMain makes for n parameters. *)
MainArgs(n, args, env) ==
  SubSeq(<<Len(args), ArgvSet("args", args), ArgvSet("env", env)>>, 1, n)

(* The bytes of the strings: Lean's and the copies. *)
BytesOf(args, env) ==
  LET both == [args |-> args, env |-> env] IN [lean |-> both, copy |-> both]

(* A function that a program holds can be run in an engine over a module   *)
(* of its context.                                                         *)
MayRun(f, e) ==
  /\ call = Idle
  /\ kind[e] # None /\ held[f] > 0
  /\ \E m \in modules[e] : home[target[f]] = home[m]

(* ExecutionEngine::runFunction *)
Enter(by, k, params, ret, args, env, given) ==
  call' = IF k = "jit" /\ ~JitRuns(params, ret)
          THEN [phase |-> "aborted"]
          ELSE [phase |-> "entered", by |-> by, params |-> params, ret |-> ret,
                args |-> args, env |-> env, given |-> given,
                bytes |-> BytesOf(args, env)]

(* runFunctionAsMain, up to the call of main. *)
AsMain(by, k, params, ret, args, env) ==
  IF IsMainLike(params, ret)
  THEN Enter(by, k, params, ret, args, env, MainArgs(Len(params), args, env))
  ELSE call' = [phase |-> "error", by |-> by]

RunFunctionAsMain(f, e, params, ret, args, env) ==
  /\ MayRun(f, e)
  /\ AsMain("main", kind[e], params, ret, args, env)
  /\ UNCHANGED <<vars, engineVars>>

(* runFunction, on a function that needs no GenericValue. *)
RunFunction(f, e, ret) ==
  /\ MayRun(f, e)
  /\ Enter("function", kind[e], <<>>, ret, <<>>, <<>>, <<>>)
  /\ UNCHANGED <<vars, engineVars>>

(* jitMain on a module that has a function main: an engine of any kind,    *)
(* which lives as long as the call.                                        *)
JitMain(r, e, found, params, ret, args, env) ==
  /\ call = Idle
  /\ CreateForModule(r, e, "either", found)
  /\ AsMain(e, Create("either", found), params, ret, args, env)

(* jitMain on a module that has none. *)
JitNoMain(r) ==
  /\ call = Idle
  /\ held[r] > 0 /\ target[r] \in Module
  /\ call' = [phase |-> "error", by |-> "main"]
  /\ UNCHANGED <<vars, engineVars>>

(* main writes over a string it was given.  Bound: one string. *)
Edit(i, j) ==
  /\ call.phase = "entered"
  /\ i \in (DOMAIN call.given) \ {1}
  /\ j \in DOMAIN call.given[i] /\ call.given[i][j] # Null
  /\ LET p == call.given[i][j]
     IN call' = [call EXCEPT !.phase = "edited",
                             !.bytes[p[1]][p[2]][p[3]] = Edited]
  /\ UNCHANGED <<vars, engineVars>>

(* Variant with a bug: the exit code is the low byte, as a shell sees it. *)
ExitCodeByte(by, value) ==
  IF by = "function" THEN value ELSE value % (UInt32Size \div 2)

(* runFunction gives the value it gets; lean_box_uint32 takes the low      *)
(* word.                                                                   *)
ExitCode(by, value) ==
  IF by = "function" THEN value ELSE value % UInt32Size

(* The function returns value, as an unsigned integer of its type; after a *)
(* void function the GenericValue holds anything.  The arrays go.          *)
Return(value) ==
  /\ call.phase \in {"entered", "edited"}
  /\ call.ret.id = "integer" => value < call.ret.size
  /\ call' = [phase |-> "returned", by |-> call.by, ret |-> call.ret,
              value |-> value, code |-> ExitCode(call.by, value)]
  /\ UNCHANGED <<vars, engineVars>>

(* Lean goes on.  If it was a script that called, its engine goes first. *)
Resume ==
  /\ call.phase \in {"returned", "error"}
  /\ call' = Idle
  /\ IF call.by \in Engine THEN DropEngine(call.by)
     ELSE UNCHANGED <<vars, engineVars>>

Calls ==
  \E ret \in ReturnTypes, e \in Engine, f \in Cell :
    \/ RunFunction(f, e, ret)
    \/ JitNoMain(f)
    \/ \E params \in ParamLists, args \in ArgLists, env \in EnvLists :
         \/ RunFunctionAsMain(f, e, params, ret, args, env)
         \/ \E found \in BOOLEAN :
              JitMain(f, e, found, params, ret, args, env)

RunNext ==
  \/ call = Idle /\ EngineNext /\ UNCHANGED call
  \/ Calls
  \/ \E i, j \in 1..3 : Edit(i, j)
  \/ \E value \in 0..(WordSize - 1) : Return(value)
  \/ Resume

RunSpec == RunInit /\ [][RunNext]_<<vars, engineVars, call>>
-----------------------------------------------------------------------------
(* What main finds at a pointer array: the strings, and where they end. *)
HoldsStrings(argv, strings) ==
  /\ Len(strings) + 1 \in DOMAIN argv /\ argv[Len(strings) + 1] = Null
  /\ \A i \in DOMAIN strings :
       LET p == argv[i]
       IN p # Null /\ call.bytes[p[1]][p[2]][p[3]] = strings[i]

(* Whatever parameters a main declares, each is given as its type says:    *)
(* the number of the arguments, the arguments, the environment, the arrays *)
(* with a null at their end (execution_engine.cpp:125-151 and 172-190).    *)
MainGetsItsParameters ==
  call.phase = "entered" /\ call.by # "function" =>
    \A i \in DOMAIN call.params :
      IF i = 1
      THEN call.params[1] = I32 /\ call.given[1] = Len(call.args)
      ELSE /\ i \in {2, 3}
           /\ call.params[i] = PPInt8Ty
           /\ HoldsStrings(call.given[i], IF i = 2 THEN call.args ELSE call.env)

(* A main that edits its arguments does not change the strings of Lean     *)
(* (execution_engine.cpp:138 "copy the string so that the user may edit    *)
(* it").                                                                   *)
LeanStringsStay ==
  call.phase = "edited" =>
    call.bytes["lean"] = [args |-> call.args, env |-> call.env]

(* The exit code is the one main returned, wherever the 32 bits of a       *)
(* UInt32 hold it, and the result of runFunction is never cut              *)
(* (execution_engine.cpp:109 and 192).                                     *)
ExitCodesAreReturned ==
  /\ call.phase = "returned"
  /\ call.ret.id = "integer"
  /\ call.by = "function" \/ call.ret.size <= UInt32Size
  => call.code = call.value
=============================================================================
