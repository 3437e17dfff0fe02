------------------------------ MODULE GoTests ------------------------------
(***************************************************************************)
(* go test over the tables of RvcTests and RviTests.  Each test function   *)
(* ranges over its table in order and t.Run runs the loop body on one      *)
(* case; a case that fails (t.Errorf or t.Fatalf, which ends only that     *)
(* subtest) is recorded and the loop goes on.  The functions run one after *)
(* another; their order does not change which cases fail.                 *)
(***************************************************************************)
EXTENDS RviTests

VARIABLES
  test,     \* the test function running, or "done"
  idx,      \* the index of the next case in its table
  failed    \* the <<test, index>> of every case that failed

runnerVars == <<test, idx, failed>>

ImmRegCases == ImmRegCasesA \o ImmRegCasesB

(* The tables by test function; the functions whose body checks a0 and    *)
(* empty flags share RegPasses.                                            *)
Tables == [TestDecodeRVCFormat |-> FormatCases, TestDecodeRVCImmediateAndReg |-> ImmRegCases,
           TestExecRVC |-> ExecCases, TestM |-> MCases, TestShifts |-> ShiftCases,
           TestArith |-> ArithCases, TestLogical |-> LogicalCases, TestJumps |-> JumpCases,
           TestMemLoad |-> LoadCases, TestMemStore |-> StoreCases, TestLUIAUIPC |-> UpperCases]
RegTests == {"TestM", "TestShifts", "TestArith", "TestLogical", "TestMemLoad", "TestLUIAUIPC"}
Order == <<"TestDecodeRVCFormat", "TestDecodeRVCImmediateAndReg", "TestExecRVC",
           "TestM", "TestShifts", "TestArith", "TestLogical", "TestJumps",
           "TestMemLoad", "TestMemStore", "TestLUIAUIPC">>

RunnerInit == test = Order[1] /\ idx = 1 /\ failed = {}

(* The loop has a case left: t.Run on it records whether it passed. *)
Record(ok) ==
  /\ idx <= Len(Tables[test])
  /\ failed' = IF ok THEN failed ELSE failed \cup {<<test, idx>>}
  /\ idx' = idx + 1
  /\ UNCHANGED test

RunFormat  == test = "TestDecodeRVCFormat" /\ Record(FormatPasses(Tables[test][idx]))
RunImmReg  == test = "TestDecodeRVCImmediateAndReg" /\ Record(ImmRegPasses(Tables[test][idx]))
RunExec    == test = "TestExecRVC" /\ Record(ExecPasses(Tables[test][idx]))
RunRegTest == test \in RegTests /\ Record(RegPasses(Tables[test][idx]))
RunJump    == test = "TestJumps" /\ Record(JumpPasses(Tables[test][idx]))
RunStore   == test = "TestMemStore" /\ Record(StorePasses(Tables[test][idx]))

(* The range loop is over: the next function starts, or go test is done. *)
NextTest ==
  /\ test # "done"
  /\ idx > Len(Tables[test])
  /\ \E k \in DOMAIN Order :
       /\ Order[k] = test
       /\ test' = IF k = Len(Order) THEN "done" ELSE Order[k + 1]
  /\ idx' = 1
  /\ UNCHANGED failed

RunnerNext == RunFormat \/ RunImmReg \/ RunExec \/ RunRegTest \/ RunJump \/ RunStore \/ NextTest

(* Every case of the eleven tables passes on the model: the decodeC*       *)
(* extractors, rvcDecode's fields, Decode plus handler on the RVC cases,   *)
(* and every RV64IM handler called directly on test.setup's VM give the    *)
(* registers, PC, memory and flags the tests want.  The model's decoder    *)
(* and handlers agree with the code on every input its authors checked.    *)
TestsPass == failed = {}
====
