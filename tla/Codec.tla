------------------------------- MODULE Codec -------------------------------
(***************************************************************************)
(* The binary format of the cache: what the MarshalCache method of every   *)
(* cached type writes (pkg/types/types_*.go, through base.WriteValue) and   *)
(* what its UnmarshalCache method reads back (through base.ReadValue).  A   *)
(* file carries no field names and no lengths of its parts: it is readable  *)
(* only because the two methods, which are separate hand-maintained lists,  *)
(* name the same fields with the same widths in the same order, and because *)
(* the reader follows the version of the release that wrote the file.       *)
(*                                                                          *)
(* A file is a sequence of tokens.  A token has the width class of the      *)
(* value (its kind) and, instead of the bytes, the path of the field whose  *)
(* value was written, so that a reader which assigns the token to another   *)
(* field is seen.  The operators are recursive, so nothing is proved here.  *)
(***************************************************************************)
EXTENDS Naturals, Sequences

\* version.Uint64: the number a release version is written as in the header
Uint64(major, minor, build) == major * 1000000 + minor * 1000 + build

-----------------------------------------------------------------------------
\* One statement of a MarshalCache or UnmarshalCache method: a value, a slice,
\* an Optional, a value that is read and dropped, or a slice whose elements are
\* assigned by index to another slice.
One(field, kind) == [c |-> "one", n |-> field, k |-> kind]
List(field, kind) == [c |-> "list", n |-> field, k |-> kind]
Opt(field, kind) == [c |-> "opt", n |-> field, k |-> kind]
Skip(kind) == [c |-> "skip", n |-> "dropped", k |-> kind]
Index(field, kind) == [c |-> "index", n |-> field, k |-> kind]
When(cond, steps) == IF cond THEN steps ELSE <<>>

Abi_MarshalCache ==
  <<One("Address", "address"), One("FileSize", "i64"), List("Functions", "Function"),
     One("HasConstructor", "bool"), One("HasFallback", "bool"), One("IsEmpty", "bool"),
     One("IsKnown", "bool"), One("LastModDate", "string"), One("NEvents", "i64"),
     One("NFunctions", "i64"), One("Name", "string"), One("Path", "string")>>

Abi_UnmarshalCache(v) ==
  <<One("Address", "address"), One("FileSize", "i64"), List("Functions", "Function"),
     One("HasConstructor", "bool"), One("HasFallback", "bool"), One("IsEmpty", "bool"),
     One("IsKnown", "bool"), One("LastModDate", "string"), One("NEvents", "i64"),
     One("NFunctions", "i64"), One("Name", "string"), One("Path", "string")>>

Approval_MarshalCache ==
  <<One("Allowance", "big"), One("BlockNumber", "u64"), One("LastAppBlock", "u64"),
     One("LastAppLogID", "u64"), One("LastAppTs", "i64"), One("LastAppTxID", "u64"),
     One("Owner", "address"), One("Spender", "address"), One("Timestamp", "i64"),
     One("Token", "address")>>

Approval_UnmarshalCache(v) ==
  <<One("Allowance", "big"), One("BlockNumber", "u64"), One("LastAppBlock", "u64"),
     One("LastAppLogID", "u64"), One("LastAppTs", "i64"), One("LastAppTxID", "u64"),
     One("Owner", "address"), One("Spender", "address"), One("Timestamp", "i64"),
     One("Token", "address")>>

Block_MarshalCache ==
  <<One("BaseFeePerGas", "u64"), One("BlockNumber", "u64"), One("Difficulty", "u64"),
     One("GasLimit", "u64"), One("GasUsed", "u64"), One("Hash", "hash"), One("Miner", "address"),
     One("ParentHash", "hash"), One("Timestamp", "i64"), List("Transactions", "string"),
     List("Uncles", "hash"), List("Withdrawals", "Withdrawal")>>

Block_UnmarshalCache(v) ==
  When(v <= Uint64(2, 5, 8), <<One("BaseFeePerGas", "big")>>)
  \o When(v > Uint64(2, 5, 8), <<One("BaseFeePerGas", "u64")>>)
  \o <<One("BlockNumber", "u64"), One("Difficulty", "u64"), One("GasLimit", "u64"),
     One("GasUsed", "u64"), One("Hash", "hash"), One("Miner", "address"),
     One("ParentHash", "hash"), One("Timestamp", "i64"), Index("Transactions", "string"),
     List("Uncles", "hash"), List("Withdrawals", "Withdrawal")>>

Function_MarshalCache ==
  <<One("Anonymous", "bool"), One("Constant", "bool"), One("Encoding", "string"),
     List("Inputs", "Parameter"), One("Message", "string"), One("Name", "string"),
     List("Outputs", "Parameter"), One("Signature", "string"), One("StateMutability", "string"),
     One("FunctionType", "string")>>

Function_UnmarshalCache(v) ==
  <<One("Anonymous", "bool"), One("Constant", "bool"), One("Encoding", "string"),
     List("Inputs", "Parameter"), One("Message", "string"), One("Name", "string"),
     List("Outputs", "Parameter"), One("Signature", "string"), One("StateMutability", "string"),
     One("FunctionType", "string")>>

LightBlock_MarshalCache ==
  <<One("BaseFeePerGas", "u64"), One("BlockNumber", "u64"), One("Difficulty", "u64"),
     One("GasLimit", "u64"), One("GasUsed", "u64"), One("Hash", "hash"), One("Miner", "address"),
     One("ParentHash", "hash"), One("Timestamp", "i64"), List("Transactions", "string"),
     List("Uncles", "hash"), List("Withdrawals", "Withdrawal")>>

LightBlock_UnmarshalCache(v) ==
  When(v <= Uint64(2, 5, 8), <<One("BaseFeePerGas", "big")>>)
  \o When(v > Uint64(2, 5, 8), <<One("BaseFeePerGas", "u64")>>)
  \o <<One("BlockNumber", "u64"), One("Difficulty", "u64"), One("GasLimit", "u64"),
     One("GasUsed", "u64"), One("Hash", "hash"), One("Miner", "address"),
     One("ParentHash", "hash"), One("Timestamp", "i64"), List("Transactions", "string"),
     List("Uncles", "hash"), List("Withdrawals", "Withdrawal")>>

Log_MarshalCache ==
  <<One("Address", "address"), Opt("ArticulatedLog", "Function"), One("BlockHash", "hash"),
     One("BlockNumber", "u64"), One("Data", "string"), One("LogIndex", "u64"),
     One("Timestamp", "i64"), List("Topics", "hash"), One("TransactionHash", "hash"),
     One("TransactionIndex", "u64")>>

Log_UnmarshalCache(v) ==
  <<One("Address", "address"), Opt("ArticulatedLog", "Function"), One("BlockHash", "hash"),
     One("BlockNumber", "u64")>>
  \o When(v <= Uint64(2, 5, 10), <<Skip("string")>>)
  \o <<One("Data", "string"), One("LogIndex", "u64"), One("Timestamp", "i64"), List("Topics", "hash"),
     One("TransactionHash", "hash"), One("TransactionIndex", "u64")>>

LogGroup_MarshalCache ==
  <<List("Logs", "Log")>>

LogGroup_UnmarshalCache(v) ==
  <<List("Logs", "Log")>>

Monitor_MarshalCache ==
  <<One("Address", "address"), One("Deleted", "bool"), One("FileSize", "i64"),
     One("IsEmpty", "bool"), One("IsStaged", "bool"), One("LastScanned", "u32"),
     One("NRecords", "i64"), One("Name", "string")>>

\* [mutant] the fields that 3.1.2 added are looked for in older files too
Monitor_UnmarshalCache_Bug(v) ==
  <<One("Address", "address"), One("Deleted", "bool"), One("FileSize", "i64"),
     One("IsEmpty", "bool"), One("IsStaged", "bool"), One("LastScanned", "u32"),
     One("NRecords", "i64"), One("Name", "string")>>

Monitor_UnmarshalCache(v) ==
  <<One("Address", "address"), One("Deleted", "bool"), One("FileSize", "i64")>>
  \o When(v > Uint64(3, 1, 2), <<One("IsEmpty", "bool"), One("IsStaged", "bool")>>)
  \o <<One("LastScanned", "u32"), One("NRecords", "i64"), One("Name", "string")>>

Parameter_MarshalCache ==
  <<List("Components", "Parameter"), One("Indexed", "bool"), One("InternalType", "string"),
     One("Name", "string"), One("StrDefault", "string"), One("ParameterType", "string"),
     One("Value", "string")>>

Parameter_UnmarshalCache(v) ==
  <<List("Components", "Parameter"), One("Indexed", "bool"), One("InternalType", "string"),
     One("Name", "string"), One("StrDefault", "string"), One("ParameterType", "string"),
     One("Value", "string")>>

Receipt_MarshalCache ==
  <<One("BlockHash", "hash"), One("BlockNumber", "u64"), One("ContractAddress", "address"),
     One("CumulativeGasUsed", "u64"), One("EffectiveGasPrice", "u64"), One("From", "address"),
     One("GasUsed", "u64"), One("IsError", "bool"), List("Logs", "Log"), One("Status", "u64"),
     One("To", "address"), One("TransactionHash", "hash"), One("TransactionIndex", "u64")>>

Receipt_UnmarshalCache(v) ==
  <<One("BlockHash", "hash"), One("BlockNumber", "u64"), One("ContractAddress", "address")>>
  \o When(v <= Uint64(2, 5, 8), <<One("CumulativeGasUsed", "string")>>)
  \o When(v > Uint64(2, 5, 8), <<One("CumulativeGasUsed", "u64")>>)
  \o <<One("EffectiveGasPrice", "u64"), One("From", "address"), One("GasUsed", "u64"),
     One("IsError", "bool"), List("Logs", "Log")>>
  \o When(v <= Uint64(2, 5, 9), <<One("Status", "u32")>>)
  \o When(v > Uint64(2, 5, 9), <<One("Status", "u64")>>)
  \o <<One("To", "address"), One("TransactionHash", "hash"), One("TransactionIndex", "u64")>>

ReceiptGroup_MarshalCache ==
  <<List("Receipts", "Receipt")>>

ReceiptGroup_UnmarshalCache(v) ==
  <<List("Receipts", "Receipt")>>

Result_MarshalCache ==
  <<One("Address", "address"), Opt("ArticulatedOut", "Function"), One("BlockNumber", "u64"),
     One("EncodedArguments", "string"), One("Encoding", "string"), One("Name", "string"),
     One("Signature", "string"), One("Timestamp", "i64")>>

Result_UnmarshalCache(v) ==
  <<One("Address", "address"), Opt("ArticulatedOut", "Function"), One("BlockNumber", "u64"),
     One("EncodedArguments", "string"), One("Encoding", "string"), One("Name", "string"),
     One("Signature", "string"), One("Timestamp", "i64")>>

Slurp_MarshalCache ==
  <<Opt("ArticulatedTx", "Function"), One("BlockHash", "hash"), One("BlockNumber", "u64"),
     One("ContractAddress", "address"), One("CumulativeGasUsed", "string"),
     One("From", "address"), One("FunctionName", "string"), One("Gas", "u64"),
     One("GasPrice", "u64"), One("GasUsed", "u64"), One("HasToken", "bool"), One("Hash", "hash"),
     One("Input", "string"), One("IsError", "bool"), One("MethodId", "string"),
     One("Nonce", "u64"), One("Timestamp", "i64"), One("To", "address"),
     One("TransactionIndex", "u64"), One("TxReceiptStatus", "string"),
     One("ValidatorIndex", "u64"), One("Value", "big"), One("WithdrawalIndex", "u64")>>

Slurp_UnmarshalCache(v) ==
  <<Opt("ArticulatedTx", "Function"), One("BlockHash", "hash"), One("BlockNumber", "u64"),
     One("ContractAddress", "address"), One("CumulativeGasUsed", "string"),
     One("From", "address"), One("FunctionName", "string"), One("Gas", "u64"),
     One("GasPrice", "u64"), One("GasUsed", "u64"), One("HasToken", "bool"), One("Hash", "hash"),
     One("Input", "string"), One("IsError", "bool"), One("MethodId", "string"),
     One("Nonce", "u64"), One("Timestamp", "i64"), One("To", "address"),
     One("TransactionIndex", "u64"), One("TxReceiptStatus", "string"),
     One("ValidatorIndex", "u64"), One("Value", "big"), One("WithdrawalIndex", "u64")>>

SlurpGroup_MarshalCache ==
  <<List("Slurps", "Slurp")>>

SlurpGroup_UnmarshalCache(v) ==
  <<List("Slurps", "Slurp")>>

State_MarshalCache ==
  <<One("AccountType", "string"), One("Address", "address"), One("Balance", "big"),
     One("BlockNumber", "u64"), One("Code", "string"), One("Deployed", "u64"),
     One("Nonce", "u64"), One("Parts", "u64"), One("Proxy", "address"), One("Timestamp", "i64")>>

State_UnmarshalCache(v) ==
  <<One("AccountType", "string"), One("Address", "address"), One("Balance", "big"),
     One("BlockNumber", "u64"), One("Code", "string"), One("Deployed", "u64"),
     One("Nonce", "u64"), One("Parts", "u64"), One("Proxy", "address"), One("Timestamp", "i64")>>

Statement_MarshalCache ==
  <<One("AccountedFor", "address"), One("AmountIn", "big"), One("AmountOut", "big"),
     One("Asset", "address"), One("BegBal", "big"), One("BlockNumber", "u64"),
     One("CorrectAmountIn", "big"), One("CorrectAmountOut", "big"),
     One("CorrectBegBalIn", "big"), One("CorrectBegBalOut", "big"),
     One("CorrectEndBalIn", "big"), One("CorrectEndBalOut", "big"),
     One("CorrectingReasons", "string"), One("Decimals", "u64"), One("EndBal", "big"),
     One("GasOut", "big"), One("InternalIn", "big"), One("InternalOut", "big"),
     One("LogIndex", "u64"), One("MinerBaseRewardIn", "big"), One("MinerNephewRewardIn", "big"),
     One("MinerTxFeeIn", "big"), One("MinerUncleRewardIn", "big"), One("PrefundIn", "big"),
     One("PrevBal", "big"), One("PriceSource", "string"), One("Recipient", "address"),
     One("SelfDestructIn", "big"), One("SelfDestructOut", "big"), One("Sender", "address"),
     One("SpotPrice", "float"), One("Symbol", "string"), One("Timestamp", "i64"),
     One("TransactionHash", "hash"), One("TransactionIndex", "u64")>>

Statement_UnmarshalCache(v) ==
  <<One("AccountedFor", "address"), One("AmountIn", "big"), One("AmountOut", "big"),
     One("Asset", "address"), One("BegBal", "big"), One("BlockNumber", "u64"),
     One("CorrectAmountIn", "big"), One("CorrectAmountOut", "big"),
     One("CorrectBegBalIn", "big"), One("CorrectBegBalOut", "big"),
     One("CorrectEndBalIn", "big"), One("CorrectEndBalOut", "big"),
     One("CorrectingReasons", "string"), One("Decimals", "u64"), One("EndBal", "big"),
     One("GasOut", "big"), One("InternalIn", "big"), One("InternalOut", "big"),
     One("LogIndex", "u64"), One("MinerBaseRewardIn", "big"), One("MinerNephewRewardIn", "big"),
     One("MinerTxFeeIn", "big"), One("MinerUncleRewardIn", "big"), One("PrefundIn", "big"),
     One("PrevBal", "big"), One("PriceSource", "string"), One("Recipient", "address"),
     One("SelfDestructIn", "big"), One("SelfDestructOut", "big"), One("Sender", "address"),
     One("SpotPrice", "float"), One("Symbol", "string"), One("Timestamp", "i64"),
     One("TransactionHash", "hash"), One("TransactionIndex", "u64")>>

StatementGroup_MarshalCache ==
  <<List("Statements", "Statement")>>

StatementGroup_UnmarshalCache(v) ==
  <<List("Statements", "Statement")>>

Token_MarshalCache ==
  <<One("Address", "address"), One("Balance", "big"), One("BlockNumber", "u64"),
     One("Decimals", "u64"), One("Holder", "address"), One("Name", "string"),
     One("PriorBalance", "big"), One("Symbol", "string"), One("Timestamp", "i64"),
     One("TotalSupply", "big"), One("TransactionIndex", "u64"), One("TokenType", "u64")>>

Token_UnmarshalCache(v) ==
  <<One("Address", "address"), One("Balance", "big"), One("BlockNumber", "u64"),
     One("Decimals", "u64"), One("Holder", "address"), One("Name", "string"),
     One("PriorBalance", "big"), One("Symbol", "string"), One("Timestamp", "i64"),
     One("TotalSupply", "big"), One("TransactionIndex", "u64"), One("TokenType", "u64")>>

TokenType_MarshalCache ==
  <<One("TokenType", "u8")>>

TokenType_UnmarshalCache(v) ==
  <<One("TokenType", "u8")>>

Trace_MarshalCache ==
  <<Opt("Action", "TraceAction"), Opt("ArticulatedTrace", "Function"), One("BlockHash", "hash"),
     One("BlockNumber", "u64"), One("Error", "string"), Opt("Result", "TraceResult"),
     One("Subtraces", "u64"), One("Timestamp", "i64"), List("TraceAddress", "u64"),
     One("TransactionHash", "hash"), One("TransactionIndex", "u64"), One("TraceType", "string")>>

Trace_UnmarshalCache(v) ==
  <<Opt("Action", "TraceAction"), Opt("ArticulatedTrace", "Function"), One("BlockHash", "hash"),
     One("BlockNumber", "u64")>>
  \o When(v <= Uint64(2, 5, 10), <<Skip("string")>>)
  \o <<One("Error", "string"), Opt("Result", "TraceResult"), One("Subtraces", "u64"),
     One("Timestamp", "i64"), List("TraceAddress", "u64"), One("TransactionHash", "hash"),
     One("TransactionIndex", "u64"), One("TraceType", "string")>>

TraceAction_MarshalCache ==
  <<One("Address", "address"), One("Author", "address"), One("Balance", "big"),
     One("CallType", "string"), One("From", "address"), One("Gas", "u64"), One("Init", "string"),
     One("Input", "string"), One("RefundAddress", "address"), One("RewardType", "string"),
     One("SelfDestructed", "address"), One("To", "address"), One("Value", "big")>>

TraceAction_UnmarshalCache(v) ==
  <<One("Address", "address"), One("Author", "address"), One("Balance", "big"),
     One("CallType", "string"), One("From", "address"), One("Gas", "u64"), One("Init", "string"),
     One("Input", "string"), One("RefundAddress", "address"), One("RewardType", "string"),
     One("SelfDestructed", "address"), One("To", "address"), One("Value", "big")>>

TraceGroup_MarshalCache ==
  <<List("Traces", "Trace")>>

TraceGroup_UnmarshalCache(v) ==
  <<List("Traces", "Trace")>>

TraceResult_MarshalCache ==
  <<One("Address", "address"), One("Code", "string"), One("GasUsed", "u64"),
     One("Output", "string")>>

TraceResult_UnmarshalCache(v) ==
  <<One("Address", "address"), One("Code", "string"), One("GasUsed", "u64"),
     One("Output", "string")>>

Transaction_MarshalCache ==
  <<Opt("ArticulatedTx", "Function"), One("BlockHash", "hash"), One("BlockNumber", "u64"),
     One("From", "address"), One("Gas", "u64"), One("GasPrice", "u64"), One("GasUsed", "u64"),
     One("HasToken", "bool"), One("Hash", "hash"), One("Input", "string"),
     One("IsError", "bool"), One("MaxFeePerGas", "u64"), One("MaxPriorityFeePerGas", "u64"),
     One("Nonce", "u64"), Opt("Receipt", "Receipt"), One("Timestamp", "i64"),
     One("To", "address"), One("TransactionIndex", "u64"), One("TransactionType", "string"),
     One("Value", "big")>>

Transaction_UnmarshalCache(v) ==
  <<Opt("ArticulatedTx", "Function"), One("BlockHash", "hash"), One("BlockNumber", "u64"),
     One("From", "address"), One("Gas", "u64"), One("GasPrice", "u64"), One("GasUsed", "u64"),
     One("HasToken", "bool"), One("Hash", "hash"), One("Input", "string"),
     One("IsError", "bool"), One("MaxFeePerGas", "u64"), One("MaxPriorityFeePerGas", "u64"),
     One("Nonce", "u64"), Opt("Receipt", "Receipt"), One("Timestamp", "i64"),
     One("To", "address"), One("TransactionIndex", "u64"), One("TransactionType", "string"),
     One("Value", "big")>>

Withdrawal_MarshalCache ==
  <<One("Address", "address"), One("Amount", "big"), One("BlockNumber", "u64"),
     One("Index", "u64"), One("Timestamp", "i64"), One("ValidatorIndex", "u64")>>

\* [mutant] two fields of the same width are read in the wrong order
Withdrawal_UnmarshalCache_Bug(v) ==
  <<One("Address", "address"), One("Amount", "big"), One("BlockNumber", "u64"),
     One("ValidatorIndex", "u64"), One("Timestamp", "i64"), One("Index", "u64")>>

Withdrawal_UnmarshalCache(v) ==
  <<One("Address", "address"), One("Amount", "big"), One("BlockNumber", "u64"),
     One("Index", "u64"), One("Timestamp", "i64"), One("ValidatorIndex", "u64")>>

WithdrawalGroup_MarshalCache ==
  <<List("Withdrawals", "Withdrawal")>>

WithdrawalGroup_UnmarshalCache(v) ==
  <<List("Withdrawals", "Withdrawal")>>
-----------------------------------------------------------------------------
\* Every type that has the two methods.
Types == {"Abi", "Approval", "Block", "Function", "LightBlock", "Log", "LogGroup", "Monitor", "Parameter", 
          "Receipt", "ReceiptGroup", "Result", "Slurp", "SlurpGroup", "State", "Statement", "StatementGroup", "Token", "TokenType", "Trace", 
          "TraceAction", "TraceGroup", "TraceResult", "Transaction", "Withdrawal", "WithdrawalGroup"}

MarshalCache(t) ==
  CASE t = "Abi" -> Abi_MarshalCache
    [] t = "Approval" -> Approval_MarshalCache
    [] t = "Block" -> Block_MarshalCache
    [] t = "Function" -> Function_MarshalCache
    [] t = "LightBlock" -> LightBlock_MarshalCache
    [] t = "Log" -> Log_MarshalCache
    [] t = "LogGroup" -> LogGroup_MarshalCache
    [] t = "Monitor" -> Monitor_MarshalCache
    [] t = "Parameter" -> Parameter_MarshalCache
    [] t = "Receipt" -> Receipt_MarshalCache
    [] t = "ReceiptGroup" -> ReceiptGroup_MarshalCache
    [] t = "Result" -> Result_MarshalCache
    [] t = "Slurp" -> Slurp_MarshalCache
    [] t = "SlurpGroup" -> SlurpGroup_MarshalCache
    [] t = "State" -> State_MarshalCache
    [] t = "Statement" -> Statement_MarshalCache
    [] t = "StatementGroup" -> StatementGroup_MarshalCache
    [] t = "Token" -> Token_MarshalCache
    [] t = "TokenType" -> TokenType_MarshalCache
    [] t = "Trace" -> Trace_MarshalCache
    [] t = "TraceAction" -> TraceAction_MarshalCache
    [] t = "TraceGroup" -> TraceGroup_MarshalCache
    [] t = "TraceResult" -> TraceResult_MarshalCache
    [] t = "Transaction" -> Transaction_MarshalCache
    [] t = "Withdrawal" -> Withdrawal_MarshalCache
    [] t = "WithdrawalGroup" -> WithdrawalGroup_MarshalCache

UnmarshalCache(t, v) ==
  CASE t = "Abi" -> Abi_UnmarshalCache(v)
    [] t = "Approval" -> Approval_UnmarshalCache(v)
    [] t = "Block" -> Block_UnmarshalCache(v)
    [] t = "Function" -> Function_UnmarshalCache(v)
    [] t = "LightBlock" -> LightBlock_UnmarshalCache(v)
    [] t = "Log" -> Log_UnmarshalCache(v)
    [] t = "LogGroup" -> LogGroup_UnmarshalCache(v)
    [] t = "Monitor" -> Monitor_UnmarshalCache(v)
    [] t = "Parameter" -> Parameter_UnmarshalCache(v)
    [] t = "Receipt" -> Receipt_UnmarshalCache(v)
    [] t = "ReceiptGroup" -> ReceiptGroup_UnmarshalCache(v)
    [] t = "Result" -> Result_UnmarshalCache(v)
    [] t = "Slurp" -> Slurp_UnmarshalCache(v)
    [] t = "SlurpGroup" -> SlurpGroup_UnmarshalCache(v)
    [] t = "State" -> State_UnmarshalCache(v)
    [] t = "Statement" -> Statement_UnmarshalCache(v)
    [] t = "StatementGroup" -> StatementGroup_UnmarshalCache(v)
    [] t = "Token" -> Token_UnmarshalCache(v)
    [] t = "TokenType" -> TokenType_UnmarshalCache(v)
    [] t = "Trace" -> Trace_UnmarshalCache(v)
    [] t = "TraceAction" -> TraceAction_UnmarshalCache(v)
    [] t = "TraceGroup" -> TraceGroup_UnmarshalCache(v)
    [] t = "TraceResult" -> TraceResult_UnmarshalCache(v)
    [] t = "Transaction" -> Transaction_UnmarshalCache(v)
    [] t = "Withdrawal" -> Withdrawal_UnmarshalCache(v)
    [] t = "WithdrawalGroup" -> WithdrawalGroup_UnmarshalCache(v)

-----------------------------------------------------------------------------
(***************************************************************************)
(* Files of earlier releases.  The tables of the releases are not in the    *)
(* repository; what they wrote is known from the branches the readers keep  *)
(* for them.                                                                *)
(***************************************************************************)
CurrentVersion == Uint64(6, 5, 0)

OldSteps(t, v, f) ==
  CASE t \in {"Block", "LightBlock"} /\ f.n = "BaseFeePerGas" /\ v <= Uint64(2, 5, 8) -> <<One(f.n, "big")>>
    [] t = "Receipt" /\ f.n = "CumulativeGasUsed" /\ v <= Uint64(2, 5, 8) -> <<One(f.n, "string")>>
    [] t = "Receipt" /\ f.n = "Status" /\ v <= Uint64(2, 5, 9) -> <<One(f.n, "u32")>>
    [] t \in {"Log", "Trace"} /\ f.n = "BlockNumber" /\ v <= Uint64(2, 5, 10) -> <<f, Skip("string")>>
    [] t = "Monitor" /\ f.n \in {"IsEmpty", "IsStaged"} /\ v <= Uint64(3, 1, 2) -> <<>>
    [] OTHER -> <<f>>

RECURSIVE Flatten(_, _, _)
Flatten(t, v, steps) ==
  IF steps = <<>> THEN <<>> ELSE OldSteps(t, v, Head(steps)) \o Flatten(t, v, Tail(steps))

MarshalAt(t, v) == Flatten(t, v, MarshalCache(t))

-----------------------------------------------------------------------------
(***************************************************************************)
(* WriteValue.  A shape says how many elements every slice has and whether  *)
(* the optional values are there; the components of a parameter that is     *)
(* itself a component are left empty, which ends the recursion.             *)
(***************************************************************************)
Ordinal == <<"#1", "#2", "#3">>
Token(kind, path, n) == [k |-> kind, p |-> path, n |-> n]
LenIn(shape, field, path) ==
  IF field = "Components" /\ \E i \in 1..Len(path) : path[i] = field THEN 0 ELSE shape.len

RECURSIVE WriteSteps(_, _, _, _), WriteItems(_, _, _, _, _)

WriteValue(kind, path, shape, v) ==
  IF kind \in Types THEN WriteSteps(MarshalAt(kind, v), path, shape, v) ELSE <<Token(kind, path, 0)>>

\* writeSlice, writeSliceReflect: the elements after the count
WriteItems(kind, path, shape, v, i) ==
  IF i = 0 THEN <<>>
  ELSE WriteItems(kind, path, shape, v, i - 1) \o WriteValue(kind, Append(path, Ordinal[i]), shape, v)

WriteStep(f, path, shape, v) ==
  LET here == Append(path, f.n) IN
  CASE f.c \in {"one", "skip"} -> WriteValue(f.k, here, shape, v)
    [] f.c = "list" -> LET n == LenIn(shape, f.n, path) IN
                       <<Token("u64", here, n)>> \o WriteItems(f.k, here, shape, v, n)
    [] f.c = "opt" -> <<Token("bool", here, IF shape.opt THEN 1 ELSE 0)>>
                      \o (IF shape.opt THEN WriteValue(f.k, here, shape, v) ELSE <<>>)

WriteSteps(steps, path, shape, v) ==
  IF steps = <<>> THEN <<>>
  ELSE WriteStep(Head(steps), path, shape, v) \o WriteSteps(Tail(steps), path, shape, v)

\* Item.Encode: the header (magic number and version), then the value
Encode(t, shape, v) == <<Token("header", <<>>, v)>> \o WriteValue(t, <<>>, shape, v)

-----------------------------------------------------------------------------
(***************************************************************************)
(* ReadValue.  The reader's position, whether it met the end of the file    *)
(* ("eof") or an index out of range ("panic"), and whether some field got   *)
(* a value that was not written from it ("bad").  A token that was cut in   *)
(* the middle has the kind "cut": the attempt consumes it and fails.        *)
(***************************************************************************)
\* base.ReadValue retries a failed slice with binary.Read, which succeeds and
\* yields an empty slice when the elements have a fixed size.
FixedSize(kind) == kind \in {"hash", "u64", "address", "bool"}

ReadFixed(kind, path, file, r) ==
  IF r.pos > Len(file) \/ file[r.pos].k = "cut"
  THEN [r EXCEPT !.st = "eof", !.pos = Len(file) + 1]
  ELSE [r EXCEPT !.pos = @ + 1, !.bad = @ \/ file[r.pos].k # kind \/ file[r.pos].p # path]

RECURSIVE ReadSteps(_, _, _, _, _), ReadItems(_, _, _, _, _, _)

ReadValue(kind, path, file, v, r) ==
  IF kind \in Types THEN ReadSteps(UnmarshalCache(kind, v), path, file, v, r)
  ELSE ReadFixed(kind, path, file, r)

ReadItems(kind, path, file, v, i, r) ==
  IF i = 0 THEN r
  ELSE LET before == ReadItems(kind, path, file, v, i - 1, r) IN
       IF before.st # "ok" THEN before ELSE ReadValue(kind, Append(path, Ordinal[i]), file, v, before)

\* readSlice, readSliceReflect
ReadSlice(f, path, file, v, r) ==
  LET count == ReadFixed("u64", path, file, r)
      items == IF count.st # "ok" \/ count.bad THEN count
               ELSE ReadItems(f.k, path, file, v, file[r.pos].n, count)
  IN IF items.st = "eof" /\ FixedSize(f.k) /\ f.c = "list"
     THEN [items EXCEPT !.st = "ok", !.bad = TRUE] ELSE items

\* Optional.UnmarshalCache
ReadOptional(f, path, file, v, r) ==
  LET present == ReadFixed("bool", path, file, r) IN
  IF present.st # "ok" \/ present.bad \/ file[r.pos].n = 0 THEN present
  ELSE ReadValue(f.k, path, file, v, present)

ReadStep(f, path, file, v, r) ==
  LET here == Append(path, f.n) IN
  CASE f.c \in {"one", "skip"} -> ReadValue(f.k, here, file, v, r)
    [] f.c = "list" -> ReadSlice(f, here, file, v, r)
    [] f.c = "index" -> LET s == ReadSlice(f, here, file, v, r) IN
                        IF s.st = "ok" /\ ~s.bad /\ file[r.pos].n > 0 THEN [s EXCEPT !.st = "panic"] ELSE s
    [] f.c = "opt" -> ReadOptional(f, here, file, v, r)

ReadSteps(steps, path, file, v, r) ==
  IF steps = <<>> \/ r.st # "ok" THEN r
  ELSE ReadSteps(Tail(steps), path, file, v, ReadStep(Head(steps), path, file, v, r))

\* Item.Decode: "whole" when every value that was written is back in its field
Decode(t, file, size) ==
  IF file = <<>> \/ file[1].k # "header" THEN "failed"
  ELSE LET r == ReadValue(t, <<>>, file, file[1].n, [pos |-> 2, st |-> "ok", bad |-> FALSE]) IN
       CASE r.st = "eof" -> "failed"
         [] r.st = "panic" -> "panic"
         [] r.st = "ok" -> IF r.bad \/ r.pos # size + 1 THEN "garbage" ELSE "whole"

-----------------------------------------------------------------------------
\* What reading a file as type t may yield when all of it was written as type w
\* by release v, and when only a part of it was.
DecodeWhole(t, w, shapes, v) ==
  {Decode(t, file, Len(file)) : file \in {Encode(w, s, v) : s \in shapes}}

Cut(file, i) == SubSeq(file, 1, i) \o <<Token("cut", <<>>, 0)>>
DecodeTorn(t, w, shapes, v) ==
  UNION {{Decode(t, SubSeq(file, 1, i), Len(file)) : i \in 0..(Len(file) - 1)}
         \cup {Decode(t, Cut(file, i), Len(file)) : i \in 0..(Len(file) - 1)} : file \in {Encode(w, s, v) : s \in shapes}}
=============================================================================
