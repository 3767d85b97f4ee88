------------------------------- MODULE MCStorage -------------------------------
(* What the database keeps, for TLC, one part at a time: "table" is chosen at  *)
(* the start, and the variables of the others stay as they are.                *)
EXTENDS Accounts, AlasBindings, AuditChain, AccessLog, MirrorRecord, TLC

VARIABLE table

storageVars == <<table, accountVars, bindingVars, chainVars, accessVars, recordVars>>

\* "Main" and "main" are one configuration.
BindingKey == [s \in Spellings |-> IF s = "Main" THEN "main" ELSE s]

\* The page of "ann" may not start or stop a record.
PageUser == [p \in Pages |-> IF p = "c3" THEN "ann" ELSE Root]

StorageInit ==
  /\ table \in {"accounts", "bindings", "audit", "access", "record"}
  /\ AccountsInit /\ BindingsInit /\ ChainInit /\ AccessInit /\ RecordInit
  /\ bosses = {Root}

Rest(t, vars) == IF table = t THEN TRUE ELSE UNCHANGED vars

StorageNext ==
  /\ \/ table = "accounts" /\ AccountsNext
     \/ table = "bindings" /\ BindingsNext
     \/ table = "audit" /\ ChainNext
     \/ table = "access" /\ AccessNext
     \/ table = "record" /\ RecordNext
  /\ Rest("accounts", accountVars) /\ Rest("bindings", bindingVars)
  /\ Rest("audit", chainVars) /\ Rest("access", accessVars)
  /\ Rest("record", recordVars)
  /\ UNCHANGED table

StorageSpec == StorageInit /\ [][StorageNext]_storageVars
=============================================================================
