---------------------------- MODULE AlarmRegistry ----------------------------
(* The registry of active alarms that every part of the service shares        *)
(* (monitoring.cpp, AlarmRegistry).  An alarm is its code and its source.     *)
(* Whoever raises or clears alarms makes one call after the other; the calls  *)
(* a thread still has to make are a sequence, so the calls of two threads     *)
(* interleave.  The registry refuses a new alarm when it is full, and its     *)
(* callers do not look at the answer.  Revisions, texts, acknowledgements and  *)
(* the history of cleared alarms are left out.                                *)
EXTENDS Naturals, Sequences, FiniteSets, SequencesExt

CONSTANTS
    Alarms,          \* pairs of a code and a source
    Threads,         \* who raises and clears alarms
    ActiveCapacity   \* active alarms the registry holds

ASSUME ActiveCapacityAssumption == ActiveCapacity \in Nat

VARIABLES
    raised,          \* the active alarms
    calls,           \* the calls each thread has still to make
    overflowed       \* an alarm was refused because the registry was full

registryVars == <<raised, calls, overflowed>>

Raise(alarm) == [op |-> "raise", alarm |-> alarm]
Clear(alarm) == [op |-> "clear", alarm |-> alarm]
CallsOf(op, alarms) == [op : {op}, alarm : alarms]

\* A condition raises nothing, clears nothing, or makes its one call.
If(condition, call) == IF condition THEN <<call>> ELSE <<>>

Full(alarm) == alarm \notin raised /\ Cardinality(raised) >= ActiveCapacity

RaiseAlarm(alarm) ==
    /\ ~Full(alarm)
    /\ raised' = raised \union {alarm}
    /\ UNCHANGED overflowed

RefuseAlarm(alarm) ==
    /\ Full(alarm)
    /\ overflowed' = TRUE
    /\ UNCHANGED raised

ClearAlarm(alarm) ==
    /\ raised' = raised \ {alarm}
    /\ UNCHANGED overflowed

\* The next call of a thread.
Call(thread) ==
    /\ calls[thread] # <<>>
    /\ LET call == Head(calls[thread])
       IN  \/ call.op = "raise" /\ RaiseAlarm(call.alarm)
           \/ call.op = "raise" /\ RefuseAlarm(call.alarm)
           \/ call.op = "clear" /\ ClearAlarm(call.alarm)
    /\ calls' = [calls EXCEPT ![thread] = Tail(@)]

Idle(thread) == calls[thread] = <<>>

\* A thread without calls in progress plans the given ones.
Plan(thread, sequence) ==
    /\ Idle(thread)
    /\ calls' = [calls EXCEPT ![thread] = sequence]
    /\ UNCHANGED <<raised, overflowed>>

\* The rest of the service raises and clears alarms of its own.
OthersCall(own) ==
    /\ \E alarm \in Alarms \ own : RaiseAlarm(alarm) \/ RefuseAlarm(alarm) \/ ClearAlarm(alarm)
    /\ UNCHANGED calls

RegistryInit ==
    /\ raised = {}
    /\ calls = [t \in Threads |-> <<>>]
    /\ overflowed = FALSE

RegistryTypeOK ==
    /\ raised \in SUBSET Alarms
    /\ \A t \in Threads :
         calls[t] \in Seq(CallsOf("raise", Alarms) \union CallsOf("clear", Alarms))
    /\ overflowed \in BOOLEAN
================================================================================
