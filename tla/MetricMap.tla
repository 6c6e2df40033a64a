------------------------------ MODULE MetricMap ------------------------------
(***************************************************************************)
(* What a metric store promises to the worker that owns it: a map from     *)
(* series to values that survives the death of the worker.                 *)
(*                                                                         *)
(* A call changes the map at one instant, its effect.  A call that returns *)
(* a value has had its effect exactly once and returns the value it wrote; *)
(* a call that returns an error has had none; a call cut short by the      *)
(* death of the worker has had its effect or not, and nothing in between.  *)
(* Nothing else ever changes the map.                                      *)
(***************************************************************************)
EXTENDS Integers

CONSTANTS
  Keys,      \* the series a worker writes
  Updates,   \* the closures handed to upsert
  Errors,    \* the errors a call may end with
  MaxValue   \* bound on the values, to keep the instances finite

VARIABLES
  kv,        \* the stored series: a function on a subset of Keys
  call,      \* the call in progress, or NoCall
  ret        \* the outcome of the last call

vars == <<kv, call, ret>>

NoCall == [state |-> "none"]
NoRet  == [status |-> "none", value |-> 0]

Apply(f, v) == IF f.kind = "inc" THEN v + f.arg ELSE f.arg

\* A series that was never written reads as 0.
ValueIn(m, k) == IF k \in DOMAIN m THEN m[k] ELSE 0

Init ==
  /\ kv = [k \in {} |-> 0]
  /\ call = NoCall
  /\ ret = NoRet

Invoke(k, f) ==
  /\ call = NoCall
  /\ Apply(f, ValueIn(kv, k)) <= MaxValue
  /\ call' = [state |-> "invoked", key |-> k, f |-> f]
  /\ ret' = NoRet
  /\ UNCHANGED kv

Effect ==
  /\ call.state = "invoked"
  /\ kv' = [k \in DOMAIN kv \cup {call.key} |->
              IF k = call.key THEN Apply(call.f, ValueIn(kv, k)) ELSE kv[k]]
  /\ call' = [call EXCEPT !.state = "done"]
  /\ UNCHANGED ret

ReturnValue ==
  /\ call.state = "done"
  /\ ret' = [status |-> "ok", value |-> kv[call.key]]
  /\ call' = NoCall
  /\ UNCHANGED kv

ReturnError ==
  /\ call.state = "invoked"
  /\ \E e \in Errors : ret' = [status |-> e, value |-> 0]
  /\ call' = NoCall
  /\ UNCHANGED kv

Read(k) ==
  /\ call = NoCall
  /\ ret' = [status |-> "ok", value |-> ValueIn(kv, k)]
  /\ UNCHANGED <<kv, call>>

\* The worker dies; so does the call, and nobody learns its outcome.
Abort ==
  /\ call' = NoCall
  /\ ret' = NoRet
  /\ UNCHANGED kv

Next ==
  \/ \E k \in Keys, f \in Updates : Invoke(k, f)
  \/ Effect
  \/ ReturnValue
  \/ ReturnError
  \/ \E k \in Keys : Read(k)
  \/ Abort

Spec == Init /\ [][Next]_vars

=============================================================================
